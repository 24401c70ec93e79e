--------------------------- MODULE FlagResultsProofs ---------------------------
(***************************************************************************)
(* Theorems about FlagResults, for any threads, persons, flags and sizes,  *)
(* and for either fallback cache.                                          *)
(***************************************************************************)
EXTENDS FlagResults, FiniteSetTheorems, SequenceTheorems, TLAPS

Pcs == {"idle", "ask", "ask_all", "store", "storing", "report", "create", "emit"}
Values == {"on", "off", "unknown", "asked", NoValue}
SetNames == (Calls \cup {"nobody"}) \X Nat
CallRecords ==
  [pc : Pcs, n : Nat, id : Persons \cup {"nobody"}, flag : Flags \cup {"none"}, value : Values, store : Values,
   override : {NoValue, "asked"}, send : BOOLEAN, source : {"nowhere", "local", "server", "snapshot"},
   gate : BOOLEAN, minimal : BOOLEAN, origin : Nat, version : Nat, set : SetNames]
CacheEntries == [value : Values, version : Nat, at : Nat, origin : Nat, late : BOOLEAN, asked : BOOLEAN]
ReportRecords ==
  [id : Persons \cup {"nobody"}, set : SetNames, keys : SUBSET ((Flags \cup {"none"}) \X Values)]
\* Maps of some of the flags.
Maps(of) == UNION {[F -> of] : F \in SUBSET Flags}
ViewRecords ==
  [id : Persons, gate : BOOLEAN, accessed : SUBSET Flags, seen : Maps({"on", "off", NoValue}),
   expect : SUBSET Maps({"on", "off", NoValue}), flags : Maps({"on", "off"})]

\* What the variables hold; a call for all flags reports none.
TypeOK ==
  /\ backend \in Backends
  /\ definitions \in [version : Nat, local : [Flags -> {"on", "unknown"}]]
  /\ gate \in BOOLEAN /\ now \in Nat
  /\ \A p \in DOMAIN cache : \A f \in DOMAIN cache[p] : cache[p][f] \in CacheEntries
  /\ reported \in Seq(ReportRecords)
  /\ calls \in [Calls -> CallRecords]
  /\ \A c \in Calls : calls[c].pc = "ask_all" => calls[c].send = FALSE
  /\ views \in Seq(ViewRecords)

\* The set that a call or an entry of the dictionary holds, and for whom.
Holds(s, p) ==
  \/ \E i \in DOMAIN reported : reported[i].set = s /\ reported[i].id = p
  \/ \E c \in Calls : calls[c].pc = "emit" /\ calls[c].set = s /\ calls[c].id = p

\* A set is for one person, and no call finds a set of its own name before it
\* creates it; what a set says was reported was reported of its person.
SetsHavePersons ==
  /\ \A s, p, q : Holds(s, p) /\ Holds(s, q) => p = q
  /\ \A c \in Calls : \A n, p : Holds(<<c, n>>, p) =>
       n <= calls[c].n /\ (calls[c].pc \notin {"idle", "emit"} => n < calls[c].n)
  /\ \A i \in DOMAIN reported : \A k \in reported[i].keys :
       \E e \in events : e.id = reported[i].id /\ k = <<e.flag, e.value>>

\* The version a value is stored under is one between that it was evaluated
\* with and the present one, and the same as both if neither has changed.
VersionsCarried ==
  \A c \in Calls :
    /\ calls[c].pc \in {"ask", "store"} => calls[c].origin <= definitions.version
    /\ calls[c].pc = "storing" => /\ calls[c].origin <= calls[c].version
                                  /\ calls[c].version <= definitions.version
CacheAgrees ==
  /\ VersionsCarried
  /\ backend = "memory" =>
       /\ IsFiniteSet(DOMAIN cache)
       /\ \A p \in DOMAIN cache : \A f \in DOMAIN cache[p] :
            ~cache[p][f].late => cache[p][f].version = cache[p][f].origin

\* A view has told its caller what it holds, and what was accessed of it was
\* told; flags attached are the view's.
ViewAgrees(view) ==
  /\ DOMAIN view.seen \subseteq view.accessed
  /\ view.accessed \cap DOMAIN view.flags \subseteq DOMAIN view.seen
  /\ \A f \in DOMAIN view.seen : view.seen[f] = ValueIn(view, f)
  /\ \A told \in view.expect : view.flags = [f \in {g \in DOMAIN told : told[g] # NoValue} |-> told[f]]
ViewsAgree ==
  /\ \A v \in DOMAIN views : ViewAgrees(views[v])
  /\ \A a \in attached : a.view \in DOMAIN views /\ a.flags = views[a.view].flags

IInv == /\ TypeOK /\ SetsHavePersons /\ CacheAgrees /\ ViewsAgree
        /\ AnswersReported /\ FallbackCurrent

(* Maps of flags stay maps of flags.                                       *)
LEMMA PutMap ==
  ASSUME NEW S, NEW m \in Maps(S), NEW f \in Flags, NEW x \in S
  PROVE  /\ Put(m, f, x) \in Maps(S)
         /\ DOMAIN Put(m, f, x) = DOMAIN m \cup {f}
         /\ \A g \in DOMAIN m \cup {f} : Put(m, f, x)[g] = IF g = f THEN x ELSE m[g]
<1>1. PICK F \in SUBSET Flags : m \in [F -> S]
  BY DEF Maps
<1>2. Put(m, f, x) \in [F \cup {f} -> S] /\ F \cup {f} \in SUBSET Flags
  BY <1>1 DEF Put
<1> QED
  BY <1>1, <1>2 DEF Maps, Put

LEMMA IdleCall == Idle \in CallRecords /\ Idle.pc = "idle" /\ Idle.send = FALSE
  BY SMTT(30) DEF Idle, CallRecords, Pcs, Values, SetNames, NoSet, NoValue

(* What a call records of itself: nothing but its answer when it is over.  *)
LEMMA SetCall ==
  ASSUME calls \in [Calls -> CallRecords], NEW c \in Calls, NEW r \in CallRecords, Set(c, r)
  PROVE  /\ calls' \in [Calls -> CallRecords]
         /\ \A d \in Calls \ {c} : calls'[d] = calls[d]
         /\ calls'[c].pc = r.pc /\ calls'[c].n = r.n /\ calls'[c].id = r.id
         /\ calls'[c].flag = r.flag /\ calls'[c].value = r.value /\ calls'[c].send = r.send
         /\ r.pc # "idle" => calls'[c] = r
<1>1. Told(r) \in CallRecords /\ Told(r).n = r.n /\ Told(r).id = r.id /\ Told(r).pc = "idle"
      /\ Told(r).flag = r.flag /\ Told(r).value = r.value /\ Told(r).send = r.send
  BY IdleCall DEF Told, CallRecords
<1>2. DOMAIN calls = Calls
  OBVIOUS
<1> QED
  BY <1>1, <1>2 DEF Set

\* A call that reports nothing yet: where it may come from and go to, and the
\* version it carries.
Quiet(c, r) ==
  /\ r.pc \notin {"create", "emit"}
  /\ \/ calls[c].pc = "idle" /\ r.n = calls[c].n + 1
     \/ calls[c].pc \notin {"idle", "emit"} /\ r.n = calls[c].n
  /\ r.pc \in {"idle", "ask_all"} => r.send = FALSE
  /\ r.pc \in {"ask", "store"} => \/ r.origin = definitions.version
                                  \/ calls[c].pc = "ask" /\ r.origin = calls[c].origin
  /\ r.pc = "storing" => /\ calls[c].pc = "store" /\ r.origin = calls[c].origin
                         /\ r.version = definitions.version

LEMMA BeginQuiet ==
  ASSUME TypeOK, NEW c \in Calls, NEW p \in Persons, NEW f \in Flags, NEW onlyLocal \in BOOLEAN,
         NEW override \in {NoValue, "asked"}, NEW send \in BOOLEAN, Begin(c, p, f, onlyLocal, override, send)
  PROVE  \E r \in CallRecords : Set(c, r) /\ Quiet(c, r)
<1> DEFINE value == LocallyEvaluateFlag(f)
           answer == IF value = "unknown" THEN NoValue ELSE IF override # NoValue THEN override ELSE value
           source == IF value # "unknown" THEN "local" ELSE "nowhere"
           step == IF value # "unknown" THEN "store"
                   ELSE IF ~onlyLocal THEN "ask" ELSE IF send THEN "report" ELSE "idle"
           r == [Idle EXCEPT !.id = p, !.flag = f, !.value = answer, !.store = value, !.override = override, !.send = send,
                   !.source = source, !.gate = gate, !.origin = definitions.version, !.n = calls[c].n + 1, !.pc = step]
<1>1. Set(c, r) /\ calls[c].pc = "idle"
  BY DEF Begin
<1>2. value \in {"on", "unknown"} /\ answer \in Values /\ gate \in BOOLEAN
      /\ definitions.version \in Nat /\ calls[c].n \in Nat
      /\ source \in {"nowhere", "local"} /\ step \in {"store", "ask", "report", "idle"} /\ (step = "idle" => send = FALSE)
  BY DEF TypeOK, LocallyEvaluateFlag, Values, NoValue, CallRecords
<1> HIDE DEF value, answer, source, step
<1>3. r \in CallRecords
  <2>1. calls[c].n + 1 \in Nat /\ value \in Values /\ step \in Pcs
    BY <1>2 DEF Values, Pcs
  <2> QED
    BY <1>2, <2>1, IdleCall DEF CallRecords
<1>4. Quiet(c, r)
  BY <1>1, <1>2, IdleCall DEF Quiet, CallRecords
<1> HIDE DEF r
<1> QED
  BY <1>1, <1>3, <1>4

LEMMA GetFlagsDecisionQuiet ==
  ASSUME TypeOK, NEW c \in Calls, GetFlagsDecision(c)
  PROVE  \E r \in CallRecords : Set(c, r) /\ Quiet(c, r)
<1> USE DEF CallRecords, Pcs, Values
<1>0. calls[c] \in CallRecords /\ calls[c].pc = "ask" /\ After(c) = (IF calls[c].send THEN "report" ELSE "idle")
  BY DEF GetFlagsDecision, TypeOK, After
<1>1. CASE \E value \in {"on", NoValue}, g \in BOOLEAN :
             LET answer == IF value # NoValue /\ calls[c].override # NoValue THEN calls[c].override ELSE value IN
             Set(c, [calls[c] EXCEPT !.value = answer, !.store = answer, !.gate = g,
                       !.pc = IF value = NoValue THEN After(c) ELSE "store",
                       !.source = IF value = NoValue THEN "nowhere" ELSE "server"])
  <2> PICK value \in {"on", NoValue}, g \in BOOLEAN :
             LET answer == IF value # NoValue /\ calls[c].override # NoValue THEN calls[c].override ELSE value IN
             Set(c, [calls[c] EXCEPT !.value = answer, !.store = answer, !.gate = g,
                       !.pc = IF value = NoValue THEN After(c) ELSE "store",
                       !.source = IF value = NoValue THEN "nowhere" ELSE "server"])
    BY <1>1
  <2> DEFINE answer == IF value # NoValue /\ calls[c].override # NoValue THEN calls[c].override ELSE value
             step == IF value = NoValue THEN After(c) ELSE "store"
             source == IF value = NoValue THEN "nowhere" ELSE "server"
             r == [calls[c] EXCEPT !.value = answer, !.store = answer, !.gate = g, !.pc = step, !.source = source]
  <2>1. Set(c, r)
    OBVIOUS
  <2>2. answer \in Values /\ source \in {"nowhere", "server"} /\ step \in {"store", "report", "idle"}
        /\ (step = "idle" => calls[c].send = FALSE)
    BY <1>0 DEF NoValue
  <2> HIDE DEF answer, step, source
  <2>3. r \in CallRecords
    BY <1>0, <2>2
  <2>4. Quiet(c, r)
    BY <1>0, <2>2 DEF Quiet
  <2> HIDE DEF r
  <2> QED
    BY <2>1, <2>3, <2>4
<1>2. CASE \E value \in Fallback(calls[c].id, calls[c].flag) :
             Set(c, [calls[c] EXCEPT !.value = value, !.pc = After(c)])
  <2>1. PICK value \in Fallback(calls[c].id, calls[c].flag) :
             Set(c, [calls[c] EXCEPT !.value = value, !.pc = After(c)])
    BY <1>2
  <2>2. value \in Values
    <3>1. CASE StaleCached(calls[c].id, calls[c].flag)
      <4>1. cache[calls[c].id][calls[c].flag] \in CacheEntries
        BY <3>1 DEF StaleCached, TypeOK
      <4> QED
        BY <2>1, <3>1, <4>1 DEF Fallback, CacheEntries, NoValue
    <3>2. CASE ~StaleCached(calls[c].id, calls[c].flag)
      BY <2>1, <3>2 DEF Fallback, NoValue
    <3> QED
      BY <3>1, <3>2
  <2>3. [calls[c] EXCEPT !.value = value, !.pc = After(c)] \in CallRecords
        /\ Quiet(c, [calls[c] EXCEPT !.value = value, !.pc = After(c)])
    BY <1>0, <2>2 DEF Quiet
  <2> QED
    BY <2>1, <2>3
<1> QED
  BY <1>1, <1>2 DEF GetFlagsDecision

LEMMA OtherCallsQuiet ==
  ASSUME TypeOK, NEW c \in Calls, GetAllFlags(c) \/ AskAll(c) \/ ReadVersion(c) \/ Store(c)
  PROVE  \E r \in CallRecords : Set(c, r) /\ Quiet(c, r)
<1>0. calls[c] \in CallRecords /\ calls[c].n \in Nat /\ definitions.version \in Nat
      /\ (calls[c].pc = "ask_all" => calls[c].send = FALSE)
  BY DEF TypeOK, CallRecords
<1>1. CASE GetAllFlags(c)
  <2>1. PICK step \in {"idle", "ask_all"} : /\ calls[c].pc = "idle"
                                          /\ Set(c, [Idle EXCEPT !.n = calls[c].n + 1, !.pc = step])
    BY <1>1 DEF GetAllFlags, GetAllFlagsAndPayloads
  <2>2. [Idle EXCEPT !.n = calls[c].n + 1, !.pc = step] \in CallRecords
    <3>1. calls[c].n + 1 \in Nat /\ step \in Pcs
      BY <1>0 DEF Pcs
    <3> QED
      BY <3>1, IdleCall DEF CallRecords
  <2>3. Quiet(c, [Idle EXCEPT !.n = calls[c].n + 1, !.pc = step])
    BY <2>1, IdleCall DEF Quiet, CallRecords
  <2> QED
    BY <2>1, <2>2, <2>3
<1>2. CASE AskAll(c)
  <2>1. Set(c, [calls[c] EXCEPT !.pc = "idle"]) /\ calls[c].pc = "ask_all"
    BY <1>2 DEF AskAll
  <2>2. [calls[c] EXCEPT !.pc = "idle"] \in CallRecords /\ Quiet(c, [calls[c] EXCEPT !.pc = "idle"])
    BY <1>0, <2>1 DEF Quiet, CallRecords, Pcs
  <2> QED
    BY <2>1, <2>2
<1>3. CASE ReadVersion(c)
  <2>1. Set(c, [calls[c] EXCEPT !.pc = "storing", !.version = definitions.version]) /\ calls[c].pc = "store"
    BY <1>3 DEF ReadVersion
  <2>2. /\ [calls[c] EXCEPT !.pc = "storing", !.version = definitions.version] \in CallRecords
        /\ Quiet(c, [calls[c] EXCEPT !.pc = "storing", !.version = definitions.version])
    BY <1>0, <2>1 DEF Quiet, CallRecords, Pcs
  <2> QED
    BY <2>1, <2>2
<1>4. CASE Store(c)
  <2>1. Set(c, [calls[c] EXCEPT !.pc = After(c)]) /\ calls[c].pc = "storing"
        /\ After(c) = (IF calls[c].send THEN "report" ELSE "idle")
    BY <1>4 DEF Store, After
  <2>2. [calls[c] EXCEPT !.pc = After(c)] \in CallRecords /\ Quiet(c, [calls[c] EXCEPT !.pc = After(c)])
    BY <1>0, <2>1 DEF Quiet, CallRecords, Pcs
  <2> QED
    BY <2>1, <2>2
<1> QED
  BY <1>1, <1>2, <1>3, <1>4

LEMMA AccessQuiet ==
  ASSUME TypeOK, NEW c \in Calls, NEW v, NEW f \in Flags, Access(c, v, f)
  PROVE  \E r \in CallRecords : Set(c, r) /\ Quiet(c, r)
<1> DEFINE value == ValueIn(views[v], f)
           source == IF value = NoValue THEN "nowhere" ELSE "snapshot"
           r == [Idle EXCEPT !.id = views[v].id, !.flag = f, !.value = value, !.gate = views[v].gate,
                   !.source = source, !.send = TRUE, !.n = calls[c].n + 1, !.pc = "report"]
<1>1. Set(c, r) /\ calls[c].pc = "idle" /\ v \in DOMAIN views
  BY DEF Access
<1>2. views[v] \in ViewRecords
  BY <1>1 DEF TypeOK
<1>3. views[v].id \in Persons /\ views[v].gate \in BOOLEAN
  BY <1>2 DEF ViewRecords
<1>4. value \in Values
  <2>1. PICK F \in SUBSET Flags : views[v].flags \in [F -> {"on", "off"}]
    BY <1>2 DEF ViewRecords, Maps
  <2> QED
    BY <2>1 DEF ValueIn, Values
<1>5. source \in {"nowhere", "snapshot"} /\ calls[c].n + 1 \in Nat
  BY DEF TypeOK, CallRecords
<1> HIDE DEF value, source
<1>6. r \in CallRecords
  BY <1>3, <1>4, <1>5, IdleCall DEF CallRecords, Pcs
<1>7. Quiet(c, r)
  BY <1>1, IdleCall DEF Quiet, CallRecords
<1> HIDE DEF r
<1> QED
  BY <1>1, <1>6, <1>7
------------------------------------------------------------------------------
LEMMA HeldNames == ASSUME TypeOK, NEW s, NEW p, Holds(s, p) PROVE s \in SetNames
<1>1. CASE \E i \in DOMAIN reported : reported[i].set = s
  <2>1. PICK i \in DOMAIN reported : reported[i].set = s
    BY <1>1
  <2>2. reported[i] \in ReportRecords
    BY DEF TypeOK
  <2> QED
    BY <2>1, <2>2 DEF ReportRecords
<1>2. CASE \E c \in Calls : calls[c].set = s
  BY <1>2 DEF TypeOK, CallRecords
<1> QED
  BY <1>1, <1>2 DEF Holds

(* A quiet call takes no set, and its name is not that of a set yet.       *)
LEMMA QuietKeepsSets ==
  ASSUME TypeOK, SetsHavePersons, AnswersReported, NEW c \in Calls, NEW r \in CallRecords,
         Set(c, r), Quiet(c, r), UNCHANGED <<reported, events>>
  PROVE  SetsHavePersons' /\ AnswersReported'
<1>0. /\ calls' \in [Calls -> CallRecords] /\ \A d \in Calls \ {c} : calls'[d] = calls[d]
      /\ calls'[c].pc = r.pc /\ calls'[c].n = r.n /\ calls'[c].send = r.send
  BY SetCall DEF TypeOK
<1>1. \A s, p : Holds(s, p)' => Holds(s, p)
  BY <1>0 DEF Holds, Quiet
<1>2. \A s, p, q : Holds(s, p)' /\ Holds(s, q)' => p = q
  BY <1>1 DEF SetsHavePersons
<1>3. ASSUME NEW d \in Calls, NEW n, NEW p, Holds(<<d, n>>, p)'
      PROVE  n <= calls'[d].n /\ (calls'[d].pc \notin {"idle", "emit"} => n < calls'[d].n)
  <2>1. Holds(<<d, n>>, p)
    BY <1>1, <1>3
  <2>2. n <= calls[d].n /\ (calls[d].pc \notin {"idle", "emit"} => n < calls[d].n)
    BY <2>1 DEF SetsHavePersons
  <2>3. n \in Nat
    BY <2>1, HeldNames DEF SetNames
  <2>4. calls[d].n \in Nat
    BY DEF TypeOK, CallRecords
  <2> QED
    BY <1>0, <2>2, <2>3, <2>4 DEF Quiet
<1>4. SetsHavePersons'
  BY <1>2, <1>3 DEF SetsHavePersons
<1>5. AnswersReported'
  BY <1>0 DEF AnswersReported, Quiet
<1> QED
  BY <1>4, <1>5

(* The versions a quiet call carries.                                      *)
LEMMA QuietCarries ==
  ASSUME TypeOK, CacheAgrees, NEW c \in Calls, NEW r \in CallRecords, Set(c, r), Quiet(c, r),
         UNCHANGED definitions
  PROVE  VersionsCarried'
<1>0. /\ calls' \in [Calls -> CallRecords] /\ \A e \in Calls \ {c} : calls'[e] = calls[e]
      /\ calls'[c].pc = r.pc /\ (r.pc # "idle" => calls'[c] = r) /\ definitions.version \in Nat
  BY SetCall DEF TypeOK
<1> QED
  BY <1>0 DEF Quiet, CacheAgrees, VersionsCarried

(* The types of calls, when one of them is quiet.                          *)
LEMMA QuietTypes ==
  ASSUME TypeOK, NEW c \in Calls, NEW r \in CallRecords, Set(c, r), Quiet(c, r)
  PROVE  /\ calls' \in [Calls -> CallRecords]
         /\ \A d \in Calls : calls'[d].pc = "ask_all" => calls'[d].send = FALSE
<1>0. /\ calls' \in [Calls -> CallRecords] /\ \A e \in Calls \ {c} : calls'[e] = calls[e]
      /\ calls'[c].pc = r.pc /\ calls'[c].send = r.send
  BY SetCall DEF TypeOK
<1> QED
  BY <1>0 DEF Quiet, TypeOK

------------------------------------------------------------------------------
(* A call that reports: what it makes of the dictionary and its events.    *)
LEMMA LookUpSets ==
  ASSUME TypeOK, SetsHavePersons, AnswersReported, NEW c \in Calls, LookUpReported(c)
  PROVE  SetsHavePersons' /\ AnswersReported' /\ calls' \in [Calls -> CallRecords]
         /\ \A d \in Calls : calls'[d].pc \in {"ask", "ask_all", "store", "storing"} => calls'[d] = calls[d]
<1> DEFINE i == EntryOf(calls[c].id)
<1>0. calls[c] \in CallRecords /\ calls[c].pc = "report" /\ UNCHANGED <<reported, events>> /\ Minimal(c) \in BOOLEAN
  BY DEF LookUpReported, TypeOK, Minimal, CallRecords
<1>a. i # 0 => i \in DOMAIN reported /\ reported[i].id = calls[c].id
  BY DEF EntryOf
<1>b. i # 0 => reported[i] \in ReportRecords
  BY <1>a DEF TypeOK
<1> HIDE DEF i
<1>1. PICK r \in CallRecords :
        /\ Set(c, r) /\ r.n = calls[c].n /\ r.id = calls[c].id /\ r.flag = calls[c].flag /\ r.value = calls[c].value
        /\ \/ r.pc = "create"
           \/ i # 0 /\ Key(c) \in reported[i].keys /\ r.pc = "idle"
           \/ i # 0 /\ r.pc = "emit" /\ r.set = reported[i].set
  <2>1. CASE i = 0
    <3>1. Set(c, [calls[c] EXCEPT !.pc = "create", !.minimal = Minimal(c)])
      BY <2>1 DEF LookUpReported, i
    <3>2. [calls[c] EXCEPT !.pc = "create", !.minimal = Minimal(c)] \in CallRecords
      BY <1>0 DEF CallRecords, Pcs
    <3> QED
      BY <1>0, <3>1, <3>2 DEF CallRecords
  <2>2. CASE i # 0 /\ Key(c) \in reported[i].keys
    <3>1. Set(c, [calls[c] EXCEPT !.pc = "idle"])
      BY <2>2 DEF LookUpReported, i
    <3>2. [calls[c] EXCEPT !.pc = "idle"] \in CallRecords
      BY <1>0 DEF CallRecords, Pcs
    <3> QED
      BY <1>0, <2>2, <3>1, <3>2 DEF CallRecords
  <2>3. CASE i # 0 /\ Key(c) \notin reported[i].keys
    <3>1. Set(c, [calls[c] EXCEPT !.pc = "emit", !.set = reported[i].set, !.minimal = Minimal(c)])
      BY <2>3 DEF LookUpReported, i
    <3>2. [calls[c] EXCEPT !.pc = "emit", !.set = reported[i].set, !.minimal = Minimal(c)] \in CallRecords
      BY <1>0, <1>b, <2>3 DEF CallRecords, ReportRecords, Pcs
    <3> QED
      BY <1>0, <2>3, <3>1, <3>2 DEF CallRecords
  <2> QED
    BY <2>1, <2>2, <2>3
<1>2. /\ calls' \in [Calls -> CallRecords] /\ \A d \in Calls \ {c} : calls'[d] = calls[d]
      /\ calls'[c].pc = r.pc /\ calls'[c].n = calls[c].n /\ calls'[c].id = calls[c].id
      /\ calls'[c].flag = calls[c].flag /\ calls'[c].value = calls[c].value /\ (r.pc # "idle" => calls'[c] = r)
  BY <1>1, SetCall DEF TypeOK
<1>3. ASSUME NEW s, NEW p, Holds(s, p)' PROVE Holds(s, p)
  <2>1. CASE \E j \in DOMAIN reported : reported[j].set = s /\ reported[j].id = p
    BY <2>1 DEF Holds
  <2>2. CASE \E d \in Calls \ {c} : calls'[d].pc = "emit" /\ calls'[d].set = s /\ calls'[d].id = p
    BY <1>2, <2>2 DEF Holds
  <2>3. CASE calls'[c].pc = "emit" /\ calls'[c].set = s /\ calls'[c].id = p
    BY <1>a, <1>1, <1>2, <2>3 DEF Holds
  <2> QED
    BY <1>0, <1>3, <2>1, <2>2, <2>3 DEF Holds
<1>4. ASSUME NEW d \in Calls, NEW n, NEW p, Holds(<<d, n>>, p)'
      PROVE  n <= calls'[d].n /\ (calls'[d].pc \notin {"idle", "emit"} => n < calls'[d].n)
  BY <1>0, <1>1, <1>2, <1>3, <1>4 DEF SetsHavePersons
<1>5. SetsHavePersons'
  BY <1>0, <1>3, <1>4 DEF SetsHavePersons
<1>6. ASSUME NEW d \in Calls, calls'[d].pc = "idle", calls'[d].send
      PROVE  \E e \in events' : e.id = calls'[d].id /\ e.flag = calls'[d].flag /\ e.value = calls'[d].value
  <2>1. CASE d # c
    BY <1>0, <1>2, <1>6, <2>1 DEF AnswersReported
  <2>2. CASE d = c
    <3>1. i # 0 /\ Key(c) \in reported[i].keys
      BY <1>1, <1>2, <1>6, <2>2
    <3>2. PICK e \in events : e.id = reported[i].id /\ Key(c) = <<e.flag, e.value>>
      BY <1>a, <3>1 DEF SetsHavePersons
    <3> QED
      BY <1>0, <1>a, <1>2, <2>2, <3>1, <3>2 DEF Key
  <2> QED
    BY <2>1, <2>2
<1>7. AnswersReported'
  BY <1>0, <1>6 DEF AnswersReported
<1> QED
  BY <1>1, <1>2, <1>5, <1>7

LEMMA ButFirst ==
  ASSUME NEW S, NEW s \in Seq(S), Len(s) >= 1
  PROVE  /\ SubSeq(s, 2, Len(s)) \in Seq(S) /\ Len(SubSeq(s, 2, Len(s))) = Len(s) - 1
         /\ \A j \in 1 .. Len(s) - 1 : j + 1 \in DOMAIN s /\ SubSeq(s, 2, Len(s))[j] = s[j + 1]
<1>1. Len(s) \in Nat /\ DOMAIN s = 1 .. Len(s) /\ \A j \in 1 .. Len(s) : s[j] \in S
  OBVIOUS
<1>2. \A j \in 2 .. Len(s) : s[j] \in S
  BY <1>1
<1>3. SubSeq(s, 2, Len(s)) \in Seq(S) /\ Len(SubSeq(s, 2, Len(s))) = (IF 2 <= Len(s) THEN Len(s) - 2 + 1 ELSE 0)
      /\ \A j \in 1 .. Len(s) - 2 + 1 : SubSeq(s, 2, Len(s))[j] = s[2 + j - 1]
  BY <1>1, <1>2, SubSeqProperties
<1> QED
  BY <1>1, <1>3

LEMMA Appended ==
  ASSUME NEW S, NEW s \in Seq(S), NEW x \in S
  PROVE  /\ Append(s, x) \in Seq(S) /\ Len(Append(s, x)) = Len(s) + 1 /\ DOMAIN Append(s, x) = DOMAIN s \cup {Len(s) + 1}
         /\ Len(s) + 1 \notin DOMAIN s /\ Append(s, x)[Len(s) + 1] = x /\ \A j \in DOMAIN s : Append(s, x)[j] = s[j]
<1>1. Len(s) \in Nat /\ DOMAIN s = 1 .. Len(s)
  OBVIOUS
<1>2. Append(s, x) \in Seq(S) /\ Len(Append(s, x)) = Len(s) + 1 /\ Append(s, x)[Len(s) + 1] = x
      /\ \A j \in 1 .. Len(s) : Append(s, x)[j] = s[j]
  BY AppendProperties
<1>3. DOMAIN Append(s, x) = 1 .. Len(s) + 1
  BY <1>2
<1> QED
  BY <1>1, <1>2, <1>3

LEMMA CreateSets ==
  ASSUME TypeOK, SetsHavePersons, AnswersReported, NEW c \in Calls, CreateReported(c)
  PROVE  SetsHavePersons' /\ AnswersReported' /\ calls' \in [Calls -> CallRecords] /\ reported' \in Seq(ReportRecords)
         /\ \A d \in Calls : calls'[d].pc \in {"ask", "ask_all", "store", "storing"} => calls'[d] = calls[d]
<1> DEFINE new == [id |-> calls[c].id, set |-> <<c, calls[c].n>>, keys |-> {}]
           i == EntryOf(calls[c].id)
           room == IF Len(reported) >= MaxIds THEN SubSeq(reported, Len(reported) - MaxIds + 2, Len(reported)) ELSE reported
<1>0. calls[c] \in CallRecords /\ calls[c].pc = "create" /\ UNCHANGED events /\ new \in ReportRecords
      /\ MaxIds \in Nat \ {0} /\ reported \in Seq(ReportRecords)
      /\ reported' = IF i # 0 THEN [reported EXCEPT ![i] = new] ELSE Append(room, new)
  BY FlagResultsAssumption DEF CreateReported, TypeOK, CallRecords, ReportRecords, SetNames
<1>a. /\ i # 0 => i \in DOMAIN reported /\ reported[i].id = calls[c].id
      /\ i = 0 => \A j \in DOMAIN reported : reported[j].id # calls[c].id
  BY <1>0 DEF EntryOf
<1>b. /\ new.id = calls[c].id /\ new.set = <<c, calls[c].n>> /\ new.keys = {}
  OBVIOUS
<1>1. PICK r \in CallRecords : /\ Set(c, r) /\ r.n = calls[c].n /\ r.id = calls[c].id
                             /\ r.pc = "emit" /\ r.set = <<c, calls[c].n>>
  <2>1. Set(c, [calls[c] EXCEPT !.pc = "emit", !.set = <<c, calls[c].n>>])
    BY DEF CreateReported
  <2>2. [calls[c] EXCEPT !.pc = "emit", !.set = <<c, calls[c].n>>] \in CallRecords
    BY <1>0 DEF CallRecords, SetNames, Pcs
  <2> QED
    BY <1>0, <2>1, <2>2 DEF CallRecords
<1> HIDE DEF new, i
<1>2. calls' \in [Calls -> CallRecords] /\ (\A d \in Calls \ {c} : calls'[d] = calls[d]) /\ calls'[c] = r
  BY <1>1, SetCall DEF TypeOK
<1>3. /\ room \in Seq(ReportRecords) /\ Len(room) < MaxIds
      /\ \E shift \in Nat : \A j \in DOMAIN room : j + shift \in DOMAIN reported /\ room[j] = reported[j + shift]
  <2>1. CASE Len(reported) >= MaxIds
    <3>1. Len(reported) <= MaxIds
      BY DEF AnswersReported
    <3>2. room = SubSeq(reported, 2, Len(reported))
      BY <1>0, <2>1, <3>1
    <3>3. Len(reported) >= 1 /\ Len(reported) \in Nat
      BY <1>0, <2>1
    <3> HIDE DEF room
    <3>4. room \in Seq(ReportRecords) /\ Len(room) = Len(reported) - 1
          /\ \A j \in 1 .. Len(reported) - 1 : j + 1 \in DOMAIN reported /\ room[j] = reported[j + 1]
      BY <1>0, <3>2, <3>3, ButFirst
    <3>5. DOMAIN room = 1 .. Len(reported) - 1 /\ Len(room) < MaxIds
      BY <1>0, <3>1, <3>3, <3>4
    <3> QED
      BY <3>4, <3>5
  <2>2. CASE ~(Len(reported) >= MaxIds)
    <3>1. room = reported
      BY <2>2
    <3> HIDE DEF room
    <3>2. Len(reported) \in Nat /\ DOMAIN reported = 1 .. Len(reported)
      BY <1>0
    <3>3. \A j \in DOMAIN reported : j + 0 \in DOMAIN reported /\ room[j] = reported[j + 0]
      BY <3>1, <3>2
    <3>4. \E shift \in Nat : \A j \in DOMAIN reported : j + shift \in DOMAIN reported /\ room[j] = reported[j + shift]
      <4>1. 0 \in Nat
        OBVIOUS
      <4> QED
        BY <3>3, <4>1, Zenon
    <3>5. Len(reported) < MaxIds
      BY <1>0, <2>2, <3>2
    <3> QED
      BY <1>0, <3>1, <3>4, <3>5
  <2> QED
    BY <2>1, <2>2
<1> HIDE DEF room
\* Every entry is the new one or an old one, and the old ones keep their order.
<1>4. /\ reported' \in Seq(ReportRecords) /\ Len(reported') <= MaxIds
      /\ \A j \in DOMAIN reported' : reported'[j] = new \/ \E k \in DOMAIN reported : reported'[j] = reported[k]
      /\ \A j, k \in DOMAIN reported' : reported'[j].id = reported'[k].id => j = k
  <2>1. CASE i # 0
    <3>1. reported' = [reported EXCEPT ![i] = new] /\ i \in DOMAIN reported /\ reported[i].id = new.id
      BY <1>0, <1>a, <1>b, <2>1
    <3>2. reported' \in Seq(ReportRecords) /\ Len(reported') = Len(reported) /\ DOMAIN reported' = DOMAIN reported
          /\ \A j \in DOMAIN reported : reported'[j] = IF j = i THEN new ELSE reported[j]
      BY <1>0, <3>1
    <3> QED
      BY <3>1, <3>2 DEF AnswersReported
  <2>2. CASE i = 0
    <3>1. reported' = Append(room, new)
      BY <1>0, <2>2
    <3>2. new \in ReportRecords /\ room \in Seq(ReportRecords)
      BY <1>0, <1>3
    <3>3. reported' \in Seq(ReportRecords) /\ Len(reported') = Len(room) + 1 /\ DOMAIN reported' = DOMAIN room \cup {Len(room) + 1}
          /\ Len(room) + 1 \notin DOMAIN room
          /\ reported'[Len(room) + 1] = new /\ \A j \in DOMAIN room : reported'[j] = room[j]
      BY <3>1, <3>2, Appended
    <3>4. PICK shift \in Nat : \A j \in DOMAIN room : j + shift \in DOMAIN reported /\ room[j] = reported[j + shift]
      BY <1>3
    <3>5. Len(reported') <= MaxIds /\ DOMAIN room \subseteq Nat
      <4>1. Len(room) \in Nat /\ DOMAIN room = 1 .. Len(room) /\ MaxIds \in Nat /\ Len(room) < MaxIds
        BY <1>0, <1>3
      <4> QED
        BY <3>3, <4>1
    <3>6. \A j \in DOMAIN reported' : reported'[j] = new \/ \E k \in DOMAIN reported : reported'[j] = reported[k]
      BY <3>3, <3>4
    <3>7. \A j, k \in DOMAIN reported' : reported'[j].id = reported'[k].id => j = k
      <4> SUFFICES ASSUME NEW j \in DOMAIN reported', NEW k \in DOMAIN reported', reported'[j].id = reported'[k].id
                   PROVE  j = k
        OBVIOUS
      <4>1. CASE j \in DOMAIN room /\ k \in DOMAIN room
        <5>1. j + shift \in DOMAIN reported /\ reported[j + shift].id = reported[k + shift].id /\ k + shift \in DOMAIN reported
          BY <3>3, <3>4, <4>1
        <5>2. j + shift = k + shift
          BY <5>1 DEF AnswersReported
        <5> QED
          BY <3>5, <4>1, <5>2
      <4>2. CASE j = Len(room) + 1 /\ k \in DOMAIN room
        BY <1>a, <1>b, <2>2, <3>3, <3>4, <4>2
      <4>3. CASE j \in DOMAIN room /\ k = Len(room) + 1
        BY <1>a, <1>b, <2>2, <3>3, <3>4, <4>3
      <4> QED
        BY <3>3, <4>1, <4>2, <4>3
    <3> QED
      BY <3>3, <3>5, <3>6, <3>7
  <2> QED
    BY <2>1, <2>2
<1>5. ASSUME NEW s, NEW p, Holds(s, p)' PROVE Holds(s, p) \/ (s = <<c, calls[c].n>> /\ p = calls[c].id)
  <2>1. CASE \E j \in DOMAIN reported' : reported'[j].set = s /\ reported'[j].id = p
    <3>1. PICK j \in DOMAIN reported' : reported'[j].set = s /\ reported'[j].id = p
      BY <2>1
    <3>2. CASE reported'[j] = new
      BY <1>b, <3>1, <3>2
    <3>3. CASE \E k \in DOMAIN reported : reported'[j] = reported[k]
      BY <3>1, <3>3 DEF Holds
    <3> QED
      BY <1>4, <3>2, <3>3
  <2>2. CASE \E d \in Calls \ {c} : calls'[d].pc = "emit" /\ calls'[d].set = s /\ calls'[d].id = p
    BY <1>2, <2>2 DEF Holds
  <2>3. CASE calls'[c].pc = "emit" /\ calls'[c].set = s /\ calls'[c].id = p
    BY <1>1, <1>2, <2>3
  <2> QED
    BY <1>5, <2>1, <2>2, <2>3 DEF Holds
\* No set had the new one's name.
<1>6. ASSUME NEW p PROVE ~Holds(<<c, calls[c].n>>, p)
  BY <1>0 DEF SetsHavePersons, CallRecords
<1>7. ASSUME NEW s, NEW p, NEW q, Holds(s, p)', Holds(s, q)' PROVE p = q
  BY <1>5, <1>6, <1>7 DEF SetsHavePersons
<1>8. ASSUME NEW d \in Calls, NEW n, NEW p, Holds(<<d, n>>, p)'
      PROVE  n <= calls'[d].n /\ (calls'[d].pc \notin {"idle", "emit"} => n < calls'[d].n)
  <2>1. CASE Holds(<<d, n>>, p)
    BY <1>1, <1>2, <2>1 DEF SetsHavePersons
  <2>2. CASE <<d, n>> = <<c, calls[c].n>>
    BY <1>0, <1>1, <1>2, <2>2 DEF CallRecords
  <2> QED
    BY <1>5, <1>8, <2>1, <2>2
<1>9. ASSUME NEW j \in DOMAIN reported', NEW k \in reported'[j].keys
      PROVE  \E e \in events' : e.id = reported'[j].id /\ k = <<e.flag, e.value>>
  BY <1>0, <1>b, <1>4 DEF SetsHavePersons
<1>10. SetsHavePersons'
  BY <1>7, <1>8, <1>9 DEF SetsHavePersons
<1>11. AnswersReported'
  <2>1. \A d \in Calls : calls'[d].pc = "idle" => calls'[d] = calls[d]
    BY <1>1, <1>2
  <2> QED
    BY <1>0, <1>4, <2>1 DEF AnswersReported
<1> QED
  BY <1>1, <1>2, <1>4, <1>10, <1>11

LEMMA EmitSets ==
  ASSUME TypeOK, SetsHavePersons, AnswersReported, NEW c \in Calls, EmitEvent(c)
  PROVE  SetsHavePersons' /\ AnswersReported' /\ calls' \in [Calls -> CallRecords] /\ reported' \in Seq(ReportRecords)
         /\ \A d \in Calls : calls'[d].pc \in {"ask", "ask_all", "store", "storing"} => calls'[d] = calls[d]
<1>0. calls[c] \in CallRecords /\ calls[c].pc = "emit" /\ events' = events \cup {Event(c)} /\ reported \in Seq(ReportRecords)
  BY DEF EmitEvent, TypeOK
<1>1. [calls[c] EXCEPT !.pc = "idle"] \in CallRecords /\ Set(c, [calls[c] EXCEPT !.pc = "idle"])
  BY <1>0 DEF EmitEvent, CallRecords, Pcs
<1>2. /\ calls' \in [Calls -> CallRecords] /\ \A d \in Calls \ {c} : calls'[d] = calls[d]
      /\ calls'[c].pc = "idle" /\ calls'[c].n = calls[c].n /\ calls'[c].id = calls[c].id
      /\ calls'[c].flag = calls[c].flag /\ calls'[c].value = calls[c].value
  <2> DEFINE r == [calls[c] EXCEPT !.pc = "idle"]
  <2>1. r.pc = "idle" /\ r.n = calls[c].n /\ r.id = calls[c].id /\ r.flag = calls[c].flag /\ r.value = calls[c].value
    BY <1>0 DEF CallRecords
  <2>2. r \in CallRecords /\ Set(c, r)
    BY <1>1
  <2> HIDE DEF r
  <2> QED
    BY <2>1, <2>2, SetCall DEF TypeOK
<1>3. Key(c) \in (Flags \cup {"none"}) \X Values /\ Key(c) = <<Event(c).flag, Event(c).value>> /\ Event(c).id = calls[c].id
      /\ Event(c).flag = calls[c].flag /\ Event(c).value = calls[c].value
  BY <1>0 DEF Key, Event, CallRecords
<1>4. /\ reported' \in Seq(ReportRecords) /\ DOMAIN reported' = DOMAIN reported /\ Len(reported') = Len(reported)
      /\ \A j \in DOMAIN reported : /\ reported'[j].id = reported[j].id /\ reported'[j].set = reported[j].set
                                   /\ \A k \in reported'[j].keys : k \in reported[j].keys \/ (k = Key(c) /\ reported[j].set = calls[c].set)
  <2> DEFINE New(j) == IF reported[j].set = calls[c].set THEN [reported[j] EXCEPT !.keys = @ \cup {Key(c)}] ELSE reported[j]
  <2>1. \A j \in DOMAIN reported : reported[j] \in ReportRecords
    BY <1>0
  <2>2. ASSUME NEW j \in DOMAIN reported
        PROVE  /\ New(j) \in ReportRecords /\ New(j).id = reported[j].id /\ New(j).set = reported[j].set
               /\ \A k \in New(j).keys : k \in reported[j].keys \/ (k = Key(c) /\ reported[j].set = calls[c].set)
    BY <1>3, <2>1 DEF ReportRecords
  <2>3. reported' = [j \in DOMAIN reported |-> New(j)] /\ DOMAIN reported = 1 .. Len(reported) /\ Len(reported) \in Nat
    BY <1>0 DEF EmitEvent
  <2> HIDE DEF New
  <2>4. reported' \in [1 .. Len(reported) -> ReportRecords] /\ \A j \in DOMAIN reported : reported'[j] = New(j)
    BY <2>2, <2>3
  <2>5. reported' \in Seq(ReportRecords) /\ Len(reported') = Len(reported) /\ DOMAIN reported' = DOMAIN reported
    BY <2>3, <2>4
  <2> QED
    BY <2>2, <2>4, <2>5
<1>5. ASSUME NEW s, NEW p, Holds(s, p)' PROVE Holds(s, p)
  BY <1>2, <1>4, <1>5 DEF Holds
<1>6. ASSUME NEW d \in Calls, NEW n, NEW p, Holds(<<d, n>>, p)'
      PROVE  n <= calls'[d].n /\ (calls'[d].pc \notin {"idle", "emit"} => n < calls'[d].n)
  BY <1>2, <1>5, <1>6 DEF SetsHavePersons
<1>7. ASSUME NEW j \in DOMAIN reported', NEW k \in reported'[j].keys
      PROVE  \E e \in events' : e.id = reported'[j].id /\ k = <<e.flag, e.value>>
  <2>1. CASE k \in reported[j].keys
    BY <1>0, <1>4, <2>1 DEF SetsHavePersons
  <2>2. CASE k = Key(c) /\ reported[j].set = calls[c].set
    <3>1. Holds(calls[c].set, reported[j].id) /\ Holds(calls[c].set, calls[c].id)
      BY <1>0, <1>4, <2>2 DEF Holds
    <3>2. reported[j].id = calls[c].id
      BY <3>1 DEF SetsHavePersons
    <3> QED
      BY <1>0, <1>3, <1>4, <2>2, <3>2
  <2> QED
    BY <1>4, <2>1, <2>2
<1>8. SetsHavePersons'
  BY <1>5, <1>6, <1>7 DEF SetsHavePersons
<1>9. AnswersReported'
  <2>1. ASSUME NEW d \in Calls, calls'[d].pc = "idle", calls'[d].send
        PROVE  \E e \in events' : e.id = calls'[d].id /\ e.flag = calls'[d].flag /\ e.value = calls'[d].value
    BY <1>0, <1>2, <1>3, <2>1 DEF AnswersReported
  <2> QED
    BY <1>4, <2>1 DEF AnswersReported
<1> QED
  BY <1>2, <1>4, <1>8, <1>9
------------------------------------------------------------------------------
(* What the cache holds after a store and after an invalidation.           *)
Added(stored, kept, p, entry) ==
  /\ DOMAIN stored = DOMAIN kept \cup {p}
  /\ \A q \in DOMAIN stored : q # p => stored[q] = kept[q]
  /\ DOMAIN stored[p] # {}
  /\ \A g \in DOMAIN stored[p] :
       stored[p][g] = entry \/ (p \in DOMAIN kept /\ g \in DOMAIN kept[p] /\ stored[p][g] = kept[p][g])
LEMMA WithEntries ==
  ASSUME NEW kept, NEW p, NEW f, NEW entry, NEW stored, stored = With(kept, p, f, entry)
  PROVE  Added(stored, kept, p, entry)
<1> DEFINE old == IF p \in DOMAIN kept THEN kept[p] ELSE Nothing
           flags == Put(old, f, entry)
<1>1. DOMAIN Nothing = {}
  BY DEF Nothing
<1>2. \A g \in DOMAIN old : p \in DOMAIN kept /\ old = kept[p]
  BY <1>1
<1> HIDE DEF old
<1>3. DOMAIN flags = DOMAIN old \cup {f} /\ \A g \in DOMAIN flags : flags[g] = IF g = f THEN entry ELSE old[g]
  BY DEF Put
<1>4. stored = Put(kept, p, flags)
  BY DEF With, old
<1> HIDE DEF flags
<1>5. DOMAIN stored = DOMAIN kept \cup {p} /\ \A q \in DOMAIN kept \cup {p} : stored[q] = IF q = p THEN flags ELSE kept[q]
  BY <1>4 DEF Put
<1>6. stored[p] = flags
  BY <1>5
<1> QED
  BY <1>2, <1>3, <1>5, <1>6 DEF Added

Left(stored, kept) ==
  \A p \in DOMAIN stored :
    p \in DOMAIN cache /\ kept[p] # {} /\ DOMAIN stored[p] = kept[p] /\ \A f \in kept[p] : stored[p][f] = cache[p][f]
LEMMA KeptEntries ==
  ASSUME NEW kept, NEW stored, stored = Keep(kept) PROVE Left(stored, kept)
  BY DEF Keep, Left

LEMMA OneAtLeast == ASSUME NEW n \in Int PROVE Max({1, n}) >= 1
<1> SUFFICES ASSUME NEW S, S = {1, n} PROVE Max(S) >= 1
  OBVIOUS
<1>1. \E x \in S : \A y \in S : x >= y
  OBVIOUS
<1>2. Max(S) \in S /\ \A y \in S : Max(S) >= y
  BY <1>1 DEF Max
<1> QED
  BY <1>2

(* An entry a call stores was evaluated no later than it read the version. *)
LEMMA EntryAgrees ==
  ASSUME TypeOK, CacheAgrees, NEW c \in Calls, calls[c].pc = "storing", NEW entry,
         entry = Entry(calls[c].store, calls[c].version, calls[c].origin)
  PROVE  /\ entry \in CacheEntries /\ entry.at = now
         /\ entry.origin = definitions.version \/ entry.late
         /\ ~entry.late => entry.version = entry.origin
<1>1. calls[c] \in CallRecords /\ now \in Nat /\ definitions.version \in Nat
  BY DEF TypeOK
<1>2. calls[c].store \in Values /\ calls[c].version \in Nat /\ calls[c].origin \in Nat
  BY <1>1 DEF CallRecords
<1>3. calls[c].origin <= calls[c].version /\ calls[c].version <= definitions.version
  BY DEF CacheAgrees, VersionsCarried
<1>4. entry \in CacheEntries /\ entry.at = now /\ entry.version = calls[c].version /\ entry.origin = calls[c].origin
      /\ entry.late = (calls[c].origin # definitions.version)
  BY <1>1, <1>2 DEF Entry, CacheEntries
<1>5. CASE calls[c].origin = definitions.version
  <2>1. calls[c].version = calls[c].origin
    BY <1>1, <1>2, <1>3, <1>5
  <2> QED
    BY <1>4, <1>5, <2>1
<1>6. CASE calls[c].origin # definitions.version
  BY <1>4, <1>6
<1> QED
  BY <1>5, <1>6

(* At capacity someone makes room; before that nobody has to.              *)
LEMMA RoomMade ==
  ASSUME backend = "memory", FallbackCurrent, IsFiniteSet(DOMAIN cache), NEW p, NEW evicted \in EvictLRU(p)
  PROVE  /\ IsFiniteSet((DOMAIN cache \ evicted) \cup {p})
         /\ Cardinality((DOMAIN cache \ evicted) \cup {p}) <= MaxUsers
<1> DEFINE D == DOMAIN cache
<1>0. IsFiniteSet(D) /\ Cardinality(D) \in Nat /\ Cardinality(D) <= MaxUsers /\ MaxUsers \in Nat \ {0} /\ DOMAIN usedAt = D
  BY FS_CardinalityType, FlagResultsAssumption DEF FallbackCurrent
<1>1. EvictLRU(p) = IF p \in D \/ Cardinality(D) < MaxUsers \/ D = {} THEN {{}}
                    ELSE LeastUsed(Max({1, Cardinality(D) \div 5}))
  BY <1>0 DEF EvictLRU
<1> HIDE DEF D
<1>2. IsFiniteSet(D \ evicted) /\ Cardinality(D \ evicted) \in Nat
  BY <1>0, FS_Subset, FS_CardinalityType
<1>3. IsFiniteSet((D \ evicted) \cup {p})
      /\ Cardinality((D \ evicted) \cup {p}) = IF p \in D \ evicted THEN Cardinality(D \ evicted) ELSE Cardinality(D \ evicted) + 1
  BY <1>2, FS_AddElement
<1>4. CASE p \in D \/ Cardinality(D) < MaxUsers
  <2>1. D \ evicted = D
    BY <1>1, <1>4
  <2> QED
    BY <1>0, <1>3, <1>4, <2>1 DEF D
<1>5. CASE D = {}
  <2>1. D \ evicted = {} /\ Cardinality({}) = 0
    BY <1>5, FS_EmptySet
  <2> QED
    BY <1>0, <1>3, <2>1 DEF D
<1>6. CASE ~(p \in D \/ Cardinality(D) < MaxUsers \/ D = {})
  <2>1. evicted \in SUBSET D /\ Cardinality(evicted) = Max({1, Cardinality(D) \div 5})
    BY <1>0, <1>1, <1>6 DEF LeastUsed
  <2>2. Cardinality(evicted) >= 1
    <3>1. Cardinality(D) \div 5 \in Int
      BY <1>0
    <3> QED
      BY <2>1, <3>1, OneAtLeast
  <2>3. evicted # {}
    BY <2>2, FS_EmptySet
  <2>4. Cardinality(D \ evicted) < Cardinality(D)
    <3>1. D \ evicted \in SUBSET D /\ D \ evicted # D
      BY <2>1, <2>3
    <3>2. Cardinality(D \ evicted) <= Cardinality(D) /\ Cardinality(D \ evicted) # Cardinality(D)
      BY <1>0, <3>1, FS_Subset
    <3> QED
      BY <1>0, <1>2, <3>2
  <2> QED
    BY <1>0, <1>2, <1>3, <2>4 DEF D
<1> QED
  BY <1>4, <1>5, <1>6

(* The entries of the cache, whatever it is, and the calls that carry a    *)
(* version to it.                                                          *)
EntriesTyped == \A p \in DOMAIN cache : \A f \in DOMAIN cache[p] : cache[p][f] \in CacheEntries

LEMMA StoreKeepsCache ==
  ASSUME TypeOK, CacheAgrees, FallbackCurrent, NEW c \in Calls, Store(c),
         VersionsCarried'
  PROVE  EntriesTyped' /\ CacheAgrees' /\ FallbackCurrent'
<1> DEFINE p == calls[c].id
           f == calls[c].flag
           entry == Entry(calls[c].store, calls[c].version, calls[c].origin)
<1>1. /\ calls[c].pc = "storing" /\ UNCHANGED <<backend, definitions, now>>
      /\ SetCachedFlag(p, f, calls[c].store, calls[c].version, calls[c].origin)
  BY DEF Store
<1>2. /\ entry \in CacheEntries /\ entry.at = now /\ (entry.origin = definitions.version \/ entry.late)
      /\ ~entry.late => entry.version = entry.origin
  BY <1>1, EntryAgrees
<1>3. CASE backend = "memory"
  <2>1. PICK evicted \in EvictLRU(p) :
          /\ cache' = With([q \in DOMAIN cache \ evicted |-> cache[q]], p, f, entry)
          /\ usedAt' = Put([q \in DOMAIN usedAt \ evicted |-> usedAt[q]], p, now)
    BY <1>1, <1>3 DEF SetCachedFlag, MemorySet
  <2> DEFINE kept == [q \in DOMAIN cache \ evicted |-> cache[q]]
  <2> HIDE DEF p, f, entry
  <2>2. DOMAIN kept = DOMAIN cache \ evicted /\ \A q \in DOMAIN kept : kept[q] = cache[q]
    OBVIOUS
  <2>3. Added(cache', kept, p, entry)
    BY <2>1, WithEntries
  <2> HIDE DEF kept
  <2>4. DOMAIN cache' = (DOMAIN cache \ evicted) \cup {p} /\ DOMAIN usedAt' = (DOMAIN usedAt \ evicted) \cup {p}
    BY <2>1, <2>2, <2>3 DEF Put, Added
  <2>5. ASSUME NEW q \in DOMAIN cache'
        PROVE  DOMAIN cache'[q] # {} /\ \A g \in DOMAIN cache'[q] :
                 cache'[q][g] = entry \/ (q \in DOMAIN cache /\ g \in DOMAIN cache[q] /\ cache'[q][g] = cache[q][g])
    <3>1. CASE q = p
      BY <2>2, <2>3, <3>1 DEF Added
    <3>2. CASE q # p
      <4>1. q \in DOMAIN cache /\ cache'[q] = cache[q]
        BY <2>2, <2>3, <2>4, <3>2 DEF Added
      <4> QED
        BY <1>3, <4>1 DEF FallbackCurrent
    <3> QED
      BY <3>1, <3>2
  <2>6. IsFiniteSet(DOMAIN cache') /\ Cardinality(DOMAIN cache') <= MaxUsers
    BY <1>3, <2>1, <2>4, RoomMade DEF CacheAgrees
  <2>7. EntriesTyped'
    BY <1>2, <2>5 DEF EntriesTyped, TypeOK
  <2>8. CacheAgrees'
    BY <1>2, <1>3, <2>5, <2>6 DEF CacheAgrees
  <2>9. FallbackCurrent'
    BY <1>1, <1>2, <1>3, <2>4, <2>5, <2>6 DEF FallbackCurrent
  <2> QED
    BY <2>7, <2>8, <2>9
<1>4. CASE backend # "memory"
  <2>1. cache' = cache \/ Added(cache', cache, p, entry)
    BY <1>1, <1>4, WithEntries DEF SetCachedFlag, RedisSet
  <2> HIDE DEF p, f, entry
  <2>2. ASSUME NEW q \in DOMAIN cache', NEW g \in DOMAIN cache'[q]
        PROVE  cache'[q][g] = entry \/ (q \in DOMAIN cache /\ g \in DOMAIN cache[q] /\ cache'[q][g] = cache[q][g])
    <3>1. CASE Added(cache', cache, p, entry) /\ q = p
      BY <2>2, <3>1 DEF Added
    <3>2. CASE Added(cache', cache, p, entry) /\ q # p
      BY <2>2, <3>2 DEF Added
    <3> QED
      BY <2>1, <3>1, <3>2
  <2>3. EntriesTyped'
    BY <1>2, <2>2 DEF EntriesTyped, TypeOK
  <2>4. CacheAgrees'
    BY <1>1, <1>4 DEF CacheAgrees
  <2>5. FallbackCurrent'
    <3>1. 0 < StaleTTL /\ now - entry.at = 0
      BY <1>2, FlagResultsAssumption DEF TypeOK
    <3> QED
      BY <1>1, <1>4, <2>2, <3>1 DEF FallbackCurrent
  <2> QED
    BY <2>3, <2>4, <2>5
<1> QED
  BY <1>3, <1>4

LEMMA UpdateKeepsCache ==
  ASSUME TypeOK, CacheAgrees, FallbackCurrent, NEW local, NEW g, UpdateFlagState(local, g)
  PROVE  EntriesTyped' /\ CacheAgrees' /\ FallbackCurrent'
<1>1. UNCHANGED <<backend, calls, now>> /\ definitions'.version = definitions.version + 1 /\ definitions.version \in Nat
  BY DEF UpdateFlagState, TypeOK
<1>2. VersionsCarried'
  <2>1. \A c \in Calls : calls[c].origin \in Nat /\ calls[c].version \in Nat
    BY DEF TypeOK, CallRecords
  <2> QED
    BY <1>1, <2>1 DEF CacheAgrees, VersionsCarried
<1>3. CASE backend = "memory"
  <2> DEFINE kept == [p \in DOMAIN cache |-> {f \in DOMAIN cache[p] : cache[p][f].version # definitions.version}]
  <2>1. cache' = Keep(kept) /\ usedAt' = [p \in DOMAIN usedAt \cap DOMAIN cache' |-> usedAt[p]]
    BY <1>3 DEF UpdateFlagState, InvalidateVersion, Drop
  <2>2. ASSUME NEW p \in DOMAIN cache'
        PROVE  /\ p \in DOMAIN cache /\ DOMAIN cache'[p] # {}
               /\ \A f \in DOMAIN cache'[p] : /\ f \in DOMAIN cache[p] /\ cache'[p][f] = cache[p][f]
                                              /\ cache[p][f].version # definitions.version
    <3>1. Left(cache', kept)
      BY <2>1, KeptEntries
    <3> HIDE DEF kept
    <3>2. p \in DOMAIN cache /\ kept[p] # {} /\ DOMAIN cache'[p] = kept[p] /\ \A f \in kept[p] : cache'[p][f] = cache[p][f]
      BY <3>1 DEF Left
    <3>3. kept[p] = {f \in DOMAIN cache[p] : cache[p][f].version # definitions.version}
      BY <3>2 DEF kept
    <3> QED
      BY <3>2, <3>3
  <2> HIDE DEF kept
  <2>3. DOMAIN cache' = DOMAIN usedAt'
    BY <1>3, <2>1, <2>2 DEF FallbackCurrent
  <2>4. IsFiniteSet(DOMAIN cache') /\ Cardinality(DOMAIN cache') <= MaxUsers
    <3>1. IsFiniteSet(DOMAIN cache) /\ Cardinality(DOMAIN cache) \in Nat /\ Cardinality(DOMAIN cache) <= MaxUsers
      BY <1>3, FS_CardinalityType DEF CacheAgrees, FallbackCurrent
    <3>2. IsFiniteSet(DOMAIN cache') /\ Cardinality(DOMAIN cache') <= Cardinality(DOMAIN cache)
      BY <2>2, <3>1, FS_Subset
    <3>3. Cardinality(DOMAIN cache') \in Nat /\ MaxUsers \in Nat
      BY <3>2, FS_CardinalityType, FlagResultsAssumption
    <3> QED
      BY <3>1, <3>2, <3>3
  <2>5. ASSUME NEW p \in DOMAIN cache', NEW f \in DOMAIN cache'[p]
        PROVE  cache'[p][f].late
    BY <1>3, <2>2 DEF CacheAgrees, FallbackCurrent
  <2>6. EntriesTyped' /\ CacheAgrees' /\ FallbackCurrent'
    BY <1>1, <1>2, <1>3, <2>2, <2>3, <2>4, <2>5 DEF EntriesTyped, TypeOK, CacheAgrees, FallbackCurrent
  <2> QED
    BY <2>6
<1>4. CASE backend # "memory"
  <2>1. PICK done \in SUBSET DOMAIN cache :
          Left(cache', [p \in DOMAIN cache |-> {f \in DOMAIN cache[p] : p \in done => cache[p][f].version # definitions.version}])
    BY <1>4, KeptEntries DEF UpdateFlagState, RedisInvalidate
  <2>2. ASSUME NEW p \in DOMAIN cache', NEW f \in DOMAIN cache'[p]
        PROVE  p \in DOMAIN cache /\ f \in DOMAIN cache[p] /\ cache'[p][f] = cache[p][f]
    BY <2>1, <2>2 DEF Left
  <2> QED
    BY <1>1, <1>2, <1>4, <2>2 DEF EntriesTyped, TypeOK, CacheAgrees, FallbackCurrent
<1> QED
  BY <1>3, <1>4

LEMMA TickKeepsCache ==
  ASSUME TypeOK, CacheAgrees, FallbackCurrent, Tick
  PROVE  EntriesTyped' /\ CacheAgrees' /\ FallbackCurrent'
<1>1. UNCHANGED <<backend, definitions, calls, usedAt>> /\ now' = now + 1
  BY DEF Tick
<1>4. VersionsCarried'
  BY <1>1 DEF CacheAgrees, VersionsCarried
<1>2. CASE backend = "memory"
  <2>1. UNCHANGED cache
    BY <1>2 DEF Tick
  <2> QED
    BY <1>1, <1>2, <1>4, <2>1 DEF EntriesTyped, TypeOK, CacheAgrees, FallbackCurrent
<1>3. CASE backend # "memory"
  <2>1. Left(cache', [p \in DOMAIN cache |-> {f \in DOMAIN cache[p] : now + 1 - cache[p][f].at < StaleTTL}])
    BY <1>3, KeptEntries DEF Tick, RedisExpire
  <2>2. ASSUME NEW p \in DOMAIN cache', NEW f \in DOMAIN cache'[p]
        PROVE  p \in DOMAIN cache /\ f \in DOMAIN cache[p] /\ cache'[p][f] = cache[p][f] /\ now + 1 - cache[p][f].at < StaleTTL
    BY <2>1, <2>2 DEF Left
  <2>3. EntriesTyped' /\ CacheAgrees'
    BY <1>1, <1>3, <1>4, <2>2 DEF EntriesTyped, TypeOK, CacheAgrees
  <2>4. FallbackCurrent'
    <3>1. \A p \in DOMAIN cache' : \A f \in DOMAIN cache'[p] : now' - cache'[p][f].at < StaleTTL
      <4> SUFFICES ASSUME NEW p \in DOMAIN cache', NEW f \in DOMAIN cache'[p] PROVE now' - cache'[p][f].at < StaleTTL
        OBVIOUS
      <4>1. cache'[p][f] = cache[p][f] /\ now + 1 - cache[p][f].at < StaleTTL
        BY <2>2
      <4>2. now \in Nat /\ now' = now + 1
        BY <1>1 DEF TypeOK
      <4>3. PICK stored \in Nat : stored = cache[p][f].at /\ stored = cache'[p][f].at
        BY <2>2, <4>1 DEF TypeOK, CacheEntries
      <4> QED
        BY <4>1, <4>2, <4>3
    <3> QED
      BY <1>1, <1>3, <3>1 DEF FallbackCurrent
  <2> QED
    BY <2>3, <2>4
<1> QED
  BY <1>2, <1>3

(* Any other step leaves the cache and the definitions as they are.        *)
LEMMA OthersKeepCache ==
  ASSUME TypeOK, CacheAgrees, FallbackCurrent, UNCHANGED <<backend, definitions, now, cache, usedAt>>, VersionsCarried'
  PROVE  EntriesTyped' /\ CacheAgrees' /\ FallbackCurrent'
  BY DEF EntriesTyped, TypeOK, CacheAgrees, FallbackCurrent
------------------------------------------------------------------------------
(* The snapshots: how one starts, is read, is narrowed and is attached.    *)
LEMMA EvaluateViews ==
  ASSUME TypeOK, ViewsAgree, NEW p \in Persons, EvaluateFlags(p)
  PROVE  views' \in Seq(ViewRecords) /\ ViewsAgree' /\ gate' \in BOOLEAN
<1> DEFINE local == {f \in Flags : LocallyEvaluateFlag(f) # "unknown"}
<1>1. /\ views = <<>> /\ UNCHANGED attached
      /\ \E known \in SUBSET (Flags \ local) :
         \E remote \in [known -> {"on", "off"}], g \in (IF local = Flags THEN {gate} ELSE BOOLEAN) :
           /\ gate' = g
           /\ views' = <<[id |-> p, gate |-> g, accessed |-> {}, seen |-> Nothing, expect |-> {},
                          flags |-> [f \in local \cup known |-> IF f \in local THEN LocallyEvaluateFlag(f) ELSE remote[f]]]>>
  BY DEF EvaluateFlags
<1>b. PICK known \in SUBSET (Flags \ local) :
         \E remote \in [known -> {"on", "off"}], g \in (IF local = Flags THEN {gate} ELSE BOOLEAN) :
           /\ gate' = g
           /\ views' = <<[id |-> p, gate |-> g, accessed |-> {}, seen |-> Nothing, expect |-> {},
                          flags |-> [f \in local \cup known |-> IF f \in local THEN LocallyEvaluateFlag(f) ELSE remote[f]]]>>
  BY <1>1
<1>2. PICK remote \in [known -> {"on", "off"}], g \in (IF local = Flags THEN {gate} ELSE BOOLEAN) :
        /\ gate' = g
        /\ views' = <<[id |-> p, gate |-> g, accessed |-> {}, seen |-> Nothing, expect |-> {},
                       flags |-> [f \in local \cup known |-> IF f \in local THEN LocallyEvaluateFlag(f) ELSE remote[f]]]>>
  BY <1>b
<1> DEFINE flags == [f \in local \cup known |-> IF f \in local THEN LocallyEvaluateFlag(f) ELSE remote[f]]
           view == [id |-> p, gate |-> g, accessed |-> {}, seen |-> Nothing, expect |-> {}, flags |-> flags]
<1>3. g \in BOOLEAN
  BY <1>2 DEF TypeOK
<1>4. flags \in Maps({"on", "off"})
  <2>1. \A f \in local : LocallyEvaluateFlag(f) = "on"
    BY DEF TypeOK, LocallyEvaluateFlag
  <2>2. flags \in [local \cup known -> {"on", "off"}] /\ local \cup known \in SUBSET Flags
    BY <1>2, <2>1
  <2> QED
    BY <2>2 DEF Maps
<1>5. views' = <<view>>
  BY <1>2
<1> HIDE DEF flags
<1>6. Nothing \in Maps({"on", "off", NoValue}) /\ DOMAIN Nothing = {}
  <2>1. Nothing \in [{} -> {"on", "off", NoValue}] /\ {} \in SUBSET Flags
    BY DEF Nothing
  <2> QED
    BY <2>1 DEF Maps, Nothing
<1>7. view \in ViewRecords
  BY <1>3, <1>4, <1>6 DEF ViewRecords
<1>8. ViewAgrees(view)
  BY <1>6 DEF ViewAgrees
<1> HIDE DEF view
<1>9. views' \in Seq(ViewRecords) /\ DOMAIN views' = {1} /\ views'[1] = view
  BY <1>5, <1>7
<1>10. \A a \in attached : FALSE
  BY <1>1 DEF ViewsAgree
<1> QED
  BY <1>1, <1>2, <1>3, <1>8, <1>9, <1>10 DEF ViewsAgree

LEMMA AccessViews ==
  ASSUME TypeOK, ViewsAgree, NEW c \in Calls, NEW v, NEW f \in Flags, Access(c, v, f)
  PROVE  views' \in Seq(ViewRecords) /\ ViewsAgree'
<1> DEFINE seen == Put(views[v].seen, f, ValueIn(views[v], f))
           view == [views[v] EXCEPT !.accessed = @ \cup {f}, !.seen = seen]
<1>1. v \in DOMAIN views /\ UNCHANGED attached /\ views \in Seq(ViewRecords) /\ views[v] \in ViewRecords
  BY DEF Access, TypeOK
<1>2. views' = [views EXCEPT ![v] = view]
  BY <1>1 DEF Access
<1>3. ValueIn(views[v], f) \in {"on", "off", NoValue}
  <2>1. PICK F \in SUBSET Flags : views[v].flags \in [F -> {"on", "off"}]
    BY <1>1 DEF ViewRecords, Maps
  <2> QED
    BY <2>1 DEF ValueIn
<1>4. /\ seen \in Maps({"on", "off", NoValue}) /\ DOMAIN seen = DOMAIN views[v].seen \cup {f}
      /\ \A g \in DOMAIN seen : seen[g] = IF g = f THEN ValueIn(views[v], f) ELSE views[v].seen[g]
  <2>1. views[v].seen \in Maps({"on", "off", NoValue})
    BY <1>1 DEF ViewRecords
  <2> DEFINE S == {"on", "off", NoValue}
             before == views[v].seen
             told == ValueIn(views[v], f)
  <2>2. before \in Maps(S) /\ told \in S
    BY <1>3, <2>1
  <2> HIDE DEF S, before, told
  <2>3. /\ Put(before, f, told) \in Maps(S) /\ DOMAIN Put(before, f, told) = DOMAIN before \cup {f}
        /\ \A g \in DOMAIN before \cup {f} : Put(before, f, told)[g] = IF g = f THEN told ELSE before[g]
    BY <2>2, PutMap
  <2> QED
    BY <2>3 DEF S, before, told
<1> HIDE DEF seen
<1>5. view \in ViewRecords /\ view.flags = views[v].flags /\ view.accessed = views[v].accessed \cup {f}
      /\ view.seen = seen /\ view.expect = views[v].expect
  BY <1>1, <1>4 DEF ViewRecords
<1> HIDE DEF view
<1>6. \A g : ValueIn(view, g) = ValueIn(views[v], g)
  BY <1>5 DEF ValueIn
<1>7. ViewAgrees(view)
  <2>1. ViewAgrees(views[v])
    BY <1>1 DEF ViewsAgree
  <2> QED
    BY <1>4, <1>5, <1>6, <2>1 DEF ViewAgrees
<1>8. /\ views' \in Seq(ViewRecords) /\ DOMAIN views' = DOMAIN views
      /\ \A w \in DOMAIN views : views'[w] = IF w = v THEN view ELSE views[w]
  BY <1>1, <1>2, <1>5
<1>9. \A w \in DOMAIN views : views'[w].flags = views[w].flags
  BY <1>5, <1>8
<1> QED
  BY <1>1, <1>7, <1>8, <1>9 DEF ViewsAgree

LEMMA NarrowedAgrees ==
  ASSUME NEW view \in ViewRecords, ViewAgrees(view), NEW keys \in SUBSET Flags, NEW expect,
         expect = {} \/ (keys = view.accessed /\ expect = {view.seen})
  PROVE  Narrowed(view, keys, expect) \in ViewRecords /\ ViewAgrees(Narrowed(view, keys, expect))
<1> DEFINE flags == [f \in keys \cap DOMAIN view.flags |-> view.flags[f]]
           seen == [f \in keys \cap DOMAIN view.seen |-> view.seen[f]]
           new == [view EXCEPT !.flags = flags, !.seen = seen, !.expect = expect]
<1>1. PICK F \in SUBSET Flags : view.flags \in [F -> {"on", "off"}]
  BY DEF ViewRecords, Maps
<1>2. PICK G \in SUBSET Flags : view.seen \in [G -> {"on", "off", NoValue}]
  BY DEF ViewRecords, Maps
<1>3. flags \in [keys \cap F -> {"on", "off"}] /\ seen \in [keys \cap G -> {"on", "off", NoValue}]
      /\ keys \cap F \in SUBSET Flags /\ keys \cap G \in SUBSET Flags
  BY <1>1, <1>2
<1>4. flags \in Maps({"on", "off"}) /\ seen \in Maps({"on", "off", NoValue}) /\ expect \in SUBSET Maps({"on", "off", NoValue})
  <2>1. view.seen \in Maps({"on", "off", NoValue})
    BY DEF ViewRecords
  <2> QED
    BY <1>3, <2>1 DEF Maps
<1>5. Narrowed(view, keys, expect) = new
  BY DEF Narrowed
<1>6. /\ DOMAIN flags = keys \cap DOMAIN view.flags /\ \A f \in DOMAIN flags : flags[f] = view.flags[f]
      /\ DOMAIN seen = keys \cap DOMAIN view.seen /\ \A f \in DOMAIN seen : seen[f] = view.seen[f]
  OBVIOUS
<1>a. flags = [f \in DOMAIN flags |-> view.flags[f]]
  OBVIOUS
<1> HIDE DEF flags, seen
<1>7. new \in ViewRecords /\ new.flags = flags /\ new.seen = seen /\ new.expect = expect /\ new.accessed = view.accessed
  BY <1>4 DEF ViewRecords
<1> HIDE DEF new
<1>8. \A f \in DOMAIN new.seen : new.seen[f] = ValueIn(new, f)
  BY <1>6, <1>7 DEF ViewAgrees, ValueIn
<1>9. ASSUME keys = view.accessed
      PROVE  flags = [f \in {g \in DOMAIN view.seen : view.seen[g] # NoValue} |-> view.seen[f]]
  <2>1. \A f \in DOMAIN view.flags : view.flags[f] # NoValue
    BY <1>1 DEF NoValue
  <2>2. {g \in DOMAIN view.seen : view.seen[g] # NoValue} = DOMAIN flags
    BY <1>6, <1>9, <2>1 DEF ViewAgrees, ValueIn
  <2>3. \A f \in DOMAIN flags : view.seen[f] = view.flags[f]
    BY <1>6, <1>9 DEF ViewAgrees, ValueIn
  <2> QED
    BY <1>a, <2>2, <2>3
<1>10. ViewAgrees(new)
  BY <1>6, <1>7, <1>8, <1>9 DEF ViewAgrees
<1> QED
  BY <1>5, <1>7, <1>10

LEMMA NarrowViews ==
  ASSUME TypeOK, ViewsAgree, NEW v \in DOMAIN views, Narrow(v)
  PROVE  views' \in Seq(ViewRecords) /\ ViewsAgree'
<1>1. views \in Seq(ViewRecords) /\ views[v] \in ViewRecords /\ ViewAgrees(views[v]) /\ UNCHANGED attached
  BY DEF TypeOK, ViewsAgree, Narrow
<1>2. views[v].accessed \in SUBSET Flags
  BY <1>1 DEF ViewRecords
<1>3. \E view \in ViewRecords : ViewAgrees(view) /\ views' = Append(views, view)
  <2>1. CASE views' = Append(views, Narrowed(views[v], views[v].accessed, {views[v].seen}))
    BY <1>1, <1>2, <2>1, NarrowedAgrees
  <2>2. CASE \E keys \in SUBSET Flags : views' = Append(views, Narrowed(views[v], keys, {}))
    BY <1>1, <2>2, NarrowedAgrees
  <2> QED
    BY <2>1, <2>2 DEF Narrow
<1>4. PICK view \in ViewRecords : ViewAgrees(view) /\ views' = Append(views, view)
  BY <1>3
<1>5. /\ views' \in Seq(ViewRecords) /\ DOMAIN views' = DOMAIN views \cup {Len(views) + 1}
      /\ views'[Len(views) + 1] = view /\ \A w \in DOMAIN views : views'[w] = views[w]
  BY <1>1, <1>4, Appended
<1> QED
  BY <1>1, <1>4, <1>5 DEF ViewsAgree

LEMMA CaptureViews ==
  ASSUME TypeOK, ViewsAgree, NEW v \in DOMAIN views, CaptureWith(v)
  PROVE  UNCHANGED views /\ ViewsAgree'
  BY DEF CaptureWith, ViewsAgree
------------------------------------------------------------------------------
LEMMA CallsStill ==
  ASSUME SetsHavePersons, AnswersReported, UNCHANGED <<calls, reported, events>>
  PROVE  SetsHavePersons' /\ AnswersReported'
  BY DEF SetsHavePersons, AnswersReported, Holds

LEMMA ViewsStill == ASSUME ViewsAgree, UNCHANGED <<views, attached>> PROVE ViewsAgree'
  BY DEF ViewsAgree

\* The part of the types that a step of a call may change.
CallsTyped ==
  calls \in [Calls -> CallRecords] /\ \A d \in Calls : calls[d].pc = "ask_all" => calls[d].send = FALSE

LEMMA QuietStep ==
  ASSUME IInv, NEW c \in Calls, \E r \in CallRecords : Set(c, r) /\ Quiet(c, r), UNCHANGED <<definitions, reported, events>>
  PROVE  SetsHavePersons' /\ AnswersReported' /\ VersionsCarried' /\ CallsTyped'
<1>1. PICK r \in CallRecords : Set(c, r) /\ Quiet(c, r)
  OBVIOUS
<1> QED
  BY <1>1, QuietKeepsSets, QuietCarries, QuietTypes DEF IInv, CallsTyped

LEMMA ReportStep ==
  ASSUME IInv, NEW c \in Calls, LookUpReported(c) \/ CreateReported(c) \/ EmitEvent(c)
  PROVE  SetsHavePersons' /\ AnswersReported' /\ VersionsCarried' /\ CallsTyped' /\ reported' \in Seq(ReportRecords)
<1>1. /\ SetsHavePersons' /\ AnswersReported' /\ calls' \in [Calls -> CallRecords] /\ reported' \in Seq(ReportRecords)
      /\ \A d \in Calls : calls'[d].pc \in {"ask", "ask_all", "store", "storing"} => calls'[d] = calls[d]
  <2>1. CASE LookUpReported(c)
    <3>1. reported' = reported
      BY <2>1 DEF LookUpReported
    <3> QED
      BY <2>1, <3>1, LookUpSets DEF IInv, TypeOK
  <2>2. CASE CreateReported(c)
    BY <2>2, CreateSets DEF IInv
  <2>3. CASE EmitEvent(c)
    BY <2>3, EmitSets DEF IInv
  <2> QED
    BY <2>1, <2>2, <2>3
<1>2. UNCHANGED definitions
  BY DEF LookUpReported, CreateReported, EmitEvent
<1>3. VersionsCarried'
  BY <1>1, <1>2 DEF IInv, CacheAgrees, VersionsCarried
<1>4. CallsTyped'
  BY <1>1 DEF IInv, TypeOK, CallsTyped
<1> QED
  BY <1>1, <1>3, <1>4

LEMMA InitIInv == Init => IInv
<1> SUFFICES ASSUME Init PROVE IInv
  OBVIOUS
<1>1. DOMAIN Nothing = {} /\ IsFiniteSet({}) /\ Cardinality({}) = 0 /\ MaxUsers \in Nat /\ MaxIds \in Nat
  BY FS_EmptySet, FlagResultsAssumption DEF Nothing
<1>2. \A c \in Calls : calls[c] = Idle
  BY DEF Init
<1>3. TypeOK
  <2>1. definitions \in [version : Nat, local : [Flags -> {"on", "unknown"}]]
    BY DEF Init
  <2>2. calls \in [Calls -> CallRecords] /\ \A c \in Calls : calls[c].pc = "ask_all" => calls[c].send = FALSE
    BY IdleCall DEF Init
  <2>3. backend \in Backends /\ gate \in BOOLEAN /\ now \in Nat /\ reported = <<>> /\ views = <<>> /\ cache = Nothing
    BY DEF Init
  <2> QED
    BY <1>1, <2>1, <2>2, <2>3 DEF TypeOK
<1>4. SetsHavePersons
  <2>1. ~\E i \in DOMAIN reported : TRUE
    BY DEF Init
  <2>2. \A s, p : ~Holds(s, p)
    BY <1>2, <2>1, IdleCall DEF Holds
  <2> QED
    BY <2>1, <2>2 DEF SetsHavePersons
<1>5. CacheAgrees
  BY <1>1, <1>2, IdleCall DEF Init, CacheAgrees, VersionsCarried
<1>6. ViewsAgree
  BY DEF Init, ViewsAgree
<1>7. AnswersReported
  BY <1>1, <1>2, IdleCall DEF Init, AnswersReported
<1>8. FallbackCurrent
  BY <1>1 DEF Init, FallbackCurrent
<1> QED
  BY <1>3, <1>4, <1>5, <1>6, <1>7, <1>8 DEF IInv

(* Which of the variables a step of each kind leaves alone.                *)
LEMMA NextIInv == IInv /\ [Next]_vars => IInv'
<1> SUFFICES ASSUME IInv, [Next]_vars PROVE IInv'
  OBVIOUS
<1>a. TypeOK /\ SetsHavePersons /\ CacheAgrees /\ ViewsAgree /\ AnswersReported /\ FallbackCurrent
  BY DEF IInv
\* Of a step it is enough to know what it does to each part.
<1>b. ASSUME backend' = backend,
             definitions' \in [version : Nat, local : [Flags -> {"on", "unknown"}]], gate' \in BOOLEAN, now' \in Nat,
             reported' \in Seq(ReportRecords), CallsTyped', views' \in Seq(ViewRecords), EntriesTyped',
             SetsHavePersons', AnswersReported', CacheAgrees', FallbackCurrent', ViewsAgree'
      PROVE  IInv'
  BY <1>a, <1>b DEF IInv, TypeOK, CallsTyped, EntriesTyped
<1>c. /\ definitions \in [version : Nat, local : [Flags -> {"on", "unknown"}]] /\ gate \in BOOLEAN /\ now \in Nat
      /\ reported \in Seq(ReportRecords) /\ CallsTyped /\ views \in Seq(ViewRecords) /\ VersionsCarried
  BY <1>a DEF TypeOK, CallsTyped, CacheAgrees
<1>1. ASSUME NEW local \in [Flags -> {"on", "unknown"}], NEW g \in BOOLEAN, UpdateFlagState(local, g) PROVE IInv'
  <2>1. /\ UNCHANGED <<backend, now, reported, calls, views, events, attached>> /\ gate' = g
        /\ definitions' = [version |-> definitions.version + 1, local |-> local]
    BY <1>1 DEF UpdateFlagState
  <2>2. definitions' \in [version : Nat, local : [Flags -> {"on", "unknown"}]]
    BY <1>c, <2>1
  <2>3. CallsTyped'
    BY <1>c, <2>1 DEF CallsTyped
  <2> QED
    BY <1>a, <1>b, <1>c, <1>1, <2>1, <2>2, <2>3, UpdateKeepsCache, CallsStill, ViewsStill
<1>2. CASE Tick
  <2>1. UNCHANGED <<backend, definitions, gate, reported, calls, views, events, attached>> /\ now' = now + 1
    BY <1>2 DEF Tick
  <2>2. now' \in Nat /\ CallsTyped'
    BY <1>c, <2>1 DEF CallsTyped
  <2> QED
    BY <1>a, <1>b, <1>c, <1>2, <2>1, <2>2, TickKeepsCache, CallsStill, ViewsStill
\* A call that asks, or carries what it was told.
<1>3. ASSUME NEW c \in Calls, \E r \in CallRecords : Set(c, r) /\ Quiet(c, r), gate' \in BOOLEAN,
             UNCHANGED <<backend, definitions, now, cache, usedAt, reported, views, events, attached>>
      PROVE  IInv'
  <2>1. SetsHavePersons' /\ AnswersReported' /\ VersionsCarried' /\ CallsTyped'
    BY <1>3, QuietStep
  <2> QED
    BY <1>a, <1>b, <1>c, <1>3, <2>1, OthersKeepCache, ViewsStill
<1>4. ASSUME NEW c \in Calls, NEW p \in Persons, NEW f \in Flags,
             FeatureEnabled(c, p, f) \/ GetFeatureFlagResult(c, p, f) \/ GetFeatureFlag(c, p, f) \/ GetFeatureFlagPayload(c, p, f)
      PROVE  IInv'
  <2>1. PICK onlyLocal \in BOOLEAN, send \in BOOLEAN, override \in {NoValue, "asked"} :
          Begin(c, p, f, onlyLocal, override, send)
    BY <1>4 DEF FeatureEnabled, GetFeatureFlagResult, GetFeatureFlag, GetFeatureFlagPayload
  <2>2. UNCHANGED <<backend, definitions, gate, now, cache, usedAt, reported, views, events, attached>>
    BY <2>1 DEF Begin
  <2>3. \E r \in CallRecords : Set(c, r) /\ Quiet(c, r)
    BY <1>a, <2>1, BeginQuiet
  <2> QED
    BY <1>c, <1>3, <2>2, <2>3
<1>5. ASSUME NEW c \in Calls, GetFlagsDecision(c) PROVE IInv'
  <2>1. UNCHANGED <<backend, definitions, now, cache, usedAt, reported, views, events, attached>>
    BY <1>5, Zenon DEF GetFlagsDecision
  <2>2. gate' = gate \/ \E g \in BOOLEAN : gate' = g
    BY <1>5, Zenon DEF GetFlagsDecision
  <2>3. gate' \in BOOLEAN
    BY <1>c, <2>2
  <2> QED
    BY <1>a, <1>3, <1>5, <2>1, <2>3, GetFlagsDecisionQuiet
<1>6. ASSUME NEW c \in Calls, GetAllFlags(c) \/ AskAll(c) \/ ReadVersion(c) PROVE IInv'
  <2>1. CASE GetAllFlags(c)
    <3>1. UNCHANGED <<backend, definitions, gate, now, cache, usedAt, reported, views, events, attached>>
      BY <2>1, Zenon DEF GetAllFlags, GetAllFlagsAndPayloads
    <3> QED
      BY <1>a, <1>c, <1>3, <2>1, <3>1, OtherCallsQuiet
  <2>2. CASE AskAll(c)
    <3>1. UNCHANGED <<backend, definitions, now, cache, usedAt, reported, views, events, attached>>
          /\ gate' \in BOOLEAN \cup {gate}
      BY <2>2, Zenon DEF AskAll
    <3>2. gate' \in BOOLEAN
      BY <1>c, <3>1
    <3> QED
      BY <1>a, <1>3, <2>2, <3>1, <3>2, OtherCallsQuiet
  <2>3. CASE ReadVersion(c)
    <3>1. UNCHANGED <<backend, definitions, gate, now, cache, usedAt, reported, views, events, attached>>
      BY <2>3, Zenon DEF ReadVersion
    <3> QED
      BY <1>a, <1>c, <1>3, <2>3, <3>1, OtherCallsQuiet
  <2> QED
    BY <1>6, <2>1, <2>2, <2>3
<1>7. ASSUME NEW c \in Calls, Store(c) PROVE IInv'
  <2>1. UNCHANGED <<backend, definitions, gate, now, reported, views, events, attached>>
    BY <1>7 DEF Store
  <2>2. SetsHavePersons' /\ AnswersReported' /\ VersionsCarried' /\ CallsTyped'
    BY <1>a, <1>7, <2>1, OtherCallsQuiet, QuietStep
  <2>3. EntriesTyped' /\ CacheAgrees' /\ FallbackCurrent'
    BY <1>a, <1>7, <2>2, StoreKeepsCache
  <2> QED
    BY <1>a, <1>b, <1>c, <2>1, <2>2, <2>3, ViewsStill
<1>8. ASSUME NEW p \in Persons, EvaluateFlags(p) PROVE IInv'
  <2>1. UNCHANGED <<backend, definitions, now, cache, usedAt, reported, calls, events, attached>>
    BY <1>8 DEF EvaluateFlags
  <2>2. CallsTyped' /\ VersionsCarried'
    BY <1>c, <2>1 DEF CallsTyped, VersionsCarried
  <2> QED
    BY <1>a, <1>b, <1>c, <1>8, <2>1, <2>2, EvaluateViews, OthersKeepCache, CallsStill
<1>9. ASSUME NEW c \in Calls, NEW f \in Flags, NEW v \in DOMAIN views, Access(c, v, f) PROVE IInv'
  <2>1. UNCHANGED <<backend, definitions, gate, now, cache, usedAt, reported, events, attached>>
    BY <1>9 DEF Access
  <2>2. SetsHavePersons' /\ AnswersReported' /\ VersionsCarried' /\ CallsTyped'
    BY <1>a, <1>9, <2>1, AccessQuiet, QuietStep
  <2> QED
    BY <1>a, <1>b, <1>c, <1>9, <2>1, <2>2, AccessViews, OthersKeepCache
<1>10. ASSUME NEW v \in DOMAIN views, Narrow(v) \/ CaptureWith(v) PROVE IInv'
  <2>1. UNCHANGED <<backend, definitions, gate, now, cache, usedAt, reported, calls, events>>
    BY <1>10 DEF Narrow, CaptureWith
  <2>2. CallsTyped' /\ VersionsCarried'
    BY <1>c, <2>1 DEF CallsTyped, VersionsCarried
  <2>3. views' \in Seq(ViewRecords) /\ ViewsAgree'
    BY <1>a, <1>c, <1>10, NarrowViews, CaptureViews
  <2> QED
    BY <1>a, <1>b, <1>c, <2>1, <2>2, <2>3, OthersKeepCache, CallsStill
<1>11. ASSUME NEW c \in Calls, LookUpReported(c) \/ CreateReported(c) \/ EmitEvent(c) PROVE IInv'
  <2>1. UNCHANGED <<backend, definitions, gate, now, cache, usedAt, views, attached>>
    BY <1>11 DEF LookUpReported, CreateReported, EmitEvent
  <2>2. SetsHavePersons' /\ AnswersReported' /\ VersionsCarried' /\ CallsTyped' /\ reported' \in Seq(ReportRecords)
    BY <1>11, ReportStep
  <2> QED
    BY <1>a, <1>b, <1>c, <2>1, <2>2, OthersKeepCache, ViewsStill
<1>12. CASE UNCHANGED vars
  <2>1. UNCHANGED <<backend, definitions, gate, now, cache, usedAt, reported, calls, views, events, attached>>
    BY <1>12 DEF vars
  <2>2. CallsTyped' /\ VersionsCarried'
    BY <1>c, <2>1 DEF CallsTyped, VersionsCarried
  <2> QED
    BY <1>a, <1>b, <1>c, <2>1, <2>2, OthersKeepCache, CallsStill, ViewsStill
<1>13. Poller => IInv'
  BY <1>1 DEF Poller
<1>14. CallNext => IInv'
  BY <1>2, <1>4, <1>5, <1>6, <1>7 DEF CallNext
<1>15. SnapshotNext => IInv'
  BY <1>8, <1>9, <1>10 DEF SnapshotNext
<1>16. Reports => IInv'
  BY <1>11 DEF Reports
<1> QED
  BY <1>12, <1>13, <1>14, <1>15, <1>16 DEF Next

LEMMA Invariant == Spec => []IInv
  BY InitIInv, NextIInv, PTL DEF Spec

(* The threads, the dictionary, the snapshots and the cache's entries hold *)
(* what the code puts in them (Client, SizeLimitedDict,                    *)
(* FeatureFlagEvaluations, FlagCache).                                     *)
THEOREM TypeCorrect == Spec => []TypeOK
<1>1. IInv => TypeOK
  BY DEF IInv
<1> QED
  BY <1>1, Invariant, PTL

(* A call that is over has an event for its answer, and the dictionary     *)
(* keeps its size and one entry per person, for any number of threads      *)
(* (_capture_feature_flag_called_if_needed, SizeLimitedDict.__setitem__).  *)
THEOREM AnswersAreReported == Spec => []AnswersReported
<1>1. IInv => AnswersReported
  BY DEF IInv
<1> QED
  BY <1>1, Invariant, PTL

(* The cache in memory keeps its bound and its two maps together and       *)
(* serves a value of replaced definitions only if it came late; in Redis   *)
(* no entry outlives its time (set_cached_flag, _evict_lru,                *)
(* invalidate_version, RedisFlagCache).                                    *)
THEOREM FallbackIsCurrent == Spec => []FallbackCurrent
<1>1. IInv => FallbackCurrent
  BY DEF IInv
<1> QED
  BY <1>1, Invariant, PTL

(* However snapshots are read and narrowed, one of the accessed flags      *)
(* attaches to an event exactly what its caller was told                   *)
(* (only_accessed, _get_event_properties).                                 *)
THEOREM ViewsAttachWhatWasRead == Spec => []AttachedAsBranched
<1>1. IInv => AttachedAsBranched
  BY DEF IInv, ViewsAgree, ViewAgrees, AttachedAsBranched
<1> QED
  BY <1>1, Invariant, PTL
================================================================================
