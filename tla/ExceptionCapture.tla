--------------------------- MODULE ExceptionCapture ---------------------------
(***************************************************************************)
(* How an exception comes to be reported: the contexts it propagates       *)
(* through, then the hooks that clients with autocapture put in front of   *)
(* the interpreter's, each with its rate limiter.  Clients are opened and  *)
(* closed by several threads while others raise.                           *)
(***************************************************************************)
EXTENDS Integers, Sequences, FiniteSets, FiniteSetsExt

CONSTANTS Clients, Threads,
          Main,          \* the thread whose exceptions go to sys.excepthook
          Size, Rate,    \* bucket_size, refill_rate
          Interval,      \* refill_interval_seconds
          MaxTime, MaxRaises      \* bounds of the model

VARIABLES now,
          clients,       \* pc, the hooks found (prev) and those to restore
          hooks,         \* the interpreter's two hooks
          buckets,       \* of each client: tokens and last_access, 0 before the first
          allowed,       \* of each client: captures let through since the bucket is new
          threads,       \* the exception a thread is handling
          marked,        \* exceptions with __posthog_exception_captured
          displaced      \* clients a hook was installed over without being chained

vars == <<now, clients, hooks, buckets, allowed, threads, marked, displaced>>

Kinds == {"sys", "threading"}
Interpreter == "interpreter"
Kind(t) == IF t = Main THEN "sys" ELSE "threading"
Closed(c) == clients[c].pc \in {"closed", "resolved", "restored sys", "done"}
Raised == FoldSet(LAMBDA t, n : n + threads[t].n, 0, Threads)

Idle == [pc |-> "idle", n |-> 0, contexts |-> <<>>, hook |-> Interpreter, by |-> Interpreter, sent |-> 0, passed |-> <<>>]
Init ==
  /\ now = 0 /\ marked = {} /\ displaced = {}
  /\ clients = [c \in Clients |-> [pc |-> "new", prev |-> [k \in Kinds |-> Interpreter], back |-> [k \in Kinds |-> Interpreter]]]
  /\ hooks = [k \in Kinds |-> Interpreter]
  /\ buckets = [c \in Clients |-> [tokens |-> Size, last |-> 0, since |-> -1]]
  /\ allowed = [c \in Clients |-> 0]
  /\ threads = [t \in Threads |-> Idle]

Tick == /\ now < MaxTime /\ now' = now + 1
        /\ UNCHANGED <<clients, hooks, buckets, allowed, threads, marked, displaced>>
------------------------------------------------------------------------------
(* The hooks an exception passes from h on; closed owners are skipped when *)
(* a handler looks for the next one.                                       *)
Hooks == Clients \cup {Interpreter}
Chain(h, k) ==
  LET chain[x \in Hooks] == IF x = Interpreter THEN <<x>> ELSE <<x>> \o chain[clients[x].prev[k]] IN chain[h]
ResolveHook(h, k) ==
  LET resolved[x \in Hooks] == IF x = Interpreter \/ ~Closed(x) THEN x ELSE resolved[clients[x].prev[k]] IN resolved[h]

(* ExceptionCapture.__init__: the hooks are read and then replaced, with   *)
(* nothing to keep another client out in between.                          *)
ReadHooks(c) ==
  /\ clients[c].pc = "new"
  /\ clients' = [clients EXCEPT ![c].pc = "read", ![c].prev = hooks]
  /\ UNCHANGED <<now, hooks, buckets, allowed, threads, marked, displaced>>
Install(c, k, from, to) ==
  /\ clients[c].pc = from
  /\ clients' = [clients EXCEPT ![c].pc = to]
  /\ hooks' = [hooks EXCEPT ![k] = c]
  /\ displaced' = displaced \cup ({h \in Clients : \E i \in DOMAIN Chain(hooks[k], k) : Chain(hooks[k], k)[i] = h}
                                  \ {h \in Clients : \E i \in DOMAIN Chain(c, k) : Chain(c, k)[i] = h})
  /\ UNCHANGED <<now, buckets, allowed, threads, marked>>
Open(c) == ReadHooks(c) \/ Install(c, "sys", "read", "half open") \/ Install(c, "threading", "half open", "open")

(* close: the hooks to put back are found before either is, and each is    *)
(* put back only while this client's is still the one installed.           *)
MarkClosed(c) ==
  /\ clients[c].pc = "open" /\ clients' = [clients EXCEPT ![c].pc = "closed"]
  /\ UNCHANGED <<now, hooks, buckets, allowed, threads, marked, displaced>>
Resolve(c) ==
  /\ clients[c].pc = "closed"
  /\ clients' = [clients EXCEPT ![c].pc = "resolved", ![c].back = [k \in Kinds |-> ResolveHook(clients[c].prev[k], k)]]
  /\ UNCHANGED <<now, hooks, buckets, allowed, threads, marked, displaced>>
\* Mutant: the hook is put back whoever has installed another since.
PutBackAlways(c, k) == hooks' = [hooks EXCEPT ![k] = clients[c].back[k]]
PutBack(c, k) == hooks' = IF hooks[k] = c THEN [hooks EXCEPT ![k] = clients[c].back[k]] ELSE hooks
RestoreSys(c) ==
  /\ clients[c].pc = "resolved" /\ clients' = [clients EXCEPT ![c].pc = "restored sys"]
  /\ PutBack(c, "sys")
  /\ UNCHANGED <<now, buckets, allowed, threads, marked, displaced>>
RestoreThreading(c) ==
  /\ clients[c].pc = "restored sys" /\ clients' = [clients EXCEPT ![c].pc = "done"]
  /\ PutBack(c, "threading")
  /\ buckets' = [buckets EXCEPT ![c] = [tokens |-> Size, last |-> 0, since |-> -1]]
  /\ allowed' = [allowed EXCEPT ![c] = 0]
  /\ UNCHANGED <<now, threads, marked, displaced>>
Close(c) == MarkClosed(c) \/ Resolve(c) \/ RestoreSys(c) \/ RestoreThreading(c)
------------------------------------------------------------------------------
(* An exception is raised inside contexts, each with the client it would   *)
(* be reported by, innermost first.                                        *)
Raise(t, contexts) ==
  /\ threads[t].pc \in {"idle", "over"} /\ Raised < MaxRaises
  /\ threads' = [threads EXCEPT ![t] = [Idle EXCEPT !.pc = "contexts", !.n = threads[t].n + 1, !.contexts = contexts]]
  /\ UNCHANGED <<now, clients, hooks, buckets, allowed, marked, displaced>>
Exception(t) == <<t, threads[t].n>>

(* Leaving a context reports the exception; after the last one the         *)
(* interpreter calls the hook it has by then.                              *)
LeaveContext(t) ==
  /\ threads[t].pc = "contexts"
  /\ \/ /\ threads[t].contexts # <<>>
        /\ threads' = [threads EXCEPT ![t].contexts = Tail(@), ![t].by = Head(threads[t].contexts), ![t].pc = "capture"]
     \/ /\ threads[t].contexts = <<>>
        /\ threads' = [threads EXCEPT ![t].pc = IF hooks[Kind(t)] = Interpreter THEN "over" ELSE "hook", ![t].hook = hooks[Kind(t)]]
  /\ UNCHANGED <<now, clients, hooks, buckets, allowed, marked, displaced>>

(* The handler's capture_exception: consume_rate_limit refills by whole    *)
(* intervals, and the call that takes the last token is limited itself.    *)
Refilled(b) ==
  LET intervals == (now - b.last) \div Interval IN
  [tokens |-> Min({b.tokens + intervals * Rate, Size}), last |-> b.last + intervals * Interval, since |-> b.since]
Bucket(c) == IF buckets[c].since < 0 THEN [tokens |-> Size, last |-> now, since |-> now] ELSE Refilled(buckets[c])

Handler(t) ==
  /\ threads[t].pc = "hook"
  /\ LET c == threads[t].hook b == Bucket(c) IN
     IF Closed(c)
     THEN /\ threads' = [threads EXCEPT ![t].pc = "next"]
          /\ UNCHANGED <<buckets, allowed>>
     ELSE /\ buckets' = [buckets EXCEPT ![c] = [b EXCEPT !.tokens = Max({0, @ - 1})]]
          /\ allowed' = IF b.tokens > 1 THEN [allowed EXCEPT ![c] = @ + 1] ELSE allowed
          /\ threads' = [threads EXCEPT ![t].pc = IF b.tokens > 1 THEN "capture" ELSE "next", ![t].by = c]
  /\ UNCHANGED <<now, clients, hooks, marked, displaced>>

(* Client.capture_exception: an exception that is marked is not captured   *)
(* again, and it is marked when its event was admitted.                    *)
\* Mutant: an exception that comes from a hook as a tuple is not marked.
MarkErrorOnly(t) == marked' = IF threads[t].hook = Interpreter THEN marked \cup {Exception(t)} ELSE marked
Mark(t) == marked' = marked \cup {Exception(t)}
After(t) == IF threads[t].hook = Interpreter THEN "contexts" ELSE "next"
CaptureException(t) ==
  /\ threads[t].pc = "capture"
  /\ \/ /\ Exception(t) \notin marked
        /\ threads' = [threads EXCEPT ![t].pc = After(t), ![t].sent = @ + 1]
        /\ Mark(t)
     \/ threads' = [threads EXCEPT ![t].pc = After(t)] /\ UNCHANGED marked
  /\ UNCHANGED <<now, clients, hooks, buckets, allowed, displaced>>

NextHook(t) ==
  /\ threads[t].pc = "next"
  /\ LET h == ResolveHook(clients[threads[t].hook].prev[Kind(t)], Kind(t)) IN
     threads' = [threads EXCEPT ![t].pc = IF h = Interpreter THEN "over" ELSE "hook",
                                ![t].hook = h, ![t].passed = Append(@, threads[t].hook)]
  /\ UNCHANGED <<now, clients, hooks, buckets, allowed, marked, displaced>>

Next ==
  \/ Tick
  \/ \E c \in Clients : Open(c) \/ Close(c)
  \/ \E t \in Threads : \/ \E contexts \in {<<>>} \cup {<<c>> : c \in Clients} \cup {<<c, d>> : c, d \in Clients} : Raise(t, contexts)
                        \/ LeaveContext(t) \/ Handler(t) \/ CaptureException(t) \/ NextHook(t)

Spec == Init /\ [][Next]_vars
------------------------------------------------------------------------------
On(c, k) == \E i \in DOMAIN Chain(hooks[k], k) : Chain(hooks[k], k)[i] = c

(* In whatever order clients close, also at once, the client that stays    *)
(* open stays hooked, unless another was opening over it at the same time; *)
(* the interpreter's own hook stays at the end of the chain, and no hook   *)
(* is passed twice by one exception (close, _resolve_hook).                *)
HooksStay ==
  /\ \A c \in Clients : clients[c].pc = "open" /\ c \notin displaced => On(c, "sys") /\ On(c, "threading")
  /\ \A t \in Threads :
       \A i, j \in DOMAIN threads[t].passed : threads[t].passed[i] = threads[t].passed[j] => i = j

(* An exception that passes nested contexts and the hooks of several       *)
(* clients is one event (exception_is_already_captured,                    *)
(* mark_exception_as_captured).                                            *)
ReportedOnce == \A t \in Threads : threads[t].sent <= 1

(* A bucket lets at most its size less one through at once and the refill  *)
(* of every whole interval after (consume_rate_limit, _apply_refill).      *)
RateBounded ==
  \A c \in Clients : buckets[c].since >= 0 =>
    allowed[c] <= Max({0, Size - 1}) + Rate * ((now - buckets[c].since) \div Interval)
===============================================================================
