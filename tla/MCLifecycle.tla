----------------------------- MODULE MCLifecycle -----------------------------
(***************************************************************************)
(* The end of a client (Lifecycle) and the background event loop its flag  *)
(* definition provider may run on (AsyncRunner), whose threads count as    *)
(* the client's own when a call is made from them.  A behaviour exercises  *)
(* one of the two and leaves the variables of the other alone.             *)
(***************************************************************************)
EXTENDS Lifecycle, Sequences, TLC

CONSTANTS a1, a2, exit, deferred, poller,
          Callers, Loops     \* AsyncRunner

VARIABLES
  part,
  loop, thread, closing, startup, closeRequested, life, error, done, ready, awaitable, callPc, on, ending

loopVars == <<loop, thread, closing, startup, closeRequested, life, error, done, ready, awaitable, callPc, on, ending>>

B == INSTANCE AsyncRunner WITH None <- 0, pc <- callPc, outcome <- ending
ASSUME RunnerThreads == B!Numbered

NoLoop ==
  /\ loop = 0 /\ thread = 0 /\ closing = 0 /\ startup = 0 /\ closeRequested = 0 /\ life = 0 /\ error = 0
  /\ done = 0 /\ ready = 0 /\ awaitable = 0 /\ callPc = 0 /\ on = 0 /\ ending = 0

EitherInit ==
  /\ part \in {"client", "runner"}
  /\ Init /\ (part = "runner" => mode = "async")
  /\ IF part = "runner" THEN B!Init ELSE NoLoop
EitherNext ==
  \/ part = "client" /\ Next /\ UNCHANGED <<part, loopVars>>
  \/ part = "runner" /\ B!Next /\ UNCHANGED <<part, vars>>
EitherSpec == EitherInit /\ [][EitherNext]_<<part, vars, loopVars>>

(* AsyncRunner: run() leaves no awaitable behind, the threads awaitables   *)
(* run on are known to be the runner's, close() waits for the loop, run()  *)
(* finds a startup or a running loop, and what has ended is forgotten.     *)
LoopOwned ==
  part = "runner" => B!AwaitableSettled /\ B!ThreadsOwned /\ B!CloseWaits /\ B!RunFinds /\ B!Forgotten
=============================================================================
