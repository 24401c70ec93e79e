SPECIFICATION EitherSpec
CONSTANTS
  a1 = a1
  a2 = a2
  exit = exit
  deferred = deferred
  poller = poller
  Callers = {11, 12, 13}
  Loops = {1, 2}
  NumLanes = 2
  PerLane = 1
  Apps = {a1, a2}
  Interruptible = {a1}
  Pollers = {}
  Deferred = deferred
  AtExit = exit
  NoThread = NoThread
  NoEvent = NoEvent
INVARIANTS
  OneOwner
  CallsBlock
  
  
  AttemptedOnce
  LoopOwned
PROPERTIES
  LanesKeepPromise
CHECK_DEADLOCK FALSE
