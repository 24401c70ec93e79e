\* Shutdown, interpreter exit and a flush(None): two consumers, three events.
CONSTANTS
  e1 = e1
  e2 = e2
  e3 = e3
  c1 = c1
  c2 = c2
  f1 = f1
  Events = {e1, e2, e3}
  Unsendable = {e1}
  Consumers = {c1, c2}
  Flushers = {f1}
  TimedFlushers = {}
  Shutdown = Shutdown
  AtExit = AtExit
  FlushAt = 2
  MaxQueueSize = 2
  Retries = 1
  NoEvent = NoEvent
SPECIFICATION MCSpec
SYMMETRY Symmetry
CHECK_DEADLOCK FALSE
INVARIANTS
  Accounting
  OneOwner
  AttemptedByShutdown
  FlushCovers
  NoStrandedWork
PROPERTIES
  QuietAfterExit
  ImplementsLaneSpec
