CONSTANTS
  counter = counter
  gauge = gauge
  f = f
  t1 = t1
  t2 = t2
  t3 = t3
  t4 = t4
  t5 = t5
  Series = {counter, gauge}
  Gauges = {gauge}
  MaxSamples = 2
  MaxSeries = 1
  MaxFailures = 2
  Flushers = {f}
  Timers = {t1, t2, t3, t4, t5}
  NoThread = NoThread
  app = app
  poller = poller
  deferred = deferred
  exit = exit
  none = none
SPECIFICATION SumSpec
INVARIANTS
  Conservation
  NothingStranded
PROPERTIES
  SeriesKept
  CallsReturn
  WorkIsDone
CHECK_DEADLOCK FALSE
