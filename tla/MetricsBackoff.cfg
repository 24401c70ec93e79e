SPECIFICATION Spec
CONSTANTS
  Series = {counter, gauge}
  Gauges = {gauge}
  MaxSamples = 2
  MaxSeries = 2
  MaxFailures = 3
  Flushers = {f}
  Timers = {t1, t2, t3, t4, t5}
  NoThread = NoThread
PROPERTIES
  BackoffKept
CHECK_DEADLOCK FALSE
