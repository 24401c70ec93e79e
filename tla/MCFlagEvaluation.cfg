CONSTANT Parts = {"values", "matching", "calls", "redis", "snapshots"}
CONSTANTS
  Calls = {"c1", "c2"}
  Persons = {"p1", "p2"}
  Flags = {"f", "g"}
  Plain = {"f"}
  Backends = {"memory", "redis"}
  MaxUsers = 1
  MaxIds = 1
  StaleTTL = 1
  MaxTime = 1
  MaxVersion = 1
  MaxCalls = 2
  MaxViews = 2
INIT PartsInit
NEXT PartsNext
INVARIANTS LocalAnswers   AttachedAsBranched
CHECK_DEADLOCK FALSE
