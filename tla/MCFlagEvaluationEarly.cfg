CONSTANT Parts = {"early exit"}
CONSTANTS
  Calls = {"c1", "c2"}
  Persons = {"p1", "p2"}
  Flags = {"f", "g"}
  Plain = {"f"}
  Backends = {"memory", "redis"}
  MaxUsers = 1
  MaxIds = 1
  StaleTTL = 1
  MaxTime = 1
  MaxVersion = 1
  MaxCalls = 2
  MaxViews = 2
INIT PartsInit
NEXT PartsNext
INVARIANT FalseIsConclusive
CHECK_DEADLOCK FALSE
