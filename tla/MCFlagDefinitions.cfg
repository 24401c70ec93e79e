SPECIFICATION Spec
CONSTANTS
  Loaders = {t1, t2}
  MaxVersion = 2
  MaxFetch = 3
  NoThread = NoThread
SYMMETRY Symmetry

  
PROPERTIES
  PublishesItsAnswer
  
  CacheWritesInOrder
CHECK_DEADLOCK FALSE
