SPECIFICATION Spec
CONSTANTS
  Loaders = {t1, t2, t3}
  MaxVersion = 2
  MaxFetch = 3
  NoThread = NoThread
SYMMETRY Symmetry
PROPERTIES
  FetchedIsStored
CHECK_DEADLOCK FALSE
