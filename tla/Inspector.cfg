SPECIFICATION PartsSpec
CONSTANTS
  Time = {0, 1, 2, 3}
  TimeStart = 0
  MaxRefresh = 2
  MaxOrphans = 1
  NoData = NoData
  c1 = c1
  c2 = c2
  Chart <- Charts
  Instants = {0, 1, 2, 5}
  Levels <- ChartLevels
  Size = 512
  BlockLength = 256
  MaxRequests = 4
  Positions = {0, 1, 2}
  Filters = {"x"}
  NULL = ""
  MaxObjects = 11
  objectsPerPage = 2
  width = 2
  MaxAsked = 2
SYMMETRY Symmetry
INVARIANTS
  CaughtUp
  ShownIsSelected
  UprightUnlessRegressed
  DrawnLoaded
  FetchedOnce
  NobodyStranded
  SpanFits
  
PROPERTY
  SelectionKept
CHECK_DEADLOCK FALSE
