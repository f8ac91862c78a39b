SPECIFICATION PartsSpec
CONSTANTS
  t1 = t1
  t2 = t2
  Threads = {m0, t1, t2}
  Main = m0
  MaxDepth = 3
  BlockSize = 2
  ClusterBlocks = 2
  AllocCount = 2
  Keys = {0, 1, 2, 5, 6, 8, 9, 11}
  Sizes = {0, 1, 3, 6}
  MaxEntries = 3
VIEW View
SYMMETRY Symmetry
INVARIANTS
  WaitsForOther
  
  StoresSound
PROPERTIES
  IsMap
