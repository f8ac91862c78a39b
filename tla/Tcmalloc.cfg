SPECIFICATION Spec
CONSTANTS
  t1 = t1
  t2 = t2
  heap1 = heap1
  heap2 = heap2
  Owners = {t1, t2}
  Heaps = {heap1, heap2}
  NoHeap = NoHeap
  kStealAmount = 2
  kMinThreadCacheSize = 3
  kMaxThreadCacheSize = 6
  kDefaultOverallThreadCacheSize = 7
  Overall = {3, 7}
  Tries = 3
  Rounds = 2
  Threads = {t1, t2}
  MemoryPages = 5
  kPageSize = 4
  Slots = 2
  ClassSize <- SmallSizes
  ClassPages <- SmallSpans
  Alignment <- SmallAlignments
  Sizes = {2, 5, 9}
  Aligns = {2, 8}
  MaxLive = 2
  NPages = 4
  kMaxPages = 2
  CoalesceInterval = 4
  ReleaseDelay = 1
  SizeClasses = {1}
  Modes <- AllModes
  Toggles = {}
VIEW View
SYMMETRY Symmetry
INVARIANTS
  
  CachesTrue
  ClassesFit
  ObjectsSuit
PROPERTIES
  SpansKept
