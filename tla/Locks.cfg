SPECIFICATION PartsSpec
CONSTANTS
  t1 = t1
  t2 = t2
  c1 = c1
  c2 = c2
  Threads = {t1, t2, t3, t4}
  have_futex = TRUE
  TimesOut = TRUE
  Writers = {"w"}
  Readers = {t1, t2}
  Hooks = {"h"}
  InitHook = "init"
  LateHook = "late"
  Singular = "singular"
  kHookListMaxValues = 3
  Clients = {t1, t2}
  Classes = {c1, c2}
  Spans = {1, 2}
  NoThread = "none"
  NoClass = "none"
  SpanObjects = 2
  Batch = 1
  InitialSize = 2
  MaxSize = 3
  MaxOps = 0
  Actors = {t1, t2}
  Blocks = {"a", "b"}
  Nobody = "nobody"
  Size <- BlockSizes
  AllocationInterval = 4
  DeallocationInterval = 2
  InuseInterval = 1
  TimeInterval = TRUE
  MaxStarts = 2
  MaxAlloc = 5
SYMMETRY Symmetry
INVARIANTS
  SleeperRemembered
  ObjectsConserved
  ProfileKept
  HooksSeen
PROPERTIES
  IsMutex
