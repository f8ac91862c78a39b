SPECIFICATION Spec
CONSTANTS
  NumThread = 0
  Main = Main
  NULL = NULL
  Addr = {a1, a2}
  Count = 2
  NumCycle = 1
  RandMax = 2
  FreeFreq = 2
INVARIANT OutOfMemoryReported
