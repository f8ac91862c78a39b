SPECIFICATION PartsSpec
CONSTANTS
  NumThread = 2
  Main = Main
  NULL = NULL
  a1 = a1
  a2 = a2
  a3 = a3
  Addr <- Addresses
  Count = 2
  NumCycle = 2
  RandMax = 2
  FreeFreq = 2
INVARIANT AlwaysCalculated
