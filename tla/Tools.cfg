SPECIFICATION PartsSpec
CONSTANTS
  t1 = t1
  t2 = t2
  b1 = b1
  b2 = b2
  l1 = l1
  l2 = l2
  l3 = l3
  l4 = l4
  Callers = {t1, t2}
  None = "none"
  Traces = {"a", "b", "c"}
  Depth <- TraceDepths
  kAssociativity = 2
  kBufferLength = 6
  MaxTicks = 3
SYMMETRY Symmetry
CHECK_DEADLOCK FALSE
INVARIANTS
  
  SamplesCounted
  
