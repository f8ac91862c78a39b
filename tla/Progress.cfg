SPECIFICATION Spec
CONSTANTS
  main = main
  nothing = nothing
  nodata = nodata
  t1 = t1
  t2 = t2
  t3 = t3
  c1 = c1
  c2 = c2
CHECK_DEADLOCK FALSE
PROPERTIES
  Terminates
  Settles
  Finishes
  NobodySleepsOn
