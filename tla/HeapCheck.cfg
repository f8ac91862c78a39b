SPECIFICATION PartsSpec
CONSTANTS
  Modes = {"", "local", "normal"}
  MaxCheckers = 2
  MaxAddress = 6
  RowChoices <- Rows
  RegionChoices <- Regions
  Stacks = {1, 5}
INVARIANTS
  TableTrue
  RangesRead
  CheckedOnce

  
