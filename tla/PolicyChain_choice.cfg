SPECIFICATION SegmentationSpec
CONSTANTS
  Nothing = Nothing
  Factor  <- MCFactor
  Case    <- MCCase
  World   <- MCWorld
  Ranges  <- MCRanges
  RangeSize = 2
  UnionSize = 4
PROPERTIES SelectionIsTrue ComparisonSound StudiesAreFair
CHECK_DEADLOCK FALSE
