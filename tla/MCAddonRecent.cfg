CONSTANTS
  PageSize = 2
  World <- TwoSections
  HighBitrate = 8
  HighSize = 8
SPECIFICATION Spec
INVARIANT
  RecentIsComplete
