SPECIFICATION FairSpec
CONSTANTS
  Inputs <- MCFive
  Depth = 3
  Capacity = 2
  Mortal = FALSE
  ForkFails = FALSE
PROPERTY EverybodyEnds
CHECK_DEADLOCK FALSE
