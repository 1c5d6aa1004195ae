SPECIFICATION FairSpec
CONSTANTS
  Inputs <- MCInputs
  Depth = 2
  Capacity = 2
  Mortal = TRUE
  ForkFails = TRUE
INVARIANT TypeOK
INVARIANT OutputIsPrefix
INVARIANT SuccessIsComplete
PROPERTY EverybodyEnds
CHECK_DEADLOCK FALSE
