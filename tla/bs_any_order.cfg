SPECIFICATION Spec
CONSTANTS
  Clients = {c1, c2}
  None = None
  Placements <- MCPlacements
  Guesses <- MCGuesses
  Signals = TRUE
  Mortal = {c1, c2}
SYMMETRY ClientSymmetry
VIEW WithoutHistory
INVARIANT TypeOK
INVARIANT CriticalSections
INVARIANT OneTurn
INVARIANT Handshake
INVARIANT ActionExclusive
INVARIANT OneWinner
CHECK_DEADLOCK FALSE
