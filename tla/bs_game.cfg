SPECIFICATION OrderlySpec
CONSTANTS
  Clients = {c1, c2}
  None = None
  Placements <- MCPlacements
  Guesses <- MCGuesses
  Signals = FALSE
  Mortal = {}
INVARIANT ShotsInTurn
INVARIANT FoundMatchesBoard
INVARIANT WonMeansSunk
INVARIANT InOrder
INVARIANT Accounted
PROPERTY PlaysTheGame
PROPERTY RegistrationCompletes
PROPERTY TurnComes
PROPERTY GameEnds
CHECK_DEADLOCK FALSE
