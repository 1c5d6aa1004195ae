SPECIFICATION OrderlySpec
CONSTANTS
  Clients = {c1, c2}
  None = None
  Placements <- MCOneShip
  Guesses <- MCShipGuesses
  Signals = TRUE
  Mortal = {}
PROPERTY TerminationReachesPlayers
CHECK_DEADLOCK FALSE
