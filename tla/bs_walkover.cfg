SPECIFICATION Spec
CONSTANTS
  Clients = {c1, c2}
  None = None
  Placements <- MCOneShip
  Guesses <- MCShipGuesses
  Signals = FALSE
  Mortal = {}
SYMMETRY ClientSymmetry
INVARIANT LostMeansSunk
CHECK_DEADLOCK FALSE
