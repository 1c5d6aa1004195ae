SPECIFICATION TextsSpec
CONSTANTS
  SLOTS = 5
  MAX_TRIES = 3
  SecretArgs <- MCSecretArgs
  Ports <- MCPorts
  Draws <- MCDraws
  Flips = {0, 1}
  Interrupts = TRUE
  ClientMortal = TRUE
  MAX_LENGTH = 4
  MCSecrets <- FiveSlotSecrets
  Clients = {c, d}
  Mapping = {TRUE, FALSE}
  Signals = TRUE
  Kills = TRUE
  Mortal = TRUE
  Inputs <- MCInputs
  MaxPiece = 3
  Capacity = 2
  Failures = TRUE
  Arguments <- MCTwoServers
  Extras = {0}
INVARIANT SomeTextHolds
CHECK_DEADLOCK FALSE
