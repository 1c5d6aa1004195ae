SPECIFICATION MCSpec
CONSTANTS
  SLOTS = 5
  MAX_TRIES = 3
  SecretArgs <- MCSecretArgs
  Ports <- MCPorts
  Draws <- MCDraws
  Flips = {0, 1}
  Interrupts = TRUE
  ClientMortal = TRUE
  MAX_LENGTH = 4
  MCSecrets <- FiveSlotSecrets
  Clients = {c, d}
  Mapping = {TRUE, FALSE}
  Signals = TRUE
  Kills = TRUE
  Mortal = TRUE
  Inputs <- MCInputs
  MaxPiece = 3
  Capacity = 2
  Failures = TRUE
  Arguments <- MCArguments
  Extras = {0, 1}
INVARIANT ShipsAreLines
INVARIANT ScoreIsRule
INVARIANT ParityDetects
INVARIANT ResponseDecodes
INVARIANT ListUpdated
INVARIANT TextKept
INVARIANT VerdictIsTrue
INVARIANT GameTypeOK
INVARIANT SameOutcome
INVARIANT OutcomeJustified
INVARIANT AnswersInStep
INVARIANT SegmentExclusive
INVARIANT ReadsSorted
INVARIANT CountsComplete
INVARIANT OneServer
PROPERTY GameEnds
PROPERTY Served
PROPERTY BothEnd
CHECK_DEADLOCK FALSE
