SPECIFICATION Spec
CONSTANTS
  Servers = {u, v}
  Clients = {c}
  Games = 2
  Kills = FALSE
  Overlap = FALSE
  Last = 7
INVARIANT PlayersShareSegments
CHECK_DEADLOCK FALSE
