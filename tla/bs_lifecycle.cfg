SPECIFICATION Spec
CONSTANTS
  Servers = {u, v, w}
  Clients = {c, d}
  Games = 3
  Kills = TRUE
  Overlap = FALSE
  Last = 4
SYMMETRY Symmetry
INVARIANT TypeOK
INVARIANT FreshStart
INVARIANT FailsOnlyAfterKill
CHECK_DEADLOCK FALSE
