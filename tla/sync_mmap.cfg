SPECIFICATION FairSpec
CONSTANTS
 Clients={c}
 Mapping={FALSE}
 Signals=FALSE
 Kills=FALSE
PROPERTY SortingComes
CHECK_DEADLOCK FALSE
