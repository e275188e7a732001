\* One process opens a store that the other one is still setting up.
CONSTANTS
  Procs = {p1, p2}
  Regions = {r1}
  NoRegion = NoRegion
  ShardCount = 2
  CarefulUnlinks = TRUE
  MaxCalls = 2
  MaxCrashes = 0
SPECIFICATION Spec
PROPERTY AllocationsKept
CHECK_DEADLOCK FALSE
