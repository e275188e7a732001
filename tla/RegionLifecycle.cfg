\* Two processes, two regions in turn under one name, two shards; a process may
\* die anywhere and every system call of a bootstrap may fail.
CONSTANTS
  Procs = {p1, p2}
  Regions = {r1, r2}
  NoRegion = NoRegion
  ShardCount = 2
  CarefulUnlinks = TRUE
  MaxCalls = 3
  MaxCrashes = 1
SYMMETRY Symmetry
SPECIFICATION Spec
INVARIANTS TypeOK OpenedIsStored PublishedKeepsName
PROPERTIES OpenAcceptsPublished FailureLeavesNoName
CHECK_DEADLOCK FALSE
