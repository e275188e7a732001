\* Two processes, three calls of any operation, one process may die anywhere in
\* a call; two names compete for one root entry and share two index entries.
CONSTANTS
  Procs = {p1, p2}
  NoProc = NoProc
  Names = {a, b}
  NoName = NoName
  Objects = {x}
  NoObject = NoObject
  RootCapacity = 1
  IndexCapacity = 2
  Ops = {"put", "get", "remove", "contains", "open", "validate"}
  MaxCalls <- TwoAndOne
  MaxCrashes = 1
SPECIFICATION FairSpec
INVARIANTS TypeOK NamesUnique ChecksumFresh
PROPERTIES Linearizable EveryCallReturns
CHECK_DEADLOCK FALSE
