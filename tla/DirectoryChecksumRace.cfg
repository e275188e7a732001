\* Two processes, one update each.
CONSTANTS
  Procs = {p1, p2}
  NoProc = NoProc
  Names = {a}
  NoName = NoName
  Objects = {x}
  NoObject = NoObject
  RootCapacity = 1
  IndexCapacity = 1
  Ops = {"put"}
  MaxCalls <- OneEach
  MaxCrashes = 0
SPECIFICATION Spec
INVARIANT ChecksumCurrent
CHECK_DEADLOCK FALSE
