\* One process makes a list of one-byte elements, uses it and destroys it.
CONSTANTS
  Procs = {p1}
  NoProc = NoProc
  Cells = {1, 2, 3, 4, 5}
  Null = Null
  Kinds = {"list"}
  Values = {x}
  Keys = {0}
  NumBuckets = 2
  KeySize = 4
  InitialCapacity = 1
  ListElemSize = 1
  RingCapacity = 2
  HeaderSpan = 3
  Reserves = {3}
  Shards = {{1, 2, 3, 4, 5}}
  Robust = TRUE
  MaxCalls = 2
  MaxCrashes = 0
SPECIFICATION Spec
INVARIANT DestroyFreesAll
CHECK_DEADLOCK FALSE
