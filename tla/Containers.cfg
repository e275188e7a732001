\* Two processes, one of which may die anywhere in a call; every allocation
\* may fail.  Keys 0 and 2 share a bucket.
CONSTANTS
  Procs = {p1, p2}
  NoProc = NoProc
  Cells = {1, 2, 3, 4, 5, 6, 7, 8, 9, 10, 11, 12, 13}
  Null = Null
  Kinds = {"table", "array", "list", "ring"}
  Values = {x, y}
  Keys = {0, 2}
  NumBuckets = 2
  KeySize = 4
  InitialCapacity = 1
  ListElemSize = 2
  RingCapacity = 2
  HeaderSpan = 3
  Reserves = {3}
  Shards = {{1, 3, 5, 7, 9, 11, 13}, {2, 4, 6, 8, 10, 12}}
  Robust = TRUE
  MaxCalls = 3
  MaxCrashes = 1
SPECIFICATION FairSpec
INVARIANTS TypeOK NothingDangles NothingLeaks ContentsRight
PROPERTY EveryCallReturns
CHECK_DEADLOCK FALSE
