\* Two threads that may both free the same pointer, also long after it was
\* freed; size 0, a size too large to round up and an alignment that is no
\* power of two.
CONSTANTS
  Threads = {t1, t2}
  NoThread = NoThread
  ShardCount = 2
  HeapOffset = 4
  HeapSize = 16
  BlockHeaderSize = 4
  PrefixSize = 1
  MaxAlign = 2
  Word = 64
  RouteSpan = 4
  Sizes = {0, 1, 63}
  Alignments = {1, 3}
  Robust = FALSE
  OwnedFrees = FALSE
  MaxCalls = 3
  MaxCrashes = 0
SPECIFICATION FairSpec
INVARIANTS FreeListsSound PayloadMarksAllocation
PROPERTIES ImplementsHeap EveryCallReturns
CHECK_DEADLOCK FALSE
