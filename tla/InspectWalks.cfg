\* Two threads that free what they hold, and a reader.  Two shards of 19 units
\* each, so that a shard is split into two blocks.
CONSTANTS
  Threads = {t1, t2}
  NoThread = NoThread
  ShardCount = 2
  HeapOffset = 4
  HeapSize = 38
  BlockHeaderSize = 4
  PrefixSize = 1
  MaxAlign = 2
  Word = 64
  RouteSpan = 4
  Sizes = {1, 4}
  Alignments = {1}
  Robust = FALSE
  OwnedFrees = TRUE
  MaxCalls = 2
  MaxCrashes = 0
SYMMETRY Symmetry
SPECIFICATION InspectSpec
INVARIANTS InspectTypeOK WalkOnBoundary StatsCoverHeld ReadersSucceed
PROPERTIES HeldSpansFound CalmHeapIsValid
CHECK_DEADLOCK FALSE
