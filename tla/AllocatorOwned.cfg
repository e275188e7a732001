\* Two threads that free what they hold, one of which may die anywhere in a call;
\* the mutexes report the death of their owner.  Two shards of 19 units: a shard
\* has room for two blocks, and the second shard starts at an odd offset, so that
\* payloads aligned to 4 units need padding that differs from block to block.  The
\* sizes leave remainders of 5, 7 and 9 units, around the minimal block of 7.
CONSTANTS
  Threads = {t1, t2}
  NoThread = NoThread
  ShardCount = 2
  HeapOffset = 4
  HeapSize = 38
  BlockHeaderSize = 4
  PrefixSize = 1
  MaxAlign = 2
  Word = 64
  RouteSpan = 4
  Sizes = {1, 4, 6}
  Alignments = {4}
  Robust = TRUE
  OwnedFrees = TRUE
  MaxCalls = 3
  MaxCrashes = 1
SYMMETRY Symmetry
SPECIFICATION Spec
INVARIANTS TypeOK BlocksDisjoint HeapTiled FreeListsSound LiveIntact FreeListsComplete MissMeansNoFit
PROPERTIES HeldBlocksUntouched DeathFreezesShard
CHECK_DEADLOCK FALSE
