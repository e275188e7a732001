----------------------- MODULE AllocatorInspectProofs -----------------------
(***************************************************************************)
(* Proofs about the readers that walk the heap without a lock, for any     *)
(* number of threads and shards that carve and free blocks around them.    *)
(***************************************************************************)
EXTENDS AllocatorInspect, AllocatorHeapProofs, FiniteSetTheorems

-----------------------------------------------------------------------------
(* What the readers need of the allocator, beside its invariant.           *)

\* The first block of a shard stays where allocator_init put it.
StartsKept == \A s \in Shards : ShardStart(s) \in DOMAIN block
\* An allocated block has the payload that was last handed out for it, unless
\* its payload_offset is being stored, and the payload starts inside of it.
PayloadSound ==
  \A b \in DOMAIN block :
    /\ block[b].flags = 0 => MidStore(b) \/ block[b].payload_offset = issued[b]
    /\ block[b].payload_offset <= block[b].size
\* While a block is being split, what lies inside of its old size is free: a
\* reader that skips it misses no allocation.
InteriorFree(t) ==
  pc[t] = "take" =>
    \A c \in DOMAIN block :
      current[t] < c /\ c < current[t] + block[current[t]].size =>
        block[c].flags = BLOCK_FREE

Support == StartsKept /\ PayloadSound /\ \A t \in Threads : InteriorFree(t)

LEMMA SupportInit ==
  ASSUME Init
  PROVE  Support
<1>1. StartsKept
  BY DEF Init, StartsKept
<1>2. \A b \in DOMAIN block : block[b].flags = BLOCK_FREE
        /\ block[b].payload_offset = 0 /\ block[b].size = ShardSize
  BY DEF Init, Header
<1>3. PayloadSound
  BY <1>2, HeapAssumption DEF PayloadSound, BLOCK_FREE
<1>4. \A t \in Threads : InteriorFree(t)
  BY DEF Init, InteriorFree
<1>5. QED  BY <1>1, <1>3, <1>4 DEF Support

(* A step that is none of a thread's stores to the heap leaves it alone.   *)
LEMMA CalmSupport ==
  ASSUME Support, SameFlight, issued' = issued
  PROVE  Support'
<1>1. StartsKept'
  BY DEF Support, StartsKept, SameFlight
<1>2. PayloadSound'
  BY DEF Support, PayloadSound, SameFlight, MidStore
<1>3. ASSUME NEW u \in Threads PROVE InteriorFree(u)'
  BY DEF Support, InteriorFree, SameFlight
<1>4. QED  BY <1>1, <1>2, <1>3 DEF Support

(* The headers after a store of thread t.                                  *)
LEMMA StoreFacts ==
  ASSUME IInv, Acyclic, NEW t \in Threads,
         \/ AllocSplit(t) \/ AllocWhole(t) \/ FreePush(t)
  PROVE  /\ DOMAIN block \subseteq DOMAIN block'
         /\ \A b \in DOMAIN block :
              /\ block'[b].flags = block[b].flags
              /\ block'[b].size = block[b].size
              /\ block'[b].payload_offset = block[b].payload_offset
              /\ issued'[b] = issued[b]
         /\ \A b \in DOMAIN block' \ DOMAIN block : block'[b].flags = BLOCK_FREE
<1>1. CASE AllocSplit(t)
  <2>1. PICK n : PutsInPlace(t, n)
    BY <1>1, AllocSplitStep
  <2>2. \A b \in DOMAIN block : issued'[b] = issued[b]
    <3>1. PICK m : m = current[t] + Needed(t)
      OBVIOUS
    <3>2. issued' = [c \in DOMAIN block \cup {m} |->
                       IF c = m THEN 0 ELSE issued[c]]
      BY <1>1, <3>1 DEF AllocSplit
    <3>3. IInv'
      BY <1>1, AllocSplitStep
    <3>4. issued' \in [DOMAIN block' -> Nat]
      BY <3>3 DEF IInv, TypeOK
    <3>5. DOMAIN block \cup {m} = DOMAIN block \cup {n} /\ n \notin DOMAIN block
      BY <2>1, <3>2, <3>4 DEF PutsInPlace
    <3>6. m \notin DOMAIN block
      BY <3>5
    <3>7. QED  BY <3>2, <3>6
  <2>3. QED  BY <2>1, <2>2 DEF PutsInPlace, Redirects
<1>2. CASE AllocWhole(t)
  BY <1>2, AllocWholeStep DEF Skips, Redirects, AllocWhole, ghosts
<1>3. CASE FreePush(t)
  BY <1>3 DEF FreePush, ghosts
<1>4. QED  BY <1>1, <1>2, <1>3

(* Who stands between the two stores of a block stays there while another  *)
(* thread takes a step.                                                    *)
LEMMA MidStoreKept ==
  ASSUME NEW t \in Threads, \A u \in Threads \ {t} : SameLocals(u), NEW c,
         MidStore(c), pc[t] \in {"fill", "clear"} => current[t] # c
  PROVE  MidStore(c)'
<1>1. PICK u \in Threads : pc[u] \in {"fill", "clear"} /\ current[u] = c
  BY DEF MidStore
<1>2. pc'[u] = pc[u] /\ current'[u] = current[u]
  BY <1>1 DEF SameLocals
<1>3. QED  BY <1>1, <1>2 DEF MidStore

LEMMA StoreSupport ==
  ASSUME IInv, Acyclic, Support, NEW t \in Threads,
         \/ AllocSplit(t) \/ AllocWhole(t) \/ AllocTake(t) \/ AllocFill(t)
         \/ FreeMark(t) \/ FreeClear(t) \/ FreePush(t)
  PROVE  Support'
<1>1. /\ IInv' /\ StoresInShard(t)
      /\ \A u \in Threads \ {t} : SameLocals(u)
  BY HeapStep, OtherLocals DEF IInv, Step, AllocStep, FreeStep
<1>2. DOMAIN block \subseteq DOMAIN block'
  BY StoreFacts, AllocTakeStep, AllocFillStep, FreeMarkStep, FreeClearStep
<1>3. StartsKept'
  BY <1>2 DEF Support, StartsKept
<1>4. PayloadSound'
  <2>1. CASE AllocSplit(t) \/ AllocWhole(t) \/ FreePush(t)
    <3>1. ASSUME NEW b \in DOMAIN block'
          PROVE  /\ block'[b].flags = 0 =>
                       MidStore(b)' \/ block'[b].payload_offset = issued'[b]
                 /\ block'[b].payload_offset <= block'[b].size
      <4>1. CASE b \in DOMAIN block
        <5>1. pc[t] \in {"walk", "push"}
          BY <2>1 DEF AllocSplit, AllocWhole, FreePush, Visiting, At
        <5>2. MidStore(b) => MidStore(b)'
          BY <1>1, <5>1, MidStoreKept
        <5>3. QED  BY <2>1, <4>1, <5>2, StoreFacts DEF Support, PayloadSound
      <4>2. CASE b \notin DOMAIN block
        <5>1. block'[b].flags = BLOCK_FREE
          BY <2>1, <4>2, StoreFacts
        <5>2. ~MidStore(b)'
          <6>1. \A u \in Threads \ {t} : pc[u] \in {"fill", "clear"} =>
                  current[u] # b
            BY <4>2 DEF IInv, CallsSound, BlockSound
          <6>2. pc'[t] \notin {"fill", "clear"}
            BY <2>1 DEF AllocSplit, AllocWhole, FreePush, Goto, IInv, TypeOK
          <6>3. QED  BY <1>1, <6>1, <6>2 DEF MidStore, SameLocals
        <5>3. block'[b].payload_offset = 0 /\ block'[b].size \in Nat
          BY <1>1, <5>1, <5>2
             DEF IInv, HeapInv, PayloadMarksAllocation, TypeOK, Headers
        <5>4. QED  BY <5>1, <5>3 DEF BLOCK_FREE
      <4>3. QED  BY <4>1, <4>2
    <3>2. QED  BY <3>1 DEF PayloadSound
  <2>2. ASSUME AllocTake(t) \/ AllocFill(t) \/ FreeMark(t) \/ FreeClear(t),
               NEW b, b = current[t], block'[b].payload_offset <= block'[b].size,
               block'[b].flags = 0 =>
                 MidStore(b)' \/ block'[b].payload_offset = issued'[b],
               \A c \in DOMAIN block : c # b =>
                 block'[c] = block[c] /\ issued'[c] = issued[c]
        PROVE  PayloadSound'
    <3>1. DOMAIN block' = DOMAIN block
      BY <2>2, AllocTakeStep, AllocFillStep, FreeMarkStep, FreeClearStep
    <3>2. ASSUME NEW c \in DOMAIN block, c # b, MidStore(c)
          PROVE  MidStore(c)'
      BY <1>1, <2>2, <3>2, MidStoreKept
    <3>3. QED  BY <2>2, <3>1, <3>2 DEF Support, PayloadSound
  <2>3. CASE AllocTake(t)
    <3>1. PICK b \in DOMAIN block : b = current[t]
      BY <2>3 DEF AllocTake, At, IInv, CallsSound, BlockSound
    <3>2. /\ pc[t] = "take" /\ pc'[t] = "fill" /\ current'[t] = b
          /\ issued' = issued /\ block[b].flags = BLOCK_FREE
          /\ block' = [block EXCEPT ![b] = Header(TakenSize(t), Null, 0,
                         try_shard[t], block[b].payload_offset)]
      BY <2>3, <3>1
         DEF AllocTake, At, Goto, locals, ghosts, IInv, TypeOK, CallsSound, FlightSound
    <3>3. ~MidStore(b)
      BY <3>1, <3>2, SoleHandler DEF MidStore
    <3>4. block[b].payload_offset = 0
      BY <3>1, <3>2, <3>3 DEF IInv, HeapInv, PayloadMarksAllocation
    <3>5. block'[b] \in Headers /\ block'[b].payload_offset = 0
      BY <1>1, <3>1, <3>2, <3>4 DEF IInv, TypeOK, Header
    <3>6. MidStore(b)'
      BY <3>2 DEF MidStore
    <3>7. QED  BY <2>2, <2>3, <3>1, <3>2, <3>5, <3>6 DEF Headers
  <2>4. CASE AllocFill(t)
    <3>1. PICK b \in DOMAIN block : b = current[t]
      BY <2>4 DEF AllocFill, At, IInv, CallsSound, BlockSound
    <3>2. PICK p : p = PayloadOffset(b, alignment[t])
      OBVIOUS
    <3>3. block[b] \in Headers
      BY <3>1 DEF IInv, TypeOK
    <3>4. /\ block'[b].payload_offset = p /\ block'[b].size = block[b].size
          /\ issued'[b] = p
          /\ \A c \in DOMAIN block : c # b =>
               block'[c] = block[c] /\ issued'[c] = issued[c]
      BY <2>4, <3>1, <3>2, <3>3 DEF AllocFill, Headers, IInv, TypeOK
    <3>5. p <= block[b].size
      <4>1. b \in Heap /\ block[b].size \in Nat
        BY <3>3, BlockFacts DEF IInv, HeapInv, Headers
      <4>2. /\ size[t] \in Nat /\ alignment[t] \in Nat \ {0}
            /\ MaxAlign <= size[t] /\ NoWrap(size[t], alignment[t])
            /\ Needed(t) <= block[b].size
        BY <2>4, <3>1
           DEF AllocFill, At, IInv, TypeOK, CallsSound, RequestSound, FlightSound
      <4>3. p \in Nat /\ Needed(t) \in Nat /\ p + size[t] <= Needed(t)
        BY <3>1, <3>2, <4>1, <4>2, RequestFacts DEF Needed
      <4>4. QED  BY <4>1, <4>2, <4>3
    <3>6. QED  BY <2>2, <2>4, <3>1, <3>4, <3>5
  <2>5. CASE FreeMark(t) \/ FreeClear(t)
    <3>1. PICK b \in DOMAIN block : b = current[t]
      BY <2>5 DEF FreeMark, FreeClear, At, IInv, CallsSound, BlockSound
    <3>2. block[b] \in Headers
      BY <3>1 DEF IInv, TypeOK
    <3>3. /\ issued' = issued /\ block'[b].size = block[b].size
          /\ block'[b].flags = block[b].flags \/ block'[b].flags = BLOCK_FREE
          /\ block'[b].payload_offset \in {0, block[b].payload_offset}
          /\ \A c \in DOMAIN block : c # b => block'[c] = block[c]
      <4>1. CASE FreeMark(t)
        BY <3>1, <3>2, <4>1 DEF FreeMark, ghosts, Headers, IInv, TypeOK
      <4>2. CASE FreeClear(t)
        <5>1. PICK h \in Headers : h = block[b]
          BY <3>2
        <5>2. PICK n : n = heads[try_shard[t]]
          OBVIOUS
        <5>3. issued' = issued
              /\ block' = [block EXCEPT ![b] =
                             [block[b] EXCEPT !.payload_offset = 0, !.next_free = n]]
          BY <3>1, <4>2, <5>2 DEF FreeClear, ghosts, IInv, TypeOK
        <5>4. QED  BY <3>1, <5>1, <5>3 DEF Headers
      <4>3. QED  BY <2>5, <4>1, <4>2
    <3>4. block'[b].flags = BLOCK_FREE
      BY <2>5, <3>1, <3>2, <3>3
         DEF FreeMark, FreeClear, At, Headers, IInv, CallsSound, FlightSound, TypeOK
    <3>5. block'[b].payload_offset <= block'[b].size
      BY <3>1, <3>2, <3>3 DEF Support, PayloadSound, Headers
    <3>6. QED  BY <2>2, <2>5, <3>1, <3>3, <3>4, <3>5 DEF BLOCK_FREE
  <2>6. QED  BY <2>1, <2>3, <2>4, <2>5
<1>5. ASSUME NEW u \in Threads PROVE InteriorFree(u)'
  <2> SUFFICES ASSUME pc'[u] = "take", NEW c \in DOMAIN block',
                      current'[u] < c,
                      c < current'[u] + block'[current'[u]].size
               PROVE  block'[c].flags = BLOCK_FREE
    BY DEF InteriorFree
  <2>1. PICK b \in DOMAIN block' : b = current'[u] /\ block'[b].shard = try_shard'[u]
    BY <1>1 DEF IInv, CallsSound, BlockSound
  <2>2. CASE u # t
    <3>1. pc[u] = "take" /\ current[u] = b /\ try_shard'[u] = try_shard[u]
      BY <1>1, <2>1, <2>2 DEF SameLocals
    <3>2. try_shard[u] # try_shard[t]
      BY <1>1, <2>2, <3>1, OtherShard DEF StoresInShard, InCriticalSection
    <3>3. b \in DOMAIN block /\ block'[b] = block[b]
      BY <1>1, <2>1, <3>1, <3>2 DEF StoresInShard, Confined
    <3>4. block'[c].shard # try_shard[t]
      <4>1. /\ ShardStart(block'[b].shard) <= b
            /\ b + block'[b].size <= ShardEnd(block'[b].shard)
            /\ ShardStart(block'[c].shard) <= c
            /\ c + block'[c].size <= ShardEnd(block'[c].shard)
        BY <1>1 DEF IInv, HeapInv, HeapTiled
      <4>2. /\ b \in Nat /\ c \in Nat /\ block'[b].size \in Nat
            /\ block'[c].size \in Nat
            /\ block'[b].shard \in Shards /\ block'[c].shard \in Shards
            /\ MinBlockSize <= block'[c].size
        BY <1>1 DEF IInv, TypeOK, Headers, HeapInv, HeapTiled
      <4>3. block'[c].shard = block'[b].shard
        BY <2>1, <4>1, <4>2, ShardFacts, MinBlockFacts DEF Shards
      <4>4. QED  BY <2>1, <3>1, <3>2, <4>3
    <3>5. c \in DOMAIN block /\ block'[c] = block[c]
      BY <1>1, <3>4 DEF StoresInShard, Confined
    <3>6. QED  BY <2>1, <3>1, <3>3, <3>5 DEF Support, InteriorFree
  <2>3. CASE u = t
    <3>1. AllocSplit(t) \/ AllocWhole(t)
      BY <2>3 DEF AllocTake, AllocFill, FreeMark, FreeClear, FreePush, Goto,
                  IInv, TypeOK
    <3>2. pc[t] = "walk" /\ current[t] # Null /\ current'[t] = current[t]
      BY <3>1 DEF AllocSplit, AllocWhole, Visiting, At, locals
    <3>3. Linked(b) /\ b \in DOMAIN block
      BY <2>1, <2>3, <3>2, WalkFacts
    <3>4. block'[b].size = block[b].size
      BY <3>1, <3>3, StoreFacts
    <3>5. CASE c \in DOMAIN block
      <4>1. /\ b \in Nat /\ c \in Nat /\ block[b].size \in Nat /\ b < c
            /\ ~(b + block[b].size <= c)
        BY <2>1, <2>3, <3>3, <3>4, <3>5 DEF IInv, TypeOK, Headers
      <4>2. PICK v \in Threads : pc[v] = "take" /\ current[v] = b
        BY <3>3, <3>5, <4>1 DEF IInv, HeapInv, BlocksDisjoint
      <4>3. QED  BY <3>3, <4>2 DEF Linked, InFlight, Handling
    <3>6. CASE c \notin DOMAIN block
      BY <3>1, <3>6, StoreFacts
    <3>7. QED  BY <3>5, <3>6
  <2>4. QED  BY <2>2, <2>3
<1>6. QED  BY <1>3, <1>4, <1>5 DEF Support

LEMMA SupportStep ==
  ASSUME IInv, Acyclic, Support, RequestsFit, [Next]_vars
  PROVE  Support' /\ DOMAIN block \subseteq DOMAIN block'
<1>1. CASE UNCHANGED vars
  BY <1>1, StutterStep, CalmSupport DEF vars, ghosts, shared
<1>2. CASE Next
  <2>1. PICK t \in Threads : Request(t) \/ Step(t) \/ Crash(t)
    BY <1>2 DEF Next
  <2>2. CASE \/ AllocSplit(t) \/ AllocWhole(t) \/ AllocTake(t) \/ AllocFill(t)
             \/ FreeMark(t) \/ FreeClear(t) \/ FreePush(t)
    BY <2>2, StoreSupport, StoreFacts, AllocTakeStep, AllocFillStep,
       FreeMarkStep, FreeClearStep
  <2>3. CASE ~(\/ AllocSplit(t) \/ AllocWhole(t) \/ AllocTake(t) \/ AllocFill(t)
               \/ FreeMark(t) \/ FreeClear(t) \/ FreePush(t))
    <3>1. SameFlight
      BY <2>1, <2>3, RejectStep, AllocCallStep, FreeCallStep, AllocLockStep,
         FreeLockStep, LockOwnerDeadStep, AllocBadAlignmentStep,
         AllocNextBlockStep, AllocMissStep, UnlockStep, FreeMismatchStep
         DEF Request, Step, AllocStep, FreeStep
    <3>2. issued' = issued
      BY <2>1, <2>3
         DEF Request, Step, AllocStep, FreeStep, AllocReject, AllocCall,
             FreeReject, FreeCall, AllocLock, AllocBadAlignment,
             AllocNextBlock, AllocMiss, AllocFail, FreeLock, FreeMismatch,
             Unlock, LockOwnerDead, Crash, ghosts
    <3>3. QED  BY <3>1, <3>2, CalmSupport DEF SameFlight
  <2>4. QED  BY <2>2, <2>3
<1>3. QED  BY <1>1, <1>2

-----------------------------------------------------------------------------
(* The reader's own state.                                                 *)

Last == ShardEnd(ShardCount - 1)

\* The units between the last shard and the end of the heap, which are there
\* when ShardCount does not divide HeapSize, belong to no block.
NoTail == ShardCount * ShardSize = HeapSize

LEMMA LastFacts ==
  /\ Last \in Nat /\ Last <= HeapEnd /\ HeapOffset <= Last /\ HeapEnd \in Nat
  /\ HeapOffset = ShardStart(0) /\ 0 \in Shards /\ ShardCount - 1 \in Shards
  /\ \A s \in Shards : ShardEnd(s) <= Last
  /\ \A s \in Shards : s # ShardCount - 1 =>
       s + 1 \in Shards /\ ShardEnd(s) = ShardStart(s + 1)
  /\ NoTail => Last = HeapEnd
<1> USE LayoutAssumption, HeapAssumption
<1>1. ShardCount - 1 \in Shards /\ 0 \in Shards
  BY DEF Shards
<1>2. Last \in Nat /\ Last <= HeapEnd /\ HeapOffset <= Last /\ HeapEnd \in Nat
  BY <1>1, ShardFacts DEF Last, HeapEnd
<1>3. HeapOffset = ShardStart(0)
  BY DEF ShardStart
<1>4. ASSUME NEW s \in Shards PROVE ShardEnd(s) <= Last
  <2>1. CASE s = ShardCount - 1
    BY <1>2, <2>1 DEF Last
  <2>2. CASE s # ShardCount - 1
    <3>1. s < ShardCount - 1
      BY <2>2 DEF Shards
    <3>2. ShardEnd(s) <= ShardStart(ShardCount - 1)
      BY <1>1, <3>1, ShardFacts
    <3>3. /\ ShardEnd(s) \in Nat /\ ShardStart(ShardCount - 1) \in Nat
          /\ Last = ShardStart(ShardCount - 1) + ShardSize
      BY <1>1, ShardFacts DEF Last
    <3>4. QED  BY <3>2, <3>3
  <2>3. QED  BY <2>1, <2>2
<1>5. ASSUME NEW s \in Shards, s # ShardCount - 1
      PROVE  s + 1 \in Shards /\ ShardEnd(s) = ShardStart(s + 1)
  <2>1. s \in Nat /\ s + 1 \in Shards
    BY <1>5 DEF Shards
  <2>2. (s + 1) * ShardSize = s * ShardSize + ShardSize
    BY <2>1
  <2>3. s * ShardSize \in Nat
    BY <2>1
  <2>4. QED  BY <2>1, <2>2, <2>3 DEF ShardEnd, ShardStart
<1>6. NoTail => Last = HeapEnd
  <2>1. (ShardCount - 1) * ShardSize + ShardSize = ShardCount * ShardSize
    OBVIOUS
  <2>2. (ShardCount - 1) * ShardSize \in Nat
    OBVIOUS
  <2>3. QED  BY <2>1, <2>2 DEF Last, ShardEnd, ShardStart, HeapEnd, NoTail
<1>7. QED  BY <1>1, <1>2, <1>3, <1>4, <1>5, <1>6

\* Between two walks the locals are as a call finds them.
Fresh ==
  task = "none" =>
    phase = "heap" /\ walk = HeapOffset /\ block_count = 0 /\ used_bytes = 0
OnlyValidateLists == phase = "lists" => task = "validate"
Standing == walk \in DOMAIN block \cup {Last}
ReaderInv == InspectTypeOK /\ Fresh /\ OnlyValidateLists /\ Standing

LEMMA FetchFacts ==
  ASSUME IInv, NEW b
  PROVE  Fetch(b) \in Headers
<1>1. CASE b \in DOMAIN block
  BY <1>1 DEF Fetch, IInv, TypeOK
<1>2. CASE b \notin DOMAIN block
  BY <1>2, LastFacts DEF Fetch, Header, Headers, Null
<1>3. QED  BY <1>1, <1>2

(* A block that the reader stands on lies inside the heap.                 *)
LEMMA HereFacts ==
  ASSUME IInv, walk \in DOMAIN block
  PROVE  /\ Here = block[walk] /\ Here \in Headers /\ walk \in Nat
         /\ BlockHeaderSize < Here.size /\ walk + Here.size <= Last
         /\ walk + BlockHeaderSize <= HeapEnd /\ walk < Last /\ HeapOffset <= walk
<1> USE DEF IInv, HeapInv
<1>1. Here = block[walk] /\ Here \in Headers /\ walk \in Nat
  BY FetchFacts DEF Here, Fetch, TypeOK
<1>2. /\ MinBlockSize <= Here.size /\ walk + Here.size <= ShardEnd(Here.shard)
      /\ ShardStart(Here.shard) <= walk
  BY <1>1, BlockFacts
<1>3. Here.shard \in Shards /\ Here.size \in Nat
  BY <1>1 DEF Headers
<1>4. BlockHeaderSize < Here.size
  BY <1>2, <1>3, LayoutAssumption DEF MinBlockSize
<1>5. /\ ShardEnd(Here.shard) <= Last /\ ShardEnd(Here.shard) \in Nat
      /\ HeapOffset <= ShardStart(Here.shard) /\ ShardStart(Here.shard) \in Nat
  BY <1>3, ShardFacts, LastFacts
<1>6. walk + Here.size <= Last /\ HeapOffset <= walk
  BY <1>1, <1>2, <1>3, <1>5, LastFacts, LayoutAssumption
<1>7. QED  BY <1>1, <1>3, <1>4, <1>6, LastFacts, LayoutAssumption

(* traversed += block->size lands on a block, or behind the last one.      *)
LEMMA AdvanceLands ==
  ASSUME IInv, Support, ReaderInv
  PROVE  /\ walk + Here.size \in DOMAIN block \cup {Last}
         /\ walk + Here.size \in HeapOffset .. HeapEnd
<1>1. CASE walk \in DOMAIN block
  <2>1. /\ Here = block[walk] /\ Here \in Headers /\ walk \in Nat
        /\ walk + Here.size <= Last /\ HeapOffset <= walk
    BY <1>1, HereFacts
  <2>2. walk + Here.size \in DOMAIN block \cup {ShardEnd(Here.shard)}
    BY <1>1, <2>1 DEF IInv, HeapInv, HeapTiled
  <2>3. ShardEnd(Here.shard) \in DOMAIN block \cup {Last}
    BY <2>1, LastFacts DEF Headers, Support, StartsKept, Last
  <2>4. walk + Here.size \in HeapOffset .. HeapEnd
    BY <2>1, LastFacts, LayoutAssumption DEF Headers
  <2>5. QED  BY <2>2, <2>3, <2>4
<1>2. CASE walk \notin DOMAIN block
  <2>1. Here.size = 0
    BY <1>2 DEF Here, Fetch, Header
  <2>2. walk \in HeapOffset .. HeapEnd /\ walk \in DOMAIN block \cup {Last}
    BY DEF ReaderInv, InspectTypeOK, Standing
  <2>3. walk + Here.size = walk
    BY <2>1, <2>2, LastFacts, LayoutAssumption
  <2>4. QED  BY <2>2, <2>3
<1>3. QED  BY <1>1, <1>2

LEMMA ReaderInit ==
  ASSUME InspectInit
  PROVE  ReaderInv
<1>1. InspectTypeOK
  BY LastFacts, LayoutAssumption DEF InspectInit, Init, InspectTypeOK, Reports, Tasks, Null
<1>2. Standing
  BY LastFacts DEF InspectInit, Init, Standing
<1>3. QED  BY <1>1, <1>2 DEF InspectInit, ReaderInv, Fresh, OnlyValidateLists

(* A walk that ends leaves the reader as it was before.                    *)
LEMMA ReportStep ==
  ASSUME IInv, Support, ReaderInv, task \in Tasks,
         NEW code \in {"OK", "INVALID_STATE", "NOT_FOUND"}, NEW value \in Int,
         Report(code, value)
  PROVE  ReaderInv'
<1>1. InspectTypeOK'
  BY LastFacts, LayoutAssumption DEF Report, ReaderInv, InspectTypeOK, Reports, Null
<1>2. Standing'
  BY LastFacts DEF Report, Standing, vars, shared, Support, StartsKept
<1>3. QED  BY <1>1, <1>2 DEF Report, ReaderInv, Fresh, OnlyValidateLists

LEMMA AdvanceStep ==
  ASSUME IInv, Support, ReaderInv, task \in Tasks, phase = "heap",
         NEW count \in Nat, NEW bytes \in Nat, Advance(count, bytes)
  PROVE  ReaderInv'
<1> USE DEF Advance, ReaderInv
<1>1. InspectTypeOK'
  BY AdvanceLands DEF InspectTypeOK, vars, ghosts
<1>2. Standing'
  BY AdvanceLands DEF Standing, vars, shared
<1>3. QED  BY <1>1, <1>2 DEF Fresh, OnlyValidateLists, Tasks

LEMMA ReaderStep ==
  ASSUME IInv, Acyclic, Support, RequestsFit, ReaderInv, [InspectNext]_inspectVars
  PROVE  ReaderInv'
<1> USE DEF ReaderInv
<1>1. CASE UNCHANGED inspectVars
  BY <1>1 DEF inspectVars, reader, vars, shared, ghosts, InspectTypeOK, Fresh,
              OnlyValidateLists, Standing
<1>2. CASE Mutate
  <2>1. DOMAIN block \subseteq DOMAIN block'
    BY <1>2, SupportStep DEF Mutate
  <2>2. Standing'
    BY <1>2, <2>1 DEF Mutate, reader, Standing
  <2>3. InspectTypeOK'
    BY <1>2 DEF Mutate, reader, InspectTypeOK
  <2>4. QED
    BY <1>2, <2>2, <2>3 DEF Mutate, reader, Fresh, OnlyValidateLists
<1>3. ASSUME NEW op \in Tasks, NEW b \in Nat, Begin(op, b)
      PROVE  ReaderInv'
  BY <1>3 DEF Begin, InspectTypeOK, Fresh, OnlyValidateLists, Standing, vars,
              shared, ghosts, Tasks
<1>4. Use \in Nat /\ Here.size - Here.payload_offset \in Int
      /\ used_bytes \in Int
  BY FetchFacts DEF Use, Here, Headers, InspectTypeOK
<1>5. CASE StatsBlock \/ StatsDone \/ SpanBlock \/ SpanDone \/ ValidateBlock
  BY <1>4, <1>5, ReportStep, AdvanceStep
     DEF StatsBlock, StatsDone, SpanBlock, SpanDone, ValidateBlock, Walking,
         Past, Tasks
<1>6. CASE ValidateLists
  BY <1>6, LastFacts
     DEF ValidateLists, Past, InspectTypeOK, Fresh, OnlyValidateLists,
         Standing, vars, shared, ghosts, Tasks, IInv, TypeOK
<1>7. CASE ListBlock
  <2>1. CASE ListBroken
    BY <1>7, <2>1, ReportStep DEF ListBlock, Listing, Tasks
  <2>2. CASE ~ListBroken
    <3>1. Fetch(free_cursor).next_free \in Nat /\ block_count - 1 \in Nat
      BY <2>2, FetchFacts DEF ListBroken, InspectTypeOK, Headers
    <3>2. QED
      BY <1>7, <2>2, <3>1
         DEF ListBlock, Listing, InspectTypeOK, Fresh, OnlyValidateLists,
             Standing, vars, shared, ghosts
  <2>3. QED  BY <2>1, <2>2
<1>8. CASE ListDone
  <2>1. CASE shard + 1 = ShardCount
    BY <1>8, <2>1, ReportStep DEF ListDone, Listing, Tasks
  <2>2. CASE shard + 1 # ShardCount
    <3>1. shard + 1 \in Shards
      BY <2>2, LayoutAssumption DEF InspectTypeOK, Shards
    <3>2. heads[shard + 1] \in Nat
      BY <3>1 DEF IInv, TypeOK
    <3>3. QED
      BY <1>8, <2>2, <3>1, <3>2
         DEF ListDone, Listing, InspectTypeOK, Fresh, OnlyValidateLists,
             Standing, vars, shared, ghosts
  <2>3. QED  BY <2>1, <2>2
<1>9. QED
  BY <1>1, <1>2, <1>3, <1>5, <1>6, <1>7, <1>8
     DEF InspectNext, Inspect, Tasks, Null, IInv, TypeOK

(* The readers change nothing that the allocator uses.                     *)
LEMMA StepIsAllocator == [InspectNext]_inspectVars => [Next]_vars
BY DEF inspectVars, InspectNext, Mutate, Inspect, Begin, StatsBlock,
       StatsDone, SpanBlock, SpanDone, ValidateBlock, ValidateLists,
       ListBlock, ListDone, Report, Advance

(* What holds of allocator and reader together.                            *)
SystemInv == IInv /\ Acyclic /\ Support /\ ReaderInv

(* The allocator's invariant holds beside the readers of                   *)
(* src/core/allocator.c, and theirs holds beside its threads.              *)
THEOREM InspectInvariant ==
  ASSUME RequestsFit
  PROVE  InspectSpec => []SystemInv
<1>1. InspectInit => Init /\ Support /\ ReaderInv
  BY SupportInit, ReaderInit DEF InspectInit
<1>2. InspectSpec => Spec
  BY <1>1, StepIsAllocator, PTL DEF InspectSpec, Spec
<1>3. IInv /\ Acyclic /\ Support /\ ReaderInv /\ [InspectNext]_inspectVars =>
        Support' /\ ReaderInv'
  BY StepIsAllocator, SupportStep, ReaderStep
<1>4. QED  BY <1>1, <1>2, <1>3, AllocatorInvariant, PTL DEF InspectSpec, SystemInv

(* The walks keep their locals in range: `heap_size - traversed' never     *)
(* underflows, and the count of blocks never drops below zero.             *)
THEOREM InspectTypeCorrect ==
  ASSUME RequestsFit
  PROVE  InspectSpec => []InspectTypeOK
<1>1. SystemInv => InspectTypeOK
  BY DEF SystemInv, ReaderInv
<1>2. QED  BY <1>1, InspectInvariant, PTL

(* However many splits happen around it, an unlocked walk reads only block *)
(* headers.                                                                *)
THEOREM InspectWalksOnBoundaries ==
  ASSUME RequestsFit
  PROVE  InspectSpec => []WalkOnBoundary
<1>1. SystemInv => WalkOnBoundary
  BY DEF SystemInv, ReaderInv, Standing, WalkOnBoundary, Last
<1>2. QED  BY <1>1, InspectInvariant, PTL

-----------------------------------------------------------------------------
(* Statistics and span queries never find the heap corrupt.                *)

(* A walk inside of the shards stands on a block, and the block passes.    *)
LEMMA WellFormed ==
  ASSUME SystemInv, walk < Last
  PROVE  walk \in DOMAIN block /\ ~Malformed
<1> USE DEF SystemInv
<1>1. walk \in DOMAIN block
  BY LastFacts DEF ReaderInv, Standing
<1>2. /\ Here \in Headers /\ walk \in Nat /\ BlockHeaderSize < Here.size
      /\ walk + Here.size <= Last /\ walk + BlockHeaderSize <= HeapEnd
  BY <1>1, HereFacts
<1>3. /\ Here.size \in Nat /\ Here.flags \in {0, BLOCK_FREE}
      /\ Here.shard \in Nat /\ Here.shard < ShardCount
  BY <1>2, LayoutAssumption DEF Headers, Shards
<1>4. Here.size # 0 /\ ~(Here.size < BlockHeaderSize) /\ ~(Here.size > HeapEnd - walk)
  BY <1>2, <1>3, LastFacts, LayoutAssumption
<1>5. QED
  BY <1>1, <1>2, <1>3, <1>4, LayoutAssumption DEF Malformed, Resolves

(* If the shards fill the heap, no step of a statistics or span query      *)
(* reports INVALID_STATE.                                                  *)
LEMMA SuccessStep ==
  ASSUME SystemInv, NoTail, ReadersSucceed, [InspectNext]_inspectVars
  PROVE  ReadersSucceed'
<1>1. CASE UNCHANGED reader
  BY <1>1 DEF reader, ReadersSucceed
<1>2. CASE Inspect
  <2>1. walk < HeapEnd => ~Malformed
    BY WellFormed, LastFacts
  <2>2. CASE report' = report
    BY <2>2 DEF ReadersSucceed
  <2>3. ASSUME NEW code, NEW value, Report(code, value),
               task = "validate" \/ code # "INVALID_STATE"
        PROVE  ReadersSucceed'
    BY <2>3 DEF Report, ReadersSucceed
  <2>4. CASE ValidateBlock \/ ListBlock \/ ListDone
    BY <2>2, <2>3, <2>4
       DEF ValidateBlock, ListBlock, ListDone, Walking, Listing, Advance
  <2>5. CASE StatsBlock \/ SpanBlock
    BY <2>1, <2>2, <2>3, <2>5 DEF StatsBlock, SpanBlock, Walking, Advance
  <2>6. CASE StatsDone \/ SpanDone
    BY <2>3, <2>6 DEF StatsDone, SpanDone
  <2>7. QED
    BY <1>2, <2>2, <2>4, <2>5, <2>6 DEF Inspect, Begin, ValidateLists
<1>3. QED  BY <1>1, <1>2 DEF InspectNext, Mutate, inspectVars

(* allocator_get_stats and allocator_get_allocation_span never take a heap *)
(* for corrupt that other threads are changing, if the shards fill it.     *)
THEOREM InspectReadersSucceed ==
  ASSUME RequestsFit, NoTail
  PROVE  InspectSpec => []ReadersSucceed
<1>1. InspectInit => ReadersSucceed
  BY DEF InspectInit, ReadersSucceed
<1>2. SystemInv /\ ReadersSucceed /\ [InspectNext]_inspectVars => ReadersSucceed'
  BY SuccessStep
<1>3. QED  BY <1>1, <1>2, InspectInvariant, PTL DEF InspectSpec

-----------------------------------------------------------------------------
(* Blocks that clients hold are not missed.                                *)

(* Blocks do not reach into an allocated one: while a block is being       *)
(* split, only the free remainder lies inside of its old size.             *)
LEMMA NoOverlap ==
  ASSUME IInv, Support, NEW b \in DOMAIN block, NEW c \in DOMAIN block,
         block[c].flags = 0, b < c
  PROVE  b + block[b].size <= c
<1> SUFFICES ASSUME ~(b + block[b].size <= c) PROVE FALSE
  OBVIOUS
<1>1. b \in Nat /\ c \in Nat /\ block[b].size \in Nat
  BY DEF IInv, TypeOK, Headers
<1>2. PICK t \in Threads : pc[t] = "take" /\ current[t] = b
  BY DEF IInv, HeapInv, BlocksDisjoint
<1>3. block[c].flags = BLOCK_FREE
  BY <1>1, <1>2 DEF Support, InteriorFree
<1>4. QED  BY <1>3 DEF BLOCK_FREE

LEMMA NoOverlapBehind ==
  ASSUME IInv, NEW b \in DOMAIN block, NEW c \in DOMAIN block,
         block[b].flags = 0, b < c
  PROVE  b + block[b].size <= c
<1> SUFFICES ASSUME ~(b + block[b].size <= c) PROVE FALSE
  OBVIOUS
<1>1. PICK t \in Threads : pc[t] = "take" /\ current[t] = b
  BY DEF IInv, HeapInv, BlocksDisjoint
<1>2. QED  BY <1>1 DEF IInv, CallsSound, FlightSound, BLOCK_FREE

LEMMA HeldFacts ==
  ASSUME SystemInv, OwnedFrees, NEW c \in held
  PROVE  /\ c \in DOMAIN block /\ c \in DOMAIN live /\ c \in Nat
         /\ block[c].flags = 0 /\ block[c].payload_offset = issued[c]
         /\ issued[c] \in Nat \ {0}
         /\ block[c].size \in Nat \ {0} /\ c + block[c].size <= Last
         /\ HeapOffset <= c
<1> USE DEF SystemInv
<1>1. c \in DOMAIN live /\ c \in DOMAIN block /\ c \in Nat
  BY DEF ReaderInv, InspectTypeOK, IInv, TypeOK
<1>2. block[c].flags = 0 /\ block[c].payload_offset = issued[c]
  <2>1. block[c].flags = 0
    BY <1>1 DEF IInv, OwnershipSound, LiveIntact
  <2>2. ~MidStore(c)
    BY <1>1, <2>1 DEF MidStore, IInv, OwnershipSound, CallsSound, FlightSound,
                      BLOCK_FREE
  <2>3. QED  BY <1>1, <2>1, <2>2 DEF Support, PayloadSound
<1>3. issued[c] \in Nat \ {0}
  BY <1>1 DEF IInv, OwnershipSound, TypeOK
<1>4. /\ block[c] \in Headers /\ MinBlockSize <= block[c].size
      /\ c + block[c].size <= ShardEnd(block[c].shard)
      /\ c \in Heap
  BY <1>1, BlockFacts DEF IInv, HeapInv
<1>5. /\ block[c].size \in Nat \ {0} /\ block[c].shard \in Shards
  BY <1>4, MinBlockFacts DEF Headers
<1>6. c + block[c].size <= Last
  BY <1>1, <1>4, <1>5, LastFacts, ShardFacts
<1>7. QED  BY <1>1, <1>2, <1>3, <1>4, <1>5, <1>6, LayoutAssumption DEF Heap

\* The walk of a span query has not passed a block that its client holds.
NotPassed == task = "span" /\ target \in held => walk <= target

(* The walk recognises the block it looks for when it stands on it, and no *)
(* block in front of it.                                                   *)
LEMMA TargetFacts ==
  ASSUME SystemInv, OwnedFrees, NotPassed, task = "span", target \in held
  PROVE  /\ walk \in DOMAIN block /\ walk < Last
         /\ IsTarget <=> walk = target
         /\ walk # target => walk + Here.size <= target
<1> USE DEF SystemInv
<1>1. /\ target \in DOMAIN block /\ target \in Nat /\ block[target].flags = 0
      /\ block[target].payload_offset = issued[target]
      /\ issued[target] \in Nat \ {0}
      /\ block[target].size \in Nat \ {0} /\ target + block[target].size <= Last
  BY HeldFacts
<1>2. walk <= target /\ walk < Last
  BY <1>1, LastFacts, LayoutAssumption DEF NotPassed, ReaderInv, InspectTypeOK
<1>3. walk \in DOMAIN block
  BY <1>2, WellFormed
<1>4. Here = block[walk] /\ Here \in Headers /\ walk \in Nat
  BY <1>3, HereFacts
<1>5. CASE walk = target
  BY <1>1, <1>3, <1>4, <1>5, <1>2 DEF IsTarget
<1>6. CASE walk # target
  <2>1. walk < target
    BY <1>1, <1>2, <1>4, <1>6
  <2>2. walk + Here.size <= target
    BY <1>1, <1>3, <1>4, <2>1, NoOverlap
  <2>3. Here.payload_offset <= Here.size
    BY <1>3, <1>4 DEF Support, PayloadSound
  <2>4. walk + Here.payload_offset # target + issued[target]
    BY <1>1, <1>4, <2>2, <2>3 DEF Headers
  <2>5. QED  BY <1>2, <1>3, <1>6, <2>2, <2>4 DEF IsTarget
<1>7. QED  BY <1>5, <1>6

LEMMA NotPassedStep ==
  ASSUME SystemInv, OwnedFrees, NotPassed, [InspectNext]_inspectVars
  PROVE  NotPassed'
<1>1. CASE UNCHANGED <<task, target, walk>> /\ held' \subseteq held
  BY <1>1 DEF NotPassed
<1>2. CASE \E op \in Tasks, b \in Nat : Begin(op, b)
  <2>1. PICK op \in Tasks, b \in Nat : Begin(op, b)
    BY <1>2
  <2>2. walk = HeapOffset /\ walk' = walk /\ target' = b /\ held' = DOMAIN live
    BY <2>1 DEF Begin, SystemInv, ReaderInv, Fresh
  <2>3. ASSUME b \in DOMAIN live PROVE b \in Heap
    BY <2>3, BlockFacts DEF SystemInv, IInv, TypeOK, HeapInv
  <2>4. QED
    BY <2>2, <2>3, LayoutAssumption DEF NotPassed, Heap
<1>3. CASE task' = "none"
  BY <1>3 DEF NotPassed
<1>4. CASE SpanBlock /\ task' # "none"
  <2>1. /\ walk' = walk + Here.size /\ task = "span" /\ target' = target
        /\ held' = held /\ ~IsTarget
    BY <1>4 DEF SpanBlock, Walking, Report, Advance
  <2>2. QED  BY <2>1, TargetFacts DEF NotPassed
<1>5. CASE task' # "span"
  BY <1>5 DEF NotPassed
<1>6. CASE StatsBlock \/ ValidateBlock \/ ValidateLists \/ ListBlock \/ ListDone
  BY <1>6, <1>3, <1>5
     DEF StatsBlock, ValidateBlock, ValidateLists, ListBlock, ListDone,
         Walking, Past, Listing, Report, Advance
<1>7. CASE StatsDone \/ SpanDone
  BY <1>3, <1>7 DEF StatsDone, SpanDone, Report
<1>8. Null \in Nat /\ DOMAIN block \subseteq Nat
  BY DEF Null, SystemInv, IInv, TypeOK
<1>9. QED
  BY <1>1, <1>2, <1>3, <1>4, <1>6, <1>7, <1>8
     DEF InspectNext, Mutate, Inspect, inspectVars, reader, Tasks

(* allocator_get_allocation_span finds every allocation that its client    *)
(* keeps during the call, with the right span.                             *)
THEOREM InspectHeldSpansFound ==
  ASSUME RequestsFit, OwnedFrees
  PROVE  InspectSpec => HeldSpansFound
<1> DEFINE Found ==
      task = "span" /\ task' = "none" /\ target \in held =>
        /\ report'.status = "OK"
        /\ report'.value = block[target].size - block[target].payload_offset
<1>1. InspectInit => NotPassed
  BY DEF InspectInit, NotPassed
<1>2. SystemInv /\ NotPassed /\ [InspectNext]_inspectVars => NotPassed'
  BY NotPassedStep
<1>3. ASSUME SystemInv, NotPassed, [InspectNext]_inspectVars PROVE Found
  <2> SUFFICES ASSUME task = "span", task' = "none", target \in held
               PROVE  /\ report'.status = "OK"
                      /\ report'.value =
                           block[target].size - block[target].payload_offset
    OBVIOUS
  <2>1. SpanBlock \/ SpanDone
    BY <1>3
       DEF InspectNext, Mutate, Inspect, inspectVars, reader, Begin, StatsBlock,
           StatsDone, ValidateBlock, ValidateLists, ListBlock, ListDone,
           Walking, Past, Listing
  <2>2. /\ walk \in DOMAIN block /\ walk < Last
        /\ IsTarget <=> walk = target
    BY <1>3, TargetFacts
  <2>3. ~SpanDone
    BY <1>3, <2>2, LastFacts, LayoutAssumption
       DEF SpanDone, Past, SystemInv, ReaderInv, InspectTypeOK
  <2>4. IsTarget /\ Report("OK", Here.size - Here.payload_offset)
    BY <1>3, <2>1, <2>2, <2>3, WellFormed DEF SpanBlock, Advance
  <2>5. Here = block[target]
    BY <2>2, <2>4 DEF Here, Fetch
  <2>6. QED  BY <2>4, <2>5 DEF Report
<1>4. SystemInv /\ NotPassed /\ [InspectNext]_inspectVars => [Found]_inspectVars
  BY <1>3
<1>5. QED
  BY <1>1, <1>2, <1>4, InspectInvariant, PTL DEF InspectSpec, HeldSpansFound

-----------------------------------------------------------------------------
(* allocator_get_stats counts what clients hold.                           *)

\* The units of held blocks that the walk has passed.
Passed == {x \in Extent(held) : x < walk}
Counted == task = "stats" => Cardinality(Passed) <= used_bytes

LEMMA PassedFinite == IsFiniteSet(HeapOffset .. HeapEnd)
<1>1. HeapOffset \in Int /\ HeapEnd \in Int
  BY LastFacts, LayoutAssumption
<1>2. QED  BY <1>1, FS_Interval

(* Steps that leave the walk where it is add nothing to what it passed.    *)
LEMMA CountedStays ==
  ASSUME Counted, used_bytes' = used_bytes, task' = task, used_bytes \in Nat,
         Passed' \subseteq Passed
  PROVE  Counted'
<1>1. Passed \in SUBSET (HeapOffset .. HeapEnd)
  BY DEF Passed, Extent
<1>2. IsFiniteSet(Passed)
  BY <1>1, PassedFinite, FS_Subset
<1>3. IsFiniteSet(Passed') /\ Cardinality(Passed') <= Cardinality(Passed)
  BY <1>2, FS_Subset
<1>4. Cardinality(Passed) \in Nat /\ Cardinality(Passed') \in Nat
  BY <1>2, <1>3, FS_CardinalityType
<1>5. Counted' <=> (task' = "stats" => Cardinality(Passed') <= used_bytes')
  BY DEF Counted
<1>6. QED  BY <1>3, <1>4, <1>5 DEF Counted

(* A block that is marked free holds no unit of a held block.              *)
LEMMA FreeCountsNothing ==
  ASSUME SystemInv, OwnedFrees, walk \in DOMAIN block,
         NEW x \in Extent(held), walk <= x, x < walk + Here.size
  PROVE  Here.flags = 0
<1> USE DEF SystemInv
<1>1. PICK c \in held : c <= x /\ x < c + block[c].size
  BY DEF Extent
<1>2. /\ c \in DOMAIN block /\ c \in Nat /\ block[c].flags = 0
      /\ block[c].size \in Nat
  BY HeldFacts
<1>3. Here = block[walk] /\ Here \in Headers /\ walk \in Nat /\ x \in Int
  BY HereFacts, LastFacts, LayoutAssumption DEF Extent
<1>4. ~(c < walk)
  BY <1>1, <1>2, <1>3, NoOverlapBehind
<1>5. ~(walk < c)
  BY <1>1, <1>2, <1>3, NoOverlap DEF Headers
<1>6. c = walk
  BY <1>2, <1>3, <1>4, <1>5
<1>7. QED  BY <1>2, <1>3, <1>6

LEMMA CountedAdvance ==
  ASSUME SystemInv, OwnedFrees, Counted, task = "stats", walk \in DOMAIN block,
         Advance(0, Use)
  PROVE  Counted'
<1> USE DEF SystemInv
<1>1. /\ Here \in Headers /\ walk \in Nat /\ Here.size \in Nat /\ Here.size # 0
      /\ walk + Here.size <= Last
  BY HereFacts, LayoutAssumption DEF Headers
<1>2. PICK w, n \in Nat : w = walk /\ n = Here.size /\ n # 0
  BY <1>1
<1>3. used_bytes \in Nat /\ used_bytes' = used_bytes + Use /\ walk' = w + n
  BY <1>2 DEF Advance, ReaderInv, InspectTypeOK
<1>4. Extent(held)' = Extent(held)
  BY DEF Advance, vars, shared, Extent
<1>5. Passed' = {x \in Extent(held) : x < w + n}
  BY <1>3, <1>4 DEF Passed
<1>6. Extent(held) \subseteq HeapOffset .. HeapEnd
  BY DEF Extent
<1>7. /\ IsFiniteSet(Passed) /\ IsFiniteSet(Passed')
      /\ Cardinality(Passed) \in Nat /\ Cardinality(Passed') \in Nat
  <2>1. Passed \in SUBSET (HeapOffset .. HeapEnd)
        /\ Passed' \in SUBSET (HeapOffset .. HeapEnd)
    BY <1>5, <1>6 DEF Passed
  <2>2. QED  BY <2>1, PassedFinite, FS_Subset, FS_CardinalityType
<1>8. Cardinality(Passed') <= used_bytes + Use
  <2>1. CASE Here.flags = 0
    <3>1. /\ IsFiniteSet(w .. w + n - 1) /\ Cardinality(w .. w + n - 1) = n
      <4>1. w \in Int /\ w + n - 1 \in Int /\ ~(w > w + n - 1)
            /\ (w + n - 1) - w + 1 = n
        BY <1>2
      <4>2. QED  BY <4>1, FS_Interval
    <3>2. /\ IsFiniteSet(Passed \cup (w .. w + n - 1))
          /\ Cardinality(Passed \cup (w .. w + n - 1)) =
               Cardinality(Passed) + Cardinality(w .. w + n - 1)
                 - Cardinality(Passed \cap (w .. w + n - 1))
      BY <1>7, <3>1, FS_Union
    <3>3. Cardinality(Passed \cap (w .. w + n - 1)) \in Nat
      BY <1>7, FS_Intersection, FS_CardinalityType
    <3>4. Passed' \in SUBSET (Passed \cup (w .. w + n - 1))
      BY <1>2, <1>5, <1>6, LastFacts, LayoutAssumption DEF Passed
    <3>5. Cardinality(Passed') <= Cardinality(Passed \cup (w .. w + n - 1))
      BY <3>2, <3>4, FS_Subset
    <3>6. Use = n
      BY <1>2, <2>1 DEF Use, BLOCK_FREE
    <3>7. Cardinality(Passed) <= used_bytes
      BY DEF Counted
    <3>8. PICK p, q, u \in Nat : /\ p = Cardinality(Passed) /\ u = used_bytes
                                 /\ q = Cardinality(Passed \cap (w .. w + n - 1))
      BY <1>3, <1>7, <3>3
    <3>9. Cardinality(Passed') <= p + n - q /\ p <= u
      BY <3>1, <3>2, <3>5, <3>7, <3>8
    <3>10. PICK r \in Nat : r = Cardinality(Passed')
      BY <1>7
    <3>11. r <= u + n
      BY <1>2, <3>8, <3>9, <3>10
    <3>12. QED  BY <3>6, <3>8, <3>10, <3>11
  <2>2. CASE Here.flags # 0
    <3>1. Passed' \subseteq Passed
      <4>1. SUFFICES ASSUME NEW x \in Extent(held), x < w + n, ~(x < w)
                     PROVE  FALSE
        BY <1>2, <1>5 DEF Passed
      <4>2. walk <= x /\ x < walk + Here.size
        BY <1>2, <1>6, <4>1, LastFacts, LayoutAssumption
      <4>3. QED  BY <2>2, <4>1, <4>2, FreeCountsNothing
    <3>2. Use = 0
      BY <1>1, <2>2 DEF Use, Headers
    <3>3. Cardinality(Passed') <= Cardinality(Passed)
      BY <1>7, <3>1, FS_Subset
    <3>4. QED  BY <1>3, <1>7, <3>2, <3>3 DEF Counted
  <2>3. QED  BY <2>1, <2>2
<1>9. Counted' <=> (task' = "stats" => Cardinality(Passed') <= used_bytes')
  BY DEF Counted
<1>10. QED  BY <1>3, <1>8, <1>9

LEMMA CountedStep ==
  ASSUME SystemInv, RequestsFit, OwnedFrees, Counted, [InspectNext]_inspectVars
  PROVE  Counted'
<1> USE DEF SystemInv
<1>1. CASE task' # "stats"
  BY <1>1 DEF Counted
<1>2. CASE UNCHANGED reader /\ held' \subseteq held
  <2>1. ASSUME NEW b \in held PROVE block'[b] = block[b]
    BY <2>1, HeldStep, StepIsAllocator DEF ReaderInv, InspectTypeOK
  <2>2. Passed' \subseteq Passed
    BY <1>2, <2>1 DEF Passed, Extent, reader
  <2>3. QED
    BY <1>2, <2>2, CountedStays DEF reader, ReaderInv, InspectTypeOK
<1>3. CASE \E op \in Tasks, b \in Nat : Begin(op, b)
  <2>1. used_bytes' = 0 /\ walk' = HeapOffset
    BY <1>3 DEF Begin, ReaderInv, Fresh
  <2>2. Passed' = {}
    BY <2>1, LastFacts, LayoutAssumption DEF Passed, Extent
  <2>3. Cardinality(Passed') = 0
    BY <2>2, FS_EmptySet
  <2>4. Counted' <=> (task' = "stats" => Cardinality(Passed') <= used_bytes')
    BY DEF Counted
  <2>5. QED  BY <2>1, <2>3, <2>4
<1>4. CASE StatsBlock /\ task' = "stats"
  <2>1. Advance(0, Use) /\ task = "stats" /\ ~Malformed
    BY <1>4 DEF StatsBlock, Walking, Report
  <2>2. walk \in DOMAIN block
    <3> SUFFICES ASSUME walk \notin DOMAIN block PROVE FALSE
      OBVIOUS
    <3>1. QED  BY <2>1 DEF Malformed, Here, Fetch, Header
  <2>3. QED  BY <2>1, <2>2, CountedAdvance
<1>5. Null \in Nat /\ DOMAIN block \subseteq Nat
  BY DEF Null, IInv, TypeOK
<1>6. CASE Inspect
  BY <1>1, <1>3, <1>4, <1>5, <1>6
     DEF Inspect, StatsDone, SpanBlock, SpanDone, ValidateBlock, ValidateLists,
         ListBlock, ListDone, Walking, Past, Listing, Report, Advance, Tasks
<1>7. QED
  BY <1>2, <1>6 DEF InspectNext, Mutate, inspectVars

(* allocator_get_stats reports at least the memory of the blocks that      *)
(* clients keep while it walks.                                            *)
THEOREM InspectStatsCoverHeld ==
  ASSUME RequestsFit, OwnedFrees
  PROVE  InspectSpec => []StatsCoverHeld
<1>1. InspectInit => Counted
  BY DEF InspectInit, Counted
<1>2. SystemInv /\ Counted /\ [InspectNext]_inspectVars => Counted'
  BY CountedStep
<1>3. ASSUME SystemInv, Counted, Past("stats")
      PROVE  used_bytes >= Cardinality(Extent(held))
  <2>1. walk >= HeapEnd /\ walk \in Int /\ HeapEnd \in Int /\ Last <= HeapEnd
        /\ Last \in Int
    BY <1>3, LastFacts, LayoutAssumption DEF Past, SystemInv, ReaderInv, InspectTypeOK
  <2>2. ASSUME NEW x \in Extent(held) PROVE x < walk
    <3>1. PICK c \in held : c <= x /\ x < c + block[c].size
      BY DEF Extent
    <3>2. c \in Nat /\ block[c].size \in Nat /\ c + block[c].size <= Last
      BY <1>3, HeldFacts
    <3>3. x \in Int
      BY <2>1, LayoutAssumption DEF Extent
    <3>4. QED  BY <2>1, <3>1, <3>2, <3>3
  <2>3. Passed = Extent(held)
    BY <2>2 DEF Passed
  <2>4. Cardinality(Passed) <= used_bytes
    BY <1>3 DEF Counted, Past
  <2>5. IsFiniteSet(Passed)
    <3>1. Passed \in SUBSET (HeapOffset .. HeapEnd)
      BY DEF Passed, Extent
    <3>2. QED  BY <3>1, PassedFinite, FS_Subset
  <2>6. Cardinality(Passed) \in Nat /\ used_bytes \in Nat
    BY <1>3, <2>5, FS_CardinalityType DEF SystemInv, ReaderInv, InspectTypeOK
  <2>7. QED  BY <2>3, <2>4, <2>6
<1>4. SystemInv /\ Counted => StatsCoverHeld
  BY <1>3 DEF StatsCoverHeld
<1>5. QED  BY <1>1, <1>2, <1>4, InspectInvariant, PTL DEF InspectSpec

-----------------------------------------------------------------------------
(* allocator_validate accepts a heap that nobody changes.                  *)

\* Nobody has been in a call since a walk that is calm began.
Undisturbed == calm /\ task # "none" => \A t \in Threads : pc[t] = "idle"

\* allocator_validate has counted the blocks it passed ...
CountsBlocks ==
  calm /\ task = "validate" /\ phase = "heap" =>
    block_count = Cardinality({b \in DOMAIN block : b < walk})

\* ... and counts them down along the free lists.  V are the blocks that the
\* cursor has visited: each was reached by a head or from another of them, and
\* the cursor stands on none of them.
Visited(V) ==
  /\ V \subseteq DOMAIN block
  /\ Cardinality(V) + block_count = Cardinality(DOMAIN block)
  /\ \A v \in V :
       /\ Linked(v) /\ block[v].shard <= shard
       /\ \/ \E s \in Shards : heads[s] = v
          \/ \E u \in V : block[u].next_free = v
  /\ free_cursor # Null =>
       /\ Linked(free_cursor) /\ block[free_cursor].shard = shard
       /\ free_cursor \notin V
       /\ \/ \E s \in Shards : heads[s] = free_cursor
          \/ \E u \in V : block[u].next_free = free_cursor
CountsDown == calm /\ Listing => \E V : Visited(V)

CalmInv == Undisturbed /\ CountsBlocks /\ CountsDown

LEMMA BlocksFinite ==
  ASSUME IInv
  PROVE  /\ IsFiniteSet(DOMAIN block)
         /\ \A V \in SUBSET DOMAIN block :
              IsFiniteSet(V) /\ Cardinality(V) \in Nat
<1>1. DOMAIN block \in SUBSET (HeapOffset .. HeapEnd)
  BY BlockFacts DEF IInv, HeapInv, Heap, HeapEnd
<1>2. QED  BY <1>1, PassedFinite, FS_Subset, FS_CardinalityType

(* Behind a block, the next one starts where it ends.                      *)
LEMMA CalmAdvance ==
  ASSUME SystemInv, CalmInv, calm, task = "validate", phase = "heap",
         walk \in DOMAIN block, Advance(1, 0)
  PROVE  CountsBlocks'
<1> USE DEF SystemInv, CalmInv
<1>1. PICK w, n \in Nat : w = walk /\ n = Here.size /\ n # 0 /\ n = block[w].size
                          /\ w \in DOMAIN block
  BY HereFacts, LayoutAssumption DEF Headers
<1>2. /\ walk' = w + n /\ block_count' = block_count + 1 /\ block' = block
  BY <1>1 DEF Advance, vars, shared
<1> DEFINE B == {b \in DOMAIN block : b < w}
<1>3. {b \in DOMAIN block' : b < walk'} = B \cup {w}
  <2>1. ASSUME NEW b \in DOMAIN block, b < w + n, ~(b < w) PROVE b = w
    <3>1. b \in Nat
      BY DEF IInv, TypeOK
    <3>2. ~(w < b)
      <4> SUFFICES ASSUME w < b PROVE FALSE
        OBVIOUS
      <4>1. PICK t \in Threads : pc[t] = "take"
        BY <1>1, <2>1, <3>1 DEF IInv, HeapInv, BlocksDisjoint
      <4>2. QED  BY <4>1 DEF Undisturbed
    <3>3. QED  BY <1>1, <2>1, <3>1, <3>2
  <2>2. ASSUME NEW b \in DOMAIN block, b < w PROVE b < w + n
    BY <1>1, <2>2 DEF IInv, TypeOK
  <2>3. w < w + n
    BY <1>1
  <2>4. QED  BY <1>1, <1>2, <2>1, <2>2, <2>3
<1>4. IsFiniteSet(B) /\ Cardinality(B) \in Nat
  BY BlocksFinite
<1>5. w \notin B
  BY <1>1
<1>6. Cardinality(B \cup {w}) = Cardinality(B) + 1
  BY <1>4, <1>5, FS_AddElement
<1>7. block_count = Cardinality(B)
  BY <1>1 DEF CountsBlocks
<1>8. block_count' = Cardinality({b \in DOMAIN block' : b < walk'})
  BY <1>2, <1>3, <1>6, <1>7
<1>9. QED  BY <1>8 DEF CountsBlocks

(* The walk over the heap has counted every block.                         *)
LEMMA CalmLists ==
  ASSUME SystemInv, CalmInv, ValidateLists
  PROVE  CountsDown'
<1> SUFFICES ASSUME calm PROVE \E V : Visited(V)'
  BY DEF CountsDown, ValidateLists
<1> USE DEF SystemInv, CalmInv
<1>1. /\ task = "validate" /\ phase = "heap" /\ walk >= HeapEnd
      /\ block_count' = block_count /\ free_cursor' = heads[0] /\ shard' = 0
      /\ block' = block /\ heads' = heads /\ pc' = pc /\ current' = current
  BY DEF ValidateLists, Past, vars, shared, locals
<1>2. {b \in DOMAIN block : b < walk} = DOMAIN block
  <2>1. ASSUME NEW b \in DOMAIN block PROVE b < walk
    <3>1. /\ b \in Nat /\ block[b] \in Headers /\ MinBlockSize <= block[b].size
          /\ b + block[b].size <= ShardEnd(block[b].shard)
      BY BlockFacts DEF IInv, HeapInv, TypeOK
    <3>2. ShardEnd(block[b].shard) <= HeapEnd /\ ShardEnd(block[b].shard) \in Nat
          /\ HeapEnd \in Nat
      BY <3>1, ShardFacts, LastFacts DEF Headers, HeapEnd
    <3>3. walk \in Int /\ block[b].size \in Nat
      BY <3>1, LastFacts, LayoutAssumption DEF ReaderInv, InspectTypeOK, Headers
    <3>4. QED  BY <1>1, <3>1, <3>2, <3>3, MinBlockFacts
  <2>2. QED  BY <2>1
<1>3. block_count = Cardinality(DOMAIN block)
  BY <1>1, <1>2 DEF CountsBlocks
<1>4. Cardinality({}) + block_count' = Cardinality(DOMAIN block')
  BY <1>1, <1>3, BlocksFinite, FS_EmptySet
<1>5. \A b : Linked(b)' <=> Linked(b)
  BY <1>1 DEF Linked, InFlight, Handling
<1>6. 0 \in Shards
  BY LastFacts
<1>7. free_cursor' # Null =>
        Linked(free_cursor)' /\ block'[free_cursor'].shard = shard'
  BY <1>1, <1>5, <1>6 DEF IInv, HeapInv, FreeListsSound
<1>8. Visited({})'
  BY <1>1, <1>4, <1>6, <1>7 DEF Visited
<1>9. QED  BY <1>8

(* A cursor that has not visited all blocks stands on a good one.          *)
LEMMA CalmCursor ==
  ASSUME SystemInv, NEW V, Visited(V), free_cursor # Null
  PROVE  ~ListBroken
<1> USE DEF SystemInv
<1>1. PICK c \in DOMAIN block : c = free_cursor /\ Linked(c) /\ c \notin V
                               /\ block[c].shard = shard
  BY DEF Visited, Linked
<1>2. block_count # 0
  <2> SUFFICES ASSUME block_count = 0 PROVE FALSE
    OBVIOUS
  <2>1. V \in SUBSET DOMAIN block /\ Cardinality(V) \in Nat
        /\ IsFiniteSet(DOMAIN block)
    BY BlocksFinite DEF Visited
  <2>2. Cardinality(DOMAIN block) = Cardinality(V)
    BY <2>1 DEF Visited
  <2>3. QED  BY <1>1, <2>1, <2>2, FS_Subset
<1>3. /\ c \in Nat /\ block[c] \in Headers /\ MinBlockSize <= block[c].size
      /\ c + block[c].size <= ShardEnd(shard) /\ ShardStart(shard) <= c
      /\ shard \in Shards
  BY <1>1, BlockFacts DEF IInv, HeapInv, TypeOK, ReaderInv, InspectTypeOK
<1>4. /\ ShardEnd(shard) \in Nat /\ ShardStart(shard) \in Nat
      /\ ShardEnd(shard) <= HeapEnd
  BY <1>3, ShardFacts DEF HeapEnd
<1>5. block[c].size \in Nat /\ BlockHeaderSize < block[c].size
  BY <1>3, LayoutAssumption DEF Headers, MinBlockSize
<1>6. ~(c < ShardStart(shard)) /\ ~(c >= ShardEnd(shard)) /\ Resolves(c)
  BY <1>3, <1>4, <1>5, LastFacts, LayoutAssumption DEF Resolves
<1>7. Fetch(c) = block[c] /\ block[c].flags = BLOCK_FREE
  BY <1>1 DEF Fetch, Linked
<1>8. QED  BY <1>1, <1>2, <1>6, <1>7 DEF ListBroken

(* The cursor moves on to a block that it has not visited: no block has    *)
(* two links to it.                                                        *)
LEMMA CalmListBlock ==
  ASSUME SystemInv, NEW V, Visited(V), ListBlock, ~ListBroken
  PROVE  \E W : Visited(W)'
<1> USE DEF SystemInv
<1>1. PICK c \in DOMAIN block : c = free_cursor /\ Linked(c) /\ c \notin V
                               /\ block[c].shard = shard /\ c # Null
  BY DEF ListBlock, Visited, Linked
<1>2. PICK n \in Nat : n = block[c].next_free
  BY DEF IInv, TypeOK, Headers
<1>3. /\ free_cursor' = n /\ block_count' = block_count - 1 /\ shard' = shard
      /\ block' = block /\ heads' = heads /\ pc' = pc /\ current' = current
  BY <1>1, <1>2 DEF ListBlock, Fetch, vars, shared, locals
<1>4. \A b : Linked(b)' <=> Linked(b)
  BY <1>3 DEF Linked, InFlight, Handling
<1>5. PICK W : W = V \cup {c}
  OBVIOUS
<1>6. Cardinality(W) + (block_count - 1) = Cardinality(DOMAIN block)
  <2>1. IsFiniteSet(V) /\ Cardinality(V) \in Nat
    BY BlocksFinite DEF Visited
  <2>2. Cardinality(W) = Cardinality(V) + 1
    BY <1>1, <1>5, <2>1, FS_AddElement
  <2>3. block_count \in Nat
    BY DEF ReaderInv, InspectTypeOK
  <2>4. QED  BY <2>1, <2>2, <2>3 DEF Visited
<1>7. ASSUME NEW v \in W
      PROVE  /\ Linked(v) /\ block[v].shard <= shard
             /\ \/ \E s \in Shards : heads[s] = v
                \/ \E u \in W : block[u].next_free = v
  <2>1. CASE v \in V
    BY <1>5, <2>1 DEF Visited
  <2>2. CASE v = c
    <3>1. shard <= shard
      BY DEF ReaderInv, InspectTypeOK, Shards
    <3>2. QED  BY <1>1, <1>5, <2>2, <3>1 DEF Visited
  <2>3. QED  BY <1>5, <2>1, <2>2
<1>8. ASSUME n # Null
      PROVE  /\ Linked(n) /\ block[n].shard = shard /\ n \notin W
             /\ \E u \in W : block[u].next_free = n
  <2>1. /\ Linked(n) /\ block[n].shard = shard
        /\ \A s \in Shards : heads[s] # n
        /\ \A b \in DOMAIN block : Linked(b) /\ block[b].next_free = n => b = c
    BY <1>1, <1>2, <1>8 DEF IInv, HeapInv, FreeListsSound
  <2>2. n \notin W
    <3> SUFFICES ASSUME n \in W PROVE FALSE
      OBVIOUS
    <3>1. PICK u \in V : block[u].next_free = n
      BY <1>1, <1>5, <2>1 DEF Visited
    <3>2. u = c
      BY <2>1, <3>1 DEF Visited
    <3>3. QED  BY <1>1, <3>1, <3>2
  <2>3. QED  BY <1>2, <1>5, <2>1, <2>2
<1>9. W \subseteq DOMAIN block
  BY <1>1, <1>5 DEF Visited
<1>10. Visited(W)'
  BY <1>3, <1>4, <1>6, <1>7, <1>8, <1>9 DEF Visited
<1>11. QED  BY <1>10

(* The next shard's list holds none of the blocks visited so far.          *)
LEMMA CalmListDone ==
  ASSUME SystemInv, NEW V, Visited(V), ListDone, shard + 1 # ShardCount
  PROVE  Visited(V)'
<1> USE DEF SystemInv
<1>1. PICK r \in Shards : r = shard + 1
  BY LayoutAssumption DEF ReaderInv, InspectTypeOK, Shards
<1>2. /\ free_cursor' = heads[r] /\ block_count' = block_count /\ shard' = r
      /\ block' = block /\ heads' = heads /\ pc' = pc /\ current' = current
  BY <1>1 DEF ListDone, vars, shared, locals
<1>3. \A b : Linked(b)' <=> Linked(b)
  BY <1>2 DEF Linked, InFlight, Handling
<1>4. ASSUME NEW v \in V PROVE block[v].shard <= r /\ block[v].shard # r
  <2>1. block[v].shard \in Shards /\ block[v].shard <= shard /\ shard \in Shards
    BY DEF Visited, IInv, TypeOK, Headers, ReaderInv, InspectTypeOK
  <2>2. QED  BY <1>1, <2>1 DEF Shards
<1>5. heads[r] # Null => Linked(heads[r]) /\ block[heads[r]].shard = r
  BY DEF IInv, HeapInv, FreeListsSound
<1>6. QED  BY <1>2, <1>3, <1>4, <1>5 DEF Visited

LEMMA CalmStep ==
  ASSUME SystemInv, NoTail, CalmInv, [InspectNext]_inspectVars
  PROVE  CalmInv'
<1> USE DEF SystemInv
<1>1. CASE ~calm' \/ task' = "none"
  BY <1>1 DEF CalmInv, Undisturbed, CountsBlocks, CountsDown, Listing
<1>2. CASE Mutate
  BY <1>1, <1>2 DEF Mutate, reader
<1>3. ASSUME calm, calm', task # "none", UNCHANGED vars
      PROVE  Undisturbed'
  BY <1>3 DEF CalmInv, Undisturbed, vars
<1>4. CASE UNCHANGED inspectVars
  <2>1. Undisturbed' /\ CountsBlocks'
    BY <1>4 DEF CalmInv, Undisturbed, CountsBlocks, inspectVars, reader, vars,
                shared
  <2>2. \A V : Visited(V)' <=> Visited(V)
    BY <1>4 DEF Visited, Linked, InFlight, Handling, inspectVars, reader, vars,
                shared, locals
  <2>3. CountsDown'
    BY <1>4, <2>2 DEF CalmInv, CountsDown, Listing, inspectVars, reader
  <2>4. QED  BY <2>1, <2>3 DEF CalmInv
<1>5. CASE \E op \in Tasks, b \in Nat : Begin(op, b)
  <2>1. /\ phase' = "heap" /\ walk' = HeapOffset /\ block_count' = 0
        /\ UNCHANGED vars /\ calm' = \A t \in Threads : pc[t] = "idle"
    BY <1>5 DEF Begin, ReaderInv, Fresh
  <2>2. Undisturbed'
    BY <2>1 DEF Undisturbed, vars
  <2>3. {b \in DOMAIN block' : b < walk'} = {}
    BY <2>1, BlockFacts, LayoutAssumption
       DEF vars, shared, IInv, HeapInv, Heap
  <2>4. CountsBlocks'
    BY <2>1, <2>3, FS_EmptySet DEF CountsBlocks
  <2>5. CountsDown'
    BY <2>1 DEF CountsDown, Listing
  <2>6. QED  BY <2>2, <2>4, <2>5 DEF CalmInv
<1>6. CASE StatsBlock \/ StatsDone \/ SpanBlock \/ SpanDone
  <2>1. CASE task' = "none"
    BY <1>1, <2>1
  <2>2. CASE task' # "none"
    <3>1. /\ task' = task /\ task' # "validate" /\ task # "none" /\ calm' = calm
          /\ UNCHANGED vars
      BY <1>6, <2>2
         DEF StatsBlock, StatsDone, SpanBlock, SpanDone, Walking, Past, Report,
             Advance
    <3>2. QED
      BY <1>1, <1>3, <3>1 DEF CalmInv, CountsBlocks, CountsDown, Listing
  <2>3. QED  BY <2>1, <2>2
<1>7. CASE ValidateBlock /\ calm' /\ task' # "none"
  <2>1. /\ task = "validate" /\ phase = "heap" /\ walk < HeapEnd
        /\ Advance(1, 0) /\ calm /\ UNCHANGED vars /\ phase' = "heap"
    BY <1>7 DEF ValidateBlock, Walking, Report, Advance
  <2>2. walk \in DOMAIN block
    BY <2>1, WellFormed, LastFacts
  <2>3. CountsBlocks'
    BY <2>1, <2>2, CalmAdvance
  <2>4. CountsDown'
    BY <2>1 DEF CountsDown, Listing
  <2>5. QED  BY <1>3, <1>7, <2>1, <2>3, <2>4 DEF CalmInv
<1>8. CASE ValidateLists /\ calm'
  <2>1. /\ task # "none" /\ calm /\ UNCHANGED vars /\ phase' = "lists"
    BY <1>8 DEF ValidateLists, Past
  <2>2. CountsDown'
    BY <1>8, CalmLists
  <2>3. CountsBlocks'
    BY <2>1 DEF CountsBlocks
  <2>4. QED  BY <1>3, <1>8, <2>1, <2>2, <2>3 DEF CalmInv
<1>9. CASE (ListBlock \/ ListDone) /\ calm' /\ task' # "none"
  <2>1. /\ task # "none" /\ calm /\ UNCHANGED vars /\ phase' = "lists" /\ Listing
    BY <1>9 DEF ListBlock, ListDone, Report, Listing
  <2>2. PICK V : Visited(V)
    BY <2>1 DEF CalmInv, CountsDown
  <2>3. \E W : Visited(W)'
    <3>1. CASE ListBlock
      <4>1. ~ListBroken
        BY <1>9, <3>1 DEF ListBlock, Report
      <4>2. QED  BY <2>2, <3>1, <4>1, CalmListBlock
    <3>2. CASE ListDone
      <4>1. shard + 1 # ShardCount
        BY <1>9, <3>2 DEF ListDone, Report
      <4>2. QED  BY <2>2, <3>2, <4>1, CalmListDone
    <3>3. QED  BY <1>9, <3>1, <3>2
  <2>4. CountsBlocks'
    BY <2>1 DEF CountsBlocks
  <2>5. QED  BY <1>3, <1>9, <2>1, <2>3, <2>4 DEF CalmInv, CountsDown
<1>10. Null \in Nat /\ DOMAIN block \subseteq Nat
  BY DEF Null, IInv, TypeOK
<1>11. QED
  BY <1>1, <1>2, <1>4, <1>5, <1>6, <1>7, <1>8, <1>9, <1>10
     DEF InspectNext, Inspect, Tasks

(* A heap that no call touches meanwhile passes allocator_validate: blocks *)
(* tile it, and each free list comes to its end before the count of blocks *)
(* does.                                                                   *)
THEOREM InspectCalmHeapIsValid ==
  ASSUME RequestsFit, NoTail
  PROVE  InspectSpec => CalmHeapIsValid
<1> DEFINE Accepts ==
      task = "validate" /\ task' = "none" /\ calm => report'.status = "OK"
<1>1. InspectInit => CalmInv
  BY DEF InspectInit, CalmInv, Undisturbed, CountsBlocks, CountsDown, Listing
<1>2. SystemInv /\ CalmInv /\ [InspectNext]_inspectVars => CalmInv'
  BY CalmStep
<1>3. ASSUME SystemInv, CalmInv, [InspectNext]_inspectVars PROVE Accepts
  <2> SUFFICES ASSUME task = "validate", task' = "none", calm
               PROVE  report'.status = "OK"
    OBVIOUS
  <2>1. ValidateBlock \/ ListBlock \/ ListDone
    BY <1>3
       DEF InspectNext, Mutate, Inspect, inspectVars, reader, Begin, StatsBlock,
           StatsDone, SpanBlock, SpanDone, ValidateLists, Walking, Past
  <2>2. ~ValidateBlock
    BY <1>3, WellFormed, LastFacts DEF ValidateBlock, Walking, Advance
  <2>3. ~ListBlock
    <3> SUFFICES ASSUME ListBlock PROVE FALSE
      OBVIOUS
    <3>1. PICK V : Visited(V)
      BY <1>3 DEF ListBlock, CalmInv, CountsDown
    <3>2. ~ListBroken
      BY <1>3, <3>1, CalmCursor DEF ListBlock
    <3>3. QED  BY <3>2 DEF ListBlock
  <2>4. Report("OK", 0)
    BY <2>1, <2>2, <2>3 DEF ListDone
  <2>5. QED  BY <2>4 DEF Report
<1>4. SystemInv /\ CalmInv /\ [InspectNext]_inspectVars => [Accepts]_inspectVars
  BY <1>3
<1>5. QED
  BY <1>1, <1>2, <1>4, InspectInvariant, PTL DEF InspectSpec, CalmHeapIsValid
=============================================================================
