-------------------------- MODULE AllocatorProofs --------------------------
(***************************************************************************)
(* Proofs about Allocator, for any number of threads, shards, any heap and *)
(* any requests that do not wrap size_t.                                   *)
(***************************************************************************)
EXTENDS Allocator, TLAPS

-----------------------------------------------------------------------------
(* Arithmetic.                                                             *)

(* allocator_align_up returns an aligned value that is not below its       *)
(* argument.                                                               *)
LEMMA AlignUpFacts ==
  ASSUME NEW v \in Nat, NEW a \in Nat \ {0}
  PROVE  /\ AlignUp(v, a) \in Nat
         /\ v <= AlignUp(v, a)
         /\ AlignUp(v, a) % a = 0
<1>1. v % a \in 0 .. a - 1 /\ v = a * (v \div a) + (v % a) /\ v \div a \in Nat
  OBVIOUS
<1>2. (a - (v % a)) % a \in 0 .. a - 1
  BY <1>1
<1>3. AlignUp(v, a) \in Nat /\ v <= AlignUp(v, a)
  BY <1>2 DEF AlignUp
<1>4. AlignUp(v, a) % a = 0
  <2> DEFINE q == v \div a
             r == v % a
  <2>1. CASE r = 0
    <3>1. (a - r) % a = 0
      BY <2>1
    <3>2. QED  BY <3>1, <2>1, <1>1 DEF AlignUp
  <2>2. CASE r # 0
    <3>1. a - r \in 0 .. a - 1
      BY <2>2, <1>1
    <3>2. (a - r) % a = a - r
      BY <3>1
    <3>3. AlignUp(v, a) = a * q + a
      BY <3>2, <1>1 DEF AlignUp
    <3>4. a * q + a = a * (q + 1) /\ q + 1 \in Nat
      BY <1>1
    <3>5. (a * (q + 1)) % a = 0
      BY <3>4
    <3>6. QED  BY <3>3, <3>4, <3>5
  <2>3. QED  BY <2>1, <2>2
<1>5. QED  BY <1>3, <1>4

(* allocator_shard_heap_offset: shards are laid out one after the other.   *)
LEMMA ShardFacts ==
  /\ \A s \in Shards : /\ ShardStart(s) \in Nat /\ HeapOffset <= ShardStart(s)
                       /\ ShardEnd(s) = ShardStart(s) + ShardSize
                       /\ ShardEnd(s) \in Nat
                       /\ ShardEnd(s) <= HeapOffset + HeapSize
  /\ \A s, r \in Shards : s < r => ShardEnd(s) <= ShardStart(r)
<1> USE LayoutAssumption, HeapAssumption
<1>1. \A s \in Shards : s \in Nat /\ s + 1 <= ShardCount
  BY DEF Shards
<1>2. \A k, m \in Nat : k <= m => k * ShardSize <= m * ShardSize
  <2> SUFFICES ASSUME NEW k \in Nat, NEW m \in Nat, k <= m
               PROVE  k * ShardSize <= m * ShardSize
    OBVIOUS
  <2>1. m * ShardSize = k * ShardSize + (m - k) * ShardSize
    OBVIOUS
  <2>2. (m - k) * ShardSize \in Nat /\ k * ShardSize \in Nat
    OBVIOUS
  <2>3. QED  BY <2>1, <2>2
<1>3. \A k \in Nat : k * ShardSize \in Nat /\ (k + 1) * ShardSize = k * ShardSize + ShardSize
  OBVIOUS
<1>4. ShardCount * ShardSize <= HeapSize
  BY DEF ShardSize
<1>5. ASSUME NEW s \in Shards
      PROVE  /\ ShardStart(s) \in Nat /\ HeapOffset <= ShardStart(s)
             /\ ShardEnd(s) = ShardStart(s) + ShardSize
             /\ ShardEnd(s) \in Nat
             /\ ShardEnd(s) <= HeapOffset + HeapSize
  <2>1. (s + 1) * ShardSize <= ShardCount * ShardSize
    BY <1>1, <1>2
  <2>2. QED  BY <2>1, <1>1, <1>3, <1>4 DEF ShardStart, ShardEnd
<1>6. ASSUME NEW s \in Shards, NEW r \in Shards, s < r
      PROVE  ShardEnd(s) <= ShardStart(r)
  <2>1. (s + 1) * ShardSize <= r * ShardSize
    BY <1>6, <1>1, <1>2
  <2>2. r * ShardSize \in Nat
    BY <1>1, <1>3
  <2>3. QED  BY <2>1, <2>2, <1>1, <1>3 DEF ShardStart, ShardEnd
<1>7. QED  BY <1>5, <1>6

(* The block a request needs holds header, prefix and payload, as long as  *)
(* the sum does not wrap.                                                  *)
LEMMA RequestFacts ==
  ASSUME NEW b \in Heap, NEW n \in Nat, NEW a \in Nat \ {0},
         MaxAlign <= n, NoWrap(n, a)
  PROVE  /\ PayloadOffset(b, a) \in Nat
         /\ BlockHeaderSize + PrefixSize <= PayloadOffset(b, a)
         /\ (b + PayloadOffset(b, a)) % a = 0
         /\ RequiredSize(b, n, a) \in Nat
         /\ PayloadOffset(b, a) + n <= RequiredSize(b, n, a)
         /\ MinBlockSize <= RequiredSize(b, n, a)
<1> USE LayoutAssumption
<1> DEFINE base == BlockHeaderSize + PrefixSize + b
           p == PayloadOffset(b, a)
<1>1. b \in Nat /\ base \in Nat
  BY DEF Heap
<1>2. AlignUp(base, a) \in Nat /\ base <= AlignUp(base, a) /\ AlignUp(base, a) % a = 0
  BY <1>1, AlignUpFacts
<1>3. p = AlignUp(base, a) - b
  BY DEF PayloadOffset
<1> HIDE DEF p, base
<1>4. p \in Nat /\ BlockHeaderSize + PrefixSize <= p /\ b + p = AlignUp(base, a)
  BY <1>1, <1>2, <1>3 DEF base
<1>5. p + n < Word
  BY DEF NoWrap, p
<1>6. Plus(p, n) = p + n /\ p + n \in Nat
  BY <1>4, <1>5 DEF Plus
<1>7. RequiredSize(b, n, a) = AlignUp(p + n, MaxAlign)
  BY <1>6 DEF RequiredSize, p
<1>8. RequiredSize(b, n, a) \in Nat /\ p + n <= RequiredSize(b, n, a)
  BY <1>6, <1>7, AlignUpFacts
<1>9. MinBlockSize <= RequiredSize(b, n, a)
  BY <1>4, <1>8 DEF MinBlockSize
<1>10. QED  BY <1>2, <1>4, <1>8, <1>9 DEF p

LEMMA MinBlockFacts == MinBlockSize \in Nat \ {0} /\ ShardSize \in Nat \ {0}
BY LayoutAssumption, HeapAssumption DEF MinBlockSize

-----------------------------------------------------------------------------
(* Facts of a state that satisfies the invariant.                          *)

(* Block offsets are heap offsets, and never null.                         *)
LEMMA BlockFacts ==
  ASSUME TypeOK, HeapTiled, NEW b \in DOMAIN block
  PROVE  /\ b \in Heap /\ b # Null
         /\ block[b] \in Headers
         /\ b + block[b].size <= ShardEnd(block[b].shard)
         /\ ShardStart(block[b].shard) <= b
         /\ MinBlockSize <= block[b].size
<1>1. block[b] \in Headers /\ b \in Nat
  BY DEF TypeOK
<1>2. block[b].shard \in Shards /\ block[b].size \in Nat
  BY <1>1 DEF Headers
<1>3. /\ ShardStart(block[b].shard) <= b
      /\ b + block[b].size <= ShardEnd(block[b].shard)
      /\ MinBlockSize <= block[b].size
  BY DEF HeapTiled
<1>4. b \in Heap /\ b # Null
  BY <1>1, <1>2, <1>3, ShardFacts, LayoutAssumption DEF Heap, Null
<1>5. QED  BY <1>1, <1>3, <1>4

(* The walk of allocator_alloc only visits free blocks of its shard: the   *)
(* bounds checks inside the loop never fail.                               *)
LEMMA WalkFacts ==
  ASSUME IInv, NEW t \in Threads, pc[t] = "walk", current[t] # Null
  PROVE  /\ Linked(current[t])
         /\ current[t] \in DOMAIN block
         /\ current[t] \in Heap
         /\ block[current[t]] \in Headers
         /\ block[current[t]].shard = try_shard[t]
         /\ block[current[t]].flags = BLOCK_FREE
         /\ Needed(t) \in Nat
         /\ MinBlockSize <= Needed(t)
<1>1. try_shard[t] \in Shards /\ WalkSound(t) /\ RequestSound(t)
      /\ size[t] \in Nat /\ alignment[t] \in Nat \ {0}
  BY DEF IInv, TypeOK, CallsSound
<1>2. Linked(current[t]) /\ block[current[t]].shard = try_shard[t]
  <2>1. CASE link[t] = Null
    BY <1>1, <2>1 DEF WalkSound, IInv, HeapInv, FreeListsSound
  <2>2. CASE link[t] # Null
    <3>1. Linked(link[t]) /\ block[link[t]].shard = try_shard[t]
          /\ block[link[t]].next_free = current[t] /\ link[t] \in DOMAIN block
      BY <1>1, <2>2 DEF WalkSound, Linked
    <3>2. QED  BY <3>1 DEF IInv, HeapInv, FreeListsSound
  <2>3. QED  BY <2>1, <2>2
<1>3. current[t] \in DOMAIN block /\ block[current[t]].flags = BLOCK_FREE
  BY <1>2 DEF Linked
<1>4. current[t] \in Heap /\ block[current[t]] \in Headers
  BY <1>3, BlockFacts DEF IInv, HeapInv
<1>5. Needed(t) \in Nat /\ MinBlockSize <= Needed(t)
  BY <1>1, <1>4, RequestFacts DEF RequestSound, Needed
<1>6. QED  BY <1>2, <1>3, <1>4, <1>5

-----------------------------------------------------------------------------
(* Steps that store nothing in the heap and take no block in or out of     *)
(* flight.                                                                 *)

SameFlight ==
  /\ block' = block /\ heads' = heads
  /\ \A u \in Threads :
       /\ pc'[u] = "take" <=> pc[u] = "take"
       /\ pc'[u] = "fill" <=> pc[u] = "fill"
       /\ pc'[u] = "clear" <=> pc[u] = "clear"
       /\ pc'[u] = "push" <=> pc[u] = "push"
       /\ pc[u] \in {"take", "fill", "clear", "push"} =>
            /\ current'[u] = current[u] /\ size'[u] = size[u]
            /\ alignment'[u] = alignment[u] /\ try_shard'[u] = try_shard[u]

LEMMA SameLinked ==
  ASSUME SameFlight
  PROVE  \A b : Linked(b)' <=> Linked(b)
BY DEF SameFlight, Linked, InFlight, Handling

LEMMA SameTaken ==
  ASSUME SameFlight, NEW u \in Threads, pc[u] \in {"take", "fill"}
  PROVE  /\ TakenSize(u)' = TakenSize(u) /\ Needed(u)' = Needed(u)
         /\ pc'[u] = pc[u] /\ current'[u] = current[u]
BY DEF SameFlight, TakenSize, Splits, Needed

LEMMA SameHeap ==
  ASSUME HeapInv, SameFlight
  PROVE  HeapInv'
<1>1. BlocksDisjoint'
  <2> SUFFICES ASSUME NEW b \in DOMAIN block, NEW c \in DOMAIN block, b < c,
                      ~(b + block[b].size <= c)
               PROVE  \E t \in Threads : /\ pc'[t] = "take" /\ current'[t] = b
                                         /\ b + TakenSize(t)' <= c
    BY DEF BlocksDisjoint, SameFlight
  <2>1. PICK t \in Threads : /\ pc[t] = "take" /\ current[t] = b
                             /\ b + TakenSize(t) <= c
    BY DEF HeapInv, BlocksDisjoint
  <2>2. QED  BY <2>1, SameTaken
<1>2. HeapTiled'
  BY DEF HeapInv, HeapTiled, SameFlight
<1>3. FreeListsSound'
  BY SameLinked DEF HeapInv, FreeListsSound, SameFlight
<1>4. PayloadMarksAllocation'
  BY DEF HeapInv, PayloadMarksAllocation, MidStore, SameFlight
<1>5. QED  BY <1>1, <1>2, <1>3, <1>4 DEF HeapInv

(* The local facts of a thread survive a step that changes neither its     *)
(* locals nor the heap.                                                    *)
SameLocals(u) ==
  /\ pc'[u] = pc[u] /\ size'[u] = size[u] /\ alignment'[u] = alignment[u]
  /\ try_shard'[u] = try_shard[u] /\ link'[u] = link[u]
  /\ current'[u] = current[u] /\ ptr'[u] = ptr[u]

LEMMA SameCall ==
  ASSUME SameFlight, NEW u \in Threads, SameLocals(u),
         RequestSound(u), WalkSound(u), BlockSound(u), FlightSound(u)
  PROVE  RequestSound(u)' /\ WalkSound(u)' /\ BlockSound(u)' /\ FlightSound(u)'
<1>1. RequestSound(u)' /\ BlockSound(u)'
  BY DEF SameFlight, SameLocals, RequestSound, BlockSound
<1>2. WalkSound(u)'
  BY SameLinked DEF SameFlight, SameLocals, WalkSound
<1>3. FlightSound(u)'
  BY SameTaken DEF SameFlight, SameLocals, FlightSound
<1>4. QED  BY <1>1, <1>2, <1>3

LEMMA SameOwnership ==
  ASSUME OwnershipSound, block' = block, live' = live, issued' = issued,
         \A u \in Threads : PendingFree(u)' =>
           PendingFree(u) /\ current'[u] = current[u],
         \A u \in Threads : pc'[u] = "fill" =>
           pc[u] = "fill" /\ current'[u] = current[u]
  PROVE  OwnershipSound'
BY DEF OwnershipSound, LiveIntact, PendingFree

(* A step of thread t that keeps the heap: what is left to show is that    *)
(* its own new locals are sound and that the locks are.                    *)
LEMMA QuietStep ==
  ASSUME IInv, NEW t \in Threads, SameFlight, live' = live, issued' = issued,
         \A u \in Threads \ {t} : SameLocals(u),
         PendingFree(t)' => PendingFree(t) /\ current'[t] = current[t],
         TypeOK', MutualExclusion', RequestSound(t)', WalkSound(t)',
         BlockSound(t)', FlightSound(t)'
  PROVE  IInv'
<1>1. CallsSound'
  <2> SUFFICES ASSUME NEW u \in Threads \ {t}
               PROVE  /\ RequestSound(u)' /\ WalkSound(u)'
                      /\ BlockSound(u)' /\ FlightSound(u)'
    BY DEF CallsSound
  <2>1. SameLocals(u) /\ RequestSound(u) /\ WalkSound(u) /\ BlockSound(u)
        /\ FlightSound(u)
    BY DEF IInv, CallsSound
  <2>2. QED  BY <2>1, SameCall
<1>2. HeapInv'
  BY SameHeap DEF IInv
<1>3. OwnershipSound'
  <2>1. \A u \in Threads : PendingFree(u)' =>
           PendingFree(u) /\ current'[u] = current[u]
    BY DEF SameLocals, PendingFree
  <2>2. \A u \in Threads : pc'[u] = "fill" =>
           pc[u] = "fill" /\ current'[u] = current[u]
    BY DEF SameFlight
  <2>3. QED  BY <2>1, <2>2, SameOwnership DEF IInv, SameFlight
<1>4. QED  BY <1>1, <1>2, <1>3 DEF IInv

(* Locking and unlocking: a thread enters the critical section of a shard  *)
(* only while nobody is in it.                                             *)
LEMMA EnterCriticalSection ==
  ASSUME TypeOK, MutualExclusion, NEW t \in Threads, Acquire(t, try_shard[t]),
         try_shard' = try_shard, ~InCriticalSection(t),
         \A u \in Threads \ {t} : pc'[u] = pc[u]
  PROVE  MutualExclusion'
BY ThreadsAssumption
   DEF MutualExclusion, InCriticalSection, Acquire, TypeOK

LEMMA LeaveCriticalSection ==
  ASSUME TypeOK, MutualExclusion, NEW t \in Threads,
         mutex' = [mutex EXCEPT ![try_shard[t]] = NoThread],
         InCriticalSection(t), ~InCriticalSection(t)',
         \A u \in Threads \ {t} : pc'[u] = pc[u] /\ try_shard'[u] = try_shard[u]
  PROVE  MutualExclusion'
BY DEF MutualExclusion, InCriticalSection, TypeOK

LEMMA StayOutside ==
  ASSUME TypeOK, MutualExclusion, NEW t \in Threads,
         \A s \in Shards : mutex[s] # NoThread => mutex'[s] # NoThread,
         InCriticalSection(t)' => InCriticalSection(t) /\ try_shard'[t] = try_shard[t],
         \A u \in Threads \ {t} : pc'[u] = pc[u] /\ try_shard'[u] = try_shard[u]
  PROVE  MutualExclusion'
BY DEF MutualExclusion, InCriticalSection, TypeOK

(* The calls that fail before they touch anything, and crashes.            *)
LEMMA RejectStep ==
  ASSUME IInv, NEW t \in Threads,
         \/ \E n \in Sizes : AllocReject(t, n)
         \/ \E b \in DOMAIN block : FreeReject(t, b)
         \/ AllocFail(t)
         \/ Crash(t)
  PROVE  IInv' /\ SameFlight
<1> USE DEF IInv
<1>1. /\ block' = block /\ heads' = heads /\ locks' = locks /\ locals' = locals
      /\ live' = live /\ issued' = issued
      /\ \A u \in Threads \ {t} : pc'[u] = pc[u]
      /\ pc'[t] = pc[t] \/ (pc[t] \in {"idle", "fail"} /\ pc'[t] = "idle")
  BY DEF AllocReject, FreeReject, AllocFail, Crash, Call, At, Return, Goto,
         shared, locks, ghosts, locals, TypeOK
<1>2. TypeOK'
  BY SMTT(30) DEF AllocReject, FreeReject, AllocFail, Crash, Call, At, Return, Goto,
         shared, locks, ghosts, locals, TypeOK, Labels, Statuses
<1>3. SameFlight /\ \A u \in Threads \ {t} : SameLocals(u)
  BY <1>1 DEF SameFlight, SameLocals, locals
<1>4. MutualExclusion'
  BY <1>1, StayOutside DEF InCriticalSection, locks, locals
<1>5. PendingFree(t)' => PendingFree(t) /\ current'[t] = current[t]
  BY <1>1 DEF PendingFree, locals
<1>6. RequestSound(t)' /\ WalkSound(t)' /\ BlockSound(t)' /\ FlightSound(t)'
  <2>1. CASE pc'[t] = pc[t]
    BY <2>1, <1>1, <1>3, SameCall DEF CallsSound, SameLocals, locals
  <2>2. CASE pc'[t] = "idle"
    BY <2>2 DEF RequestSound, WalkSound, BlockSound, FlightSound
  <2>3. QED  BY <1>1, <2>1, <2>2
<1>7. QED  BY <1>1, <1>2, <1>3, <1>4, <1>5, <1>6, QuietStep

-----------------------------------------------------------------------------
(* Steps that take or release a lock, or walk.                             *)

LEMMA AllocBadAlignmentStep ==
  ASSUME IInv, NEW t \in Threads, AllocBadAlignment(t)
  PROVE  IInv' /\ SameFlight
<1> USE DEF IInv
<1>1. /\ pc[t] = "walk" /\ pc'[t] = "idle"
      /\ \A u \in Threads \ {t} : pc'[u] = pc[u]
  BY DEF AllocBadAlignment, At, Goto, Return, shared, locks, locals, ghosts, Visiting, Release, TypeOK
<1>2. TypeOK'
  BY DEF AllocBadAlignment, At, Goto, Return, shared, locks, locals, ghosts, Visiting, Release, TypeOK, Labels, Statuses
<1>3. SameFlight /\ \A u \in Threads \ {t} : SameLocals(u)
  BY <1>1 DEF AllocBadAlignment, At, Goto, Return, shared, locks, locals, ghosts, Visiting, Release, SameFlight, SameLocals
<1>4. MutualExclusion'
  BY <1>1, LeaveCriticalSection DEF AllocBadAlignment, At, Goto, Return, shared, locks, locals, ghosts, Visiting, Release, InCriticalSection
<1>5. PendingFree(t)' => PendingFree(t) /\ current'[t] = current[t]
  BY <1>1 DEF PendingFree, AllocBadAlignment, locals
<1>6. RequestSound(t)' /\ WalkSound(t)' /\ BlockSound(t)' /\ FlightSound(t)'
  BY <1>1 DEF RequestSound, WalkSound, BlockSound, FlightSound
<1>7. QED
  BY <1>1, <1>2, <1>3, <1>4, <1>5, <1>6, QuietStep DEF AllocBadAlignment, ghosts

LEMMA UnlockStep ==
  ASSUME IInv, NEW t \in Threads, Unlock(t)
  PROVE  IInv' /\ SameFlight
<1> USE DEF IInv
<1>1. /\ pc[t] = "unlock" /\ pc'[t] = "idle"
      /\ \A u \in Threads \ {t} : pc'[u] = pc[u]
  BY DEF Unlock, At, Goto, Return, shared, locks, locals, ghosts, Release, TypeOK
<1>2. TypeOK'
  BY DEF Unlock, At, Goto, Return, shared, locks, locals, ghosts, Release, TypeOK, Labels, Statuses
<1>3. SameFlight /\ \A u \in Threads \ {t} : SameLocals(u)
  BY <1>1 DEF Unlock, At, Goto, Return, shared, locks, locals, ghosts, Release, SameFlight, SameLocals
<1>4. MutualExclusion'
  BY <1>1, LeaveCriticalSection DEF Unlock, At, Goto, Return, shared, locks, locals, ghosts, Release, InCriticalSection
<1>5. PendingFree(t)' => PendingFree(t) /\ current'[t] = current[t]
  BY <1>1 DEF PendingFree, Unlock, locals
<1>6. RequestSound(t)' /\ WalkSound(t)' /\ BlockSound(t)' /\ FlightSound(t)'
  BY <1>1 DEF RequestSound, WalkSound, BlockSound, FlightSound
<1>7. QED
  BY <1>1, <1>2, <1>3, <1>4, <1>5, <1>6, QuietStep DEF Unlock, ghosts

LEMMA FreeMismatchStep ==
  ASSUME IInv, NEW t \in Threads, FreeMismatch(t)
  PROVE  IInv' /\ SameFlight
<1> USE DEF IInv
<1>1. /\ pc[t] = "recheck" /\ pc'[t] = "idle"
      /\ \A u \in Threads \ {t} : pc'[u] = pc[u]
  BY DEF FreeMismatch, At, Goto, Return, shared, locks, locals, ghosts, TypeOK
<1>2. TypeOK'
  BY DEF FreeMismatch, At, Goto, Return, shared, locks, locals, ghosts, TypeOK, Labels, Statuses
<1>3. SameFlight /\ \A u \in Threads \ {t} : SameLocals(u)
  BY <1>1 DEF FreeMismatch, At, Goto, Return, shared, locks, locals, ghosts, SameFlight, SameLocals
<1>4. MutualExclusion'
  BY <1>1, LeaveCriticalSection DEF FreeMismatch, At, Goto, Return, shared, locks, locals, ghosts, InCriticalSection
<1>5. PendingFree(t)' => PendingFree(t) /\ current'[t] = current[t]
  BY <1>1 DEF PendingFree, FreeMismatch, locals
<1>6. RequestSound(t)' /\ WalkSound(t)' /\ BlockSound(t)' /\ FlightSound(t)'
  BY <1>1 DEF RequestSound, WalkSound, BlockSound, FlightSound
<1>7. QED
  BY <1>1, <1>2, <1>3, <1>4, <1>5, <1>6, QuietStep DEF FreeMismatch, ghosts

LEMMA LockOwnerDeadStep ==
  ASSUME IInv, NEW t \in Threads, LockOwnerDead(t)
  PROVE  IInv' /\ SameFlight
<1> USE DEF IInv
<1>1. /\ pc[t] \in {"lock", "free_lock"} /\ pc'[t] = "idle"
      /\ \A u \in Threads \ {t} : pc'[u] = pc[u]
  BY DEF LockOwnerDead, At, Goto, Return, shared, locks, locals, ghosts, TypeOK
<1>2. TypeOK'
  BY DEF LockOwnerDead, At, Goto, Return, shared, locks, locals, ghosts, TypeOK, Labels, Statuses
<1>3. SameFlight /\ \A u \in Threads \ {t} : SameLocals(u)
  BY <1>1 DEF LockOwnerDead, At, Goto, Return, shared, locks, locals, ghosts, SameFlight, SameLocals
<1>4. MutualExclusion'
  BY <1>1, ThreadsAssumption, StayOutside DEF LockOwnerDead, At, Goto, Return, shared, locks, locals, ghosts, InCriticalSection
<1>5. PendingFree(t)' => PendingFree(t) /\ current'[t] = current[t]
  BY <1>1 DEF PendingFree, LockOwnerDead, locals
<1>6. RequestSound(t)' /\ WalkSound(t)' /\ BlockSound(t)' /\ FlightSound(t)'
  BY <1>1 DEF RequestSound, WalkSound, BlockSound, FlightSound
<1>7. QED
  BY <1>1, <1>2, <1>3, <1>4, <1>5, <1>6, QuietStep DEF LockOwnerDead, ghosts

LEMMA FreeLockStep ==
  ASSUME IInv, NEW t \in Threads, FreeLock(t)
  PROVE  IInv' /\ SameFlight
<1> USE DEF IInv
<1>1. /\ pc[t] = "free_lock" /\ pc'[t] = "recheck"
      /\ \A u \in Threads \ {t} : pc'[u] = pc[u]
  BY DEF FreeLock, At, Goto, Return, shared, locks, locals, ghosts, Acquire, TypeOK
<1>2. TypeOK'
  BY DEF FreeLock, At, Goto, Return, shared, locks, locals, ghosts, Acquire, TypeOK, Labels, Statuses
<1>3. SameFlight /\ \A u \in Threads \ {t} : SameLocals(u)
  BY <1>1 DEF FreeLock, At, Goto, Return, shared, locks, locals, ghosts, Acquire, SameFlight, SameLocals
<1>4. MutualExclusion'
  BY <1>1, EnterCriticalSection DEF FreeLock, At, Goto, Return, shared, locks, locals, ghosts, Acquire, InCriticalSection
<1>5. PendingFree(t)' => PendingFree(t) /\ current'[t] = current[t]
  BY <1>1 DEF PendingFree, FreeLock, locals
<1>6. RequestSound(t)' /\ WalkSound(t)' /\ BlockSound(t)' /\ FlightSound(t)'
  BY <1>1 DEF FreeLock, locals, shared, CallsSound, RequestSound, WalkSound, BlockSound, FlightSound
<1>7. QED
  BY <1>1, <1>2, <1>3, <1>4, <1>5, <1>6, QuietStep DEF FreeLock, ghosts

LEMMA AllocLockStep ==
  ASSUME IInv, NEW t \in Threads, AllocLock(t)
  PROVE  IInv' /\ SameFlight
<1> USE DEF IInv
<1>1. /\ pc[t] = "lock" /\ pc'[t] = "walk"
      /\ \A u \in Threads \ {t} : pc'[u] = pc[u]
  BY DEF AllocLock, At, Goto, Return, shared, locks, locals, ghosts, Acquire, TypeOK
<1>2. TypeOK'
  BY DEF AllocLock, At, Goto, Return, shared, locks, locals, ghosts, Acquire, TypeOK, Labels, Statuses, Null
<1>3. SameFlight /\ \A u \in Threads \ {t} : SameLocals(u)
  BY <1>1 DEF AllocLock, At, Goto, Return, shared, locks, locals, ghosts, Acquire, SameFlight, SameLocals
<1>4. MutualExclusion'
  BY <1>1, EnterCriticalSection DEF AllocLock, At, Goto, Return, shared, locks, locals, ghosts, Acquire, InCriticalSection
<1>5. PendingFree(t)' => PendingFree(t) /\ current'[t] = current[t]
  BY <1>1 DEF PendingFree, AllocLock, locals
<1>6. RequestSound(t)' /\ WalkSound(t)' /\ BlockSound(t)' /\ FlightSound(t)'
  BY <1>1 DEF AllocLock, TypeOK, locals, shared, CallsSound, RequestSound, WalkSound, BlockSound, FlightSound
<1>7. QED
  BY <1>1, <1>2, <1>3, <1>4, <1>5, <1>6, QuietStep DEF AllocLock, ghosts

(* A thread that walks holds the lock: nobody else is in flight in its     *)
(* shard, so the block it stands on is still listed.                       *)
LEMMA AllocNextBlockStep ==
  ASSUME IInv, NEW t \in Threads, AllocNextBlock(t)
  PROVE  IInv' /\ SameFlight
<1> USE DEF IInv
<1>1. /\ pc[t] = "walk" /\ pc' = pc /\ current[t] # Null
  BY DEF AllocNextBlock, Visiting, At
<1>2. /\ Linked(current[t]) /\ block[current[t]] \in Headers
      /\ block[current[t]].shard = try_shard[t] /\ current[t] \in DOMAIN block
  BY <1>1, WalkFacts
<1>3. TypeOK'
  BY <1>2 DEF AllocNextBlock, shared, locks, ghosts, TypeOK, Headers
<1>4. SameFlight /\ \A u \in Threads \ {t} : SameLocals(u)
  BY <1>1 DEF AllocNextBlock, shared, SameFlight, SameLocals, TypeOK
<1>5. MutualExclusion'
  BY <1>1 DEF AllocNextBlock, locks, MutualExclusion, InCriticalSection
<1>6. ~PendingFree(t)'
  BY <1>1 DEF PendingFree
<1>7. RequestSound(t)' /\ BlockSound(t)' /\ FlightSound(t)'
  BY <1>1 DEF AllocNextBlock, CallsSound, RequestSound, BlockSound, FlightSound
<1>8. WalkSound(t)'
  <2>1. PICK b \in DOMAIN block : b = current[t]
    BY <1>2
  <2>2. link'[t] = b /\ current'[t] = block[b].next_free
        /\ try_shard' = try_shard /\ block' = block
    BY <2>1 DEF AllocNextBlock, TypeOK, shared
  <2>3. Linked(b)'
    BY <1>2, <1>4, <2>1, SameLinked
  <2>4. link'[t] # Null
    BY <1>1, <2>1, <2>2
  <2>5. Linked(link[t])'
    BY <2>2, <2>3 DEF Linked, InFlight, Handling
  <2>6. QED  BY <1>1, <1>2, <2>1, <2>2, <2>4, <2>5 DEF WalkSound
<1>9. QED
  BY <1>1, <1>3, <1>4, <1>5, <1>6, <1>7, <1>8, QuietStep
     DEF AllocNextBlock, ghosts

LEMMA AllocMissStep ==
  ASSUME IInv, NEW t \in Threads, AllocMiss(t)
  PROVE  IInv' /\ SameFlight
<1> USE DEF IInv
<1>1. /\ pc[t] = "walk" /\ pc'[t] \in {"lock", "fail"}
      /\ \A u \in Threads \ {t} : pc'[u] = pc[u]
      /\ \A u \in Threads \ {t} : try_shard'[u] = try_shard[u]
  BY DEF AllocMiss, At, Goto, TypeOK
<1>2. (try_shard[t] + 1) % ShardCount \in Shards
  <2>1. try_shard[t] + 1 \in Nat
    BY DEF TypeOK, Shards
  <2>2. QED  BY <2>1, LayoutAssumption DEF Shards
<1>3. TypeOK'
  BY <1>2 DEF AllocMiss, At, Goto, Release, shared, ghosts, TypeOK, Labels
<1>4. SameFlight /\ \A u \in Threads \ {t} : SameLocals(u)
  BY <1>1 DEF AllocMiss, shared, SameFlight, SameLocals, TypeOK
<1>5. MutualExclusion'
  BY <1>1, LeaveCriticalSection DEF AllocMiss, Release, InCriticalSection
<1>6. ~PendingFree(t)'
  BY <1>1 DEF PendingFree
<1>7. RequestSound(t)'
  BY <1>1 DEF AllocMiss, CallsSound, RequestSound
<1>8. WalkSound(t)' /\ BlockSound(t)' /\ FlightSound(t)'
  BY <1>1 DEF WalkSound, BlockSound, FlightSound
<1>9. QED
  BY <1>1, <1>3, <1>4, <1>5, <1>6, <1>7, <1>8, QuietStep DEF AllocMiss, ghosts

LEMMA AllocCallStep ==
  ASSUME IInv, RequestsFit, NEW t \in Threads, NEW n \in Sizes,
         NEW a \in Alignments, AllocCall(t, n, a)
  PROVE  IInv' /\ SameFlight
<1> USE DEF IInv
<1> DEFINE rounded == AlignUp(n, MaxAlign)
           al == IF a < MaxAlign THEN MaxAlign ELSE a
<1>1. /\ pc[t] = "idle" /\ pc'[t] = "lock"
      /\ \A u \in Threads \ {t} : pc'[u] = pc[u]
      /\ \A u \in Threads \ {t} : try_shard'[u] = try_shard[u]
      /\ size'[t] = rounded /\ alignment'[t] = al
  BY DEF AllocCall, Call, At, Goto, TypeOK
<1>2. /\ n \in Nat \ {0} /\ rounded \in Nat /\ n <= rounded
      /\ rounded % MaxAlign = 0 /\ al \in Nat \ {0}
  BY AlignUpFacts, LayoutAssumption, RequestAssumption DEF AllocCall
<1>3. MaxAlign <= rounded
  BY <1>2, LayoutAssumption
<1>4. NoWrap(rounded, al)
  BY <1>1 DEF RequestsFit, AllocCall
<1> HIDE DEF rounded, al
<1>5. rounded \div RouteSpan \in Nat
  BY <1>2, LayoutAssumption
<1>6. SelectShard(rounded) \in Shards
  BY <1>5, LayoutAssumption DEF SelectShard, Shards
<1>7. TypeOK'
  BY <1>2, <1>6 DEF AllocCall, Call, At, Goto, shared, locks, ghosts, TypeOK,
                    Labels, rounded, al
<1>8. SameFlight /\ \A u \in Threads \ {t} : SameLocals(u)
  BY <1>1 DEF AllocCall, shared, SameFlight, SameLocals, TypeOK
<1>9. MutualExclusion'
  BY <1>1, StayOutside DEF AllocCall, locks, InCriticalSection
<1>10. ~PendingFree(t)'
  BY <1>1 DEF PendingFree
<1>11. RequestSound(t)'
  BY <1>1, <1>3, <1>4 DEF RequestSound
<1>12. WalkSound(t)' /\ BlockSound(t)' /\ FlightSound(t)'
  BY <1>1 DEF WalkSound, BlockSound, FlightSound
<1>13. QED
  BY <1>1, <1>7, <1>8, <1>9, <1>10, <1>11, <1>12, QuietStep
     DEF AllocCall, ghosts

-----------------------------------------------------------------------------
(* Steps that change the heap.                                             *)

(* The links of the free lists go round no cycle: blocks can be numbered   *)
(* so that a link leads to a smaller number.                               *)
Ranks(r) ==
  /\ r \in [DOMAIN block -> Nat]
  /\ \A b \in DOMAIN block :
       Linked(b) /\ block[b].next_free # Null => r[block[b].next_free] < r[b]
Acyclic == \E r : Ranks(r)

(* A step of thread t stays in its shard, and changes the header of no     *)
(* block but free ones and the one it is at.                               *)
Confined(t) ==
  /\ \A r \in Shards \ {try_shard[t]} : heads'[r] = heads[r]
  /\ \A c \in DOMAIN block' : block'[c].shard # try_shard[t] =>
       c \in DOMAIN block /\ block'[c] = block[c]
  /\ \A c \in DOMAIN block : c # current[t] /\ ~Linked(c) =>
       block'[c] = block[c]

(* Only thread t handles its block: the lock of the shard sees to it.      *)
LEMMA SoleHandler ==
  ASSUME IInv, NEW t \in Threads,
         pc[t] \in {"take", "fill", "recheck", "clear", "push"},
         NEW u \in Threads, pc[u] \in {"take", "fill", "clear", "push"},
         current[u] = current[t]
  PROVE  u = t
BY DEF IInv, CallsSound, BlockSound, MutualExclusion, InCriticalSection

(* While a thread is in a critical section, other threads that are inside  *)
(* one are in another shard.                                               *)
LEMMA OtherShard ==
  ASSUME IInv, NEW t \in Threads, InCriticalSection(t),
         NEW u \in Threads \ {t}, InCriticalSection(u)
  PROVE  try_shard[u] # try_shard[t]
BY DEF IInv, MutualExclusion

LEMMA FreeCallStep ==
  ASSUME IInv, NEW t \in Threads, NEW b \in DOMAIN block, FreeCall(t, b)
  PROVE  IInv' /\ SameFlight
<1> USE DEF IInv
<1>1. /\ pc[t] = "idle" /\ pc'[t] = "free_lock" /\ current'[t] = b
      /\ ptr'[t] = issued[b] /\ try_shard'[t] = block[b].shard
      /\ \A u \in Threads \ {t} : pc'[u] = pc[u]
      /\ \A u \in Threads \ {t} : try_shard'[u] = try_shard[u]
      /\ \A u \in Threads \ {t} : current'[u] = current[u]
      /\ block' = block /\ heads' = heads /\ issued' = issued
      /\ live' = [c \in DOMAIN live \ {b} |-> live[c]]
      /\ block[b].flags # BLOCK_FREE /\ MayFree(b)
  BY DEF FreeCall, Call, At, Goto, TypeOK, Forget, shared
<1>2. block[b] \in Headers /\ issued[b] \in Nat /\ b \in Nat
  BY DEF TypeOK
<1>3. block[b].shard \in Shards /\ block[b].flags = 0
  BY <1>1, <1>2 DEF Headers
<1>4. TypeOK'
  <2>1. DOMAIN live' \subseteq DOMAIN block'
        /\ live' \in [DOMAIN live' -> [size : Nat, alignment : Nat]]
    BY <1>1 DEF TypeOK
  <2>2. pc' \in [Threads -> Labels] /\ calls' \in [Threads -> Nat]
    BY DEF FreeCall, Call, Goto, TypeOK, Labels
  <2>3. current' \in [Threads -> Nat] /\ ptr' \in [Threads -> Nat]
        /\ try_shard' \in [Threads -> Shards]
    BY <1>2, <1>3 DEF FreeCall, TypeOK
  <2>4. QED
    BY <1>1, <2>1, <2>2, <2>3 DEF FreeCall, TypeOK, locks, shared
<1>5. SameFlight /\ \A u \in Threads \ {t} : SameLocals(u)
  BY <1>1 DEF FreeCall, SameFlight, SameLocals, TypeOK
<1>6. MutualExclusion'
  BY <1>1, StayOutside DEF FreeCall, locks, InCriticalSection
<1>7. HeapInv'
  BY <1>5, SameHeap
<1>8. issued[b] # 0
  BY <1>1, RequestAssumption DEF MayFree, OwnershipSound
<1>9. CallsSound'
  <2>1. ASSUME NEW u \in Threads \ {t}
        PROVE  /\ RequestSound(u)' /\ WalkSound(u)'
               /\ BlockSound(u)' /\ FlightSound(u)'
    BY <1>5, SameCall DEF CallsSound
  <2>2. RequestSound(t)' /\ WalkSound(t)' /\ BlockSound(t)' /\ FlightSound(t)'
    BY <1>1, <1>8 DEF RequestSound, WalkSound, BlockSound, FlightSound
  <2>3. QED  BY <2>1, <2>2 DEF CallsSound
<1>10. OwnershipSound'
  <2> SUFFICES ASSUME OwnedFrees PROVE OwnershipSound'
    BY DEF OwnershipSound
  <2>1. LiveIntact' /\ \A c \in DOMAIN live' : issued'[c] # 0
    BY <1>1 DEF OwnershipSound, LiveIntact
  <2>2. b \in DOMAIN live
    BY <1>1 DEF MayFree
  <2>3. \A u \in Threads \ {t} : PendingFree(u) => current[u] # b
    BY <2>2 DEF OwnershipSound
  <2>4. \A u \in Threads \ {t} : PendingFree(u)' <=> PendingFree(u)
    BY <1>1 DEF PendingFree
  <2>5. \A u \in Threads : pc'[u] = "fill" =>
           u # t /\ pc[u] = "fill" /\ current'[u] = current[u] /\ current[u] # b
    BY <1>1, <2>2 DEF OwnershipSound
  <2>6. QED  BY <1>1, <1>3, <2>1, <2>3, <2>4, <2>5 DEF OwnershipSound
<1>11. QED  BY <1>4, <1>5, <1>6, <1>7, <1>9, <1>10

(* Walkers in other shards keep their place when the links of this shard   *)
(* change: their block stays listed with the same header.                  *)
LEMMA OtherWalkers ==
  ASSUME NEW u \in Threads, WalkSound(u), SameLocals(u),
         pc[u] = "walk" => heads'[try_shard[u]] = heads[try_shard[u]],
         \A l : pc[u] = "walk" /\ Linked(l) /\ block[l].shard = try_shard[u]
                => Linked(l)' /\ block'[l] = block[l]
  PROVE  WalkSound(u)'
<1> SUFFICES ASSUME pc[u] = "walk" PROVE WalkSound(u)'
  BY DEF WalkSound, SameLocals
<1>1. CASE link[u] = Null
  BY <1>1 DEF WalkSound, SameLocals
<1>2. CASE link[u] # Null
  <2>1. PICK l : l = link[u]
    OBVIOUS
  <2>2. Linked(l) /\ block[l].shard = try_shard[u]
        /\ block[l].next_free = current[u]
    BY <1>2, <2>1 DEF WalkSound
  <2>3. Linked(l)' /\ block'[l] = block[l]
    BY <2>2
  <2>4. Linked(link[u])'
    BY <2>1, <2>3 DEF SameLocals, Linked, InFlight, Handling
  <2>5. QED  BY <1>2, <2>1, <2>2, <2>3, <2>4 DEF WalkSound, SameLocals
<1>3. QED  BY <1>1, <1>2

(* A step of thread t that stores to the header of its own block alone,    *)
(* and neither to its size nor to its shard: the heap stays tiled, the     *)
(* lists stay as they are and the other threads notice nothing.            *)
LEMMA HeaderStep ==
  ASSUME IInv, NEW t \in Threads, NEW b \in DOMAIN block, b = current[t],
         pc[t] \in {"recheck", "clear", "fill"},
         pc'[t] \in {"clear", "push", "unlock"},
         \A u \in Threads \ {t} : pc'[u] = pc[u],
         heads' = heads, locks' = locks, locals' = locals,
         DOMAIN block' = DOMAIN block,
         \A c \in DOMAIN block \ {b} : block'[c] = block[c],
         block'[b].size = block[b].size, block'[b].shard = block[b].shard,
         block[b].flags = 0 \/ pc[t] = "clear",
         block'[b].flags = 0 \/ pc'[t] \in {"clear", "push"}
  PROVE  /\ MutualExclusion' /\ Confined(t)
         /\ \A c : Linked(c)' <=> Linked(c)
         /\ \A c : Linked(c) => c # b /\ block'[c] = block[c]
         /\ BlocksDisjoint' /\ HeapTiled' /\ FreeListsSound'
         /\ \A c \in DOMAIN block \ {b} :
              MidStore(c)' \/ (block'[c].flags = BLOCK_FREE
                               <=> block'[c].payload_offset = 0)
         /\ \A u \in Threads \ {t} : /\ RequestSound(u)' /\ WalkSound(u)'
                                     /\ BlockSound(u)' /\ FlightSound(u)'
<1> USE DEF IInv
<1>1. MutualExclusion'
  BY DEF locks, locals, MutualExclusion, InCriticalSection
<1>2. block[b].shard = try_shard[t]
  BY DEF CallsSound, BlockSound
<1>3. Confined(t)
  BY <1>2 DEF Confined
<1>4. \A u \in Threads : u # t /\ pc[u] \in {"take", "fill", "clear", "push"}
                           => current[u] # b
  BY SoleHandler
<1>5. \A c : Linked(c)' <=> Linked(c)
  <2>1. ~Linked(b)
    BY DEF Linked, InFlight, Handling, BLOCK_FREE
  <2>2. ~Linked(b)'
    <3>1. block'[b].flags = 0 \/ Handling(t, b)'
      BY DEF Handling, locals
    <3>2. QED  BY <3>1 DEF Linked, InFlight, BLOCK_FREE
  <2>3. ASSUME NEW c, c # b PROVE Linked(c)' <=> Linked(c)
    <3>1. \A u \in Threads : Handling(u, c)' <=> Handling(u, c)
      BY <2>3 DEF Handling, locals
    <3>2. QED  BY <2>3, <3>1 DEF Linked, InFlight
  <2>4. QED  BY <2>1, <2>2, <2>3
<1>6. \A c : Linked(c) => c # b /\ c \in DOMAIN block /\ block'[c] = block[c]
  BY DEF Linked, InFlight, Handling, BLOCK_FREE
<1>7. \A c \in DOMAIN block : block'[c].size = block[c].size
                              /\ block'[c].shard = block[c].shard
  OBVIOUS
<1>8. \A u \in Threads : u # t /\ pc[u] \in {"take", "fill", "clear", "push"} =>
         /\ current[u] # b /\ current[u] \in DOMAIN block
         /\ block'[current[u]] = block[current[u]]
         /\ pc'[u] = pc[u] /\ current'[u] = current[u]
         /\ Needed(u)' = Needed(u) /\ TakenSize(u)' = TakenSize(u)
  BY <1>4 DEF locals, Needed, TakenSize, Splits, CallsSound, BlockSound
<1>9. BlocksDisjoint'
  BY <1>7, <1>8 DEF HeapInv, BlocksDisjoint
<1>10. HeapTiled'
  BY <1>7 DEF HeapInv, HeapTiled
<1>11. FreeListsSound'
  BY <1>5, <1>6 DEF HeapInv, FreeListsSound
<1>12. ASSUME NEW c \in DOMAIN block \ {b}
       PROVE  MidStore(c)' \/ (block'[c].flags = BLOCK_FREE
                               <=> block'[c].payload_offset = 0)
  <2>1. MidStore(c) => MidStore(c)'
    <3> SUFFICES ASSUME NEW u \in Threads, pc[u] \in {"fill", "clear"}, current[u] = c
                 PROVE  MidStore(c)'
      BY DEF MidStore
    <3>1. u # t
      OBVIOUS
    <3>2. QED  BY <3>1 DEF MidStore, locals
  <2>2. QED  BY <2>1 DEF HeapInv, PayloadMarksAllocation
<1>13. ASSUME NEW u \in Threads \ {t}
       PROVE  /\ RequestSound(u)' /\ WalkSound(u)'
              /\ BlockSound(u)' /\ FlightSound(u)'
  <2>1. SameLocals(u) /\ RequestSound(u) /\ WalkSound(u) /\ BlockSound(u)
        /\ FlightSound(u)
    BY DEF SameLocals, locals, CallsSound
  <2>2. WalkSound(u)'
    BY <2>1, <1>5, <1>6, OtherWalkers
  <2>3. RequestSound(u)'
    BY <2>1 DEF RequestSound, SameLocals
  <2>4. BlockSound(u)'
    BY <2>1, <1>7 DEF BlockSound, SameLocals, locals
  <2>5. FlightSound(u)'
    BY <2>1, <1>8 DEF FlightSound, SameLocals, locals
  <2>6. QED  BY <2>2, <2>3, <2>4, <2>5
<1>14. QED
  BY <1>1, <1>3, <1>5, <1>6, <1>9, <1>10, <1>11, <1>12, <1>13

LEMMA FreeMarkStep ==
  ASSUME IInv, NEW t \in Threads, FreeMark(t)
  PROVE  /\ IInv' /\ Confined(t)
         /\ \A c : Linked(c)' <=> Linked(c)
         /\ \A c : Linked(c) => block'[c] = block[c]
         /\ DOMAIN block' = DOMAIN block
<1> USE DEF IInv
<1>1. PICK b \in DOMAIN block : b = current[t]
  BY DEF FreeMark, At, CallsSound, BlockSound
<1>2. /\ pc[t] = "recheck" /\ pc'[t] = "clear"
      /\ \A u \in Threads \ {t} : pc'[u] = pc[u]
      /\ block[b].payload_offset = ptr[t] /\ block[b].shard = try_shard[t]
      /\ heads' = heads /\ live' = live /\ issued' = issued
      /\ locks' = locks /\ locals' = locals
      /\ ptr[t] # 0
  BY <1>1 DEF FreeMark, At, Goto, PointsToPayload, ghosts, CallsSound,
              BlockSound, FlightSound, TypeOK
<1>3. block[b] \in Headers
  BY DEF TypeOK
<1>4. block[b].flags = 0
  <2>1. ~MidStore(b)
    BY <1>1, <1>2, SoleHandler DEF MidStore
  <2>2. QED  BY <1>2, <1>3, <2>1 DEF HeapInv, PayloadMarksAllocation, Headers
<1>5. /\ DOMAIN block' = DOMAIN block
      /\ \A c \in DOMAIN block \ {b} : block'[c] = block[c]
      /\ block'[b].size = block[b].size /\ block'[b].shard = block[b].shard
      /\ block'[b].flags = BLOCK_FREE /\ block'[b] \in Headers
  BY <1>1, <1>3 DEF FreeMark, TypeOK, Headers
<1>6. TypeOK'
  <2>1. block' \in [DOMAIN block' -> Headers] /\ DOMAIN block' \subseteq Nat
    <3>1. block' = [c \in DOMAIN block' |-> block'[c]]
      BY DEF FreeMark, TypeOK
    <3>2. \A c \in DOMAIN block' : block'[c] \in Headers
      BY <1>5 DEF TypeOK
    <3>3. QED  BY <3>1, <3>2, <1>5 DEF TypeOK
  <2>2. QED
    BY <1>2, <1>5, <2>1 DEF FreeMark, Goto, TypeOK, Labels, locks, locals
<1>7. /\ MutualExclusion' /\ Confined(t)
      /\ \A c : Linked(c)' <=> Linked(c)
      /\ \A c : Linked(c) => block'[c] = block[c]
      /\ BlocksDisjoint' /\ HeapTiled' /\ FreeListsSound'
      /\ \A c \in DOMAIN block \ {b} :
           MidStore(c)' \/ (block'[c].flags = BLOCK_FREE
                            <=> block'[c].payload_offset = 0)
      /\ \A u \in Threads \ {t} : /\ RequestSound(u)' /\ WalkSound(u)'
                                  /\ BlockSound(u)' /\ FlightSound(u)'
  BY <1>1, <1>2, <1>4, <1>5, HeaderStep
<1>8. HeapInv'
  <2>1. MidStore(b)'
    BY <1>1, <1>2 DEF MidStore, locals
  <2>2. QED  BY <1>5, <1>7, <2>1 DEF HeapInv, PayloadMarksAllocation
<1>9. CallsSound'
  <2>1. RequestSound(t)' /\ WalkSound(t)' /\ BlockSound(t)' /\ FlightSound(t)'
    BY <1>1, <1>2, <1>5
       DEF RequestSound, WalkSound, BlockSound, FlightSound, locals
  <2>2. QED  BY <1>7, <2>1 DEF CallsSound
<1>10. OwnershipSound'
  <2> SUFFICES ASSUME OwnedFrees PROVE OwnershipSound'
    BY DEF OwnershipSound
  <2>1. PendingFree(t) /\ ~PendingFree(t)'
        /\ \A u \in Threads \ {t} : PendingFree(u)' <=> PendingFree(u)
    BY <1>2 DEF PendingFree
  <2>2. b \notin DOMAIN live
        /\ \A u \in Threads \ {t} : PendingFree(u) => current[u] # b
    BY <1>1, <2>1 DEF OwnershipSound
  <2>3. LiveIntact' /\ \A c \in DOMAIN live' : issued'[c] # 0
    BY <1>2, <1>5, <2>2 DEF OwnershipSound, LiveIntact, TypeOK
  <2>4. \A u \in Threads : pc'[u] = "fill" => pc[u] = "fill"
    BY <1>2
  <2>5. QED
    BY <1>2, <1>5, <2>1, <2>2, <2>3, <2>4
       DEF OwnershipSound, locals, CallsSound, BlockSound, PendingFree
<1>11. QED
  BY <1>5, <1>6, <1>7, <1>8, <1>9, <1>10

LEMMA FreeClearStep ==
  ASSUME IInv, NEW t \in Threads, FreeClear(t)
  PROVE  /\ IInv' /\ Confined(t)
         /\ \A c : Linked(c)' <=> Linked(c)
         /\ \A c : Linked(c) => block'[c] = block[c]
         /\ DOMAIN block' = DOMAIN block
<1> USE DEF IInv
<1>1. PICK b \in DOMAIN block : b = current[t]
  BY DEF FreeClear, At, CallsSound, BlockSound
<1>2. /\ pc[t] = "clear" /\ pc'[t] = "push"
      /\ \A u \in Threads \ {t} : pc'[u] = pc[u]
      /\ block[b].flags = BLOCK_FREE /\ block[b].shard = try_shard[t]
      /\ heads' = heads /\ live' = live /\ issued' = issued
      /\ locks' = locks /\ locals' = locals
  BY <1>1 DEF FreeClear, At, Goto, ghosts, CallsSound, BlockSound, FlightSound,
              TypeOK
<1>3. PICK h \in Nat : h = heads[try_shard[t]]
  BY DEF TypeOK
<1>4. block[b] \in Headers
  BY DEF TypeOK
<1>5. /\ DOMAIN block' = DOMAIN block
      /\ \A c \in DOMAIN block \ {b} : block'[c] = block[c]
      /\ block'[b] = Header(block[b].size, h, BLOCK_FREE, block[b].shard, 0)
  BY <1>1, <1>2, <1>3, <1>4 DEF FreeClear, TypeOK, Header, Headers
<1>6. /\ block'[b].size = block[b].size /\ block'[b].shard = block[b].shard
      /\ block'[b].flags = BLOCK_FREE /\ block'[b].payload_offset = 0
      /\ block'[b].next_free = h /\ block'[b] \in Headers
  BY <1>4, <1>5 DEF Headers, Header
<1>7. TypeOK'
  <2>1. block' \in [DOMAIN block' -> Headers] /\ DOMAIN block' \subseteq Nat
    <3>1. block' = [c \in DOMAIN block' |-> block'[c]]
      BY DEF FreeClear, TypeOK
    <3>2. \A c \in DOMAIN block' : block'[c] \in Headers
      BY <1>5, <1>6 DEF TypeOK
    <3>3. QED  BY <3>1, <3>2, <1>5 DEF TypeOK
  <2>2. QED
    BY <1>2, <1>5, <2>1 DEF FreeClear, Goto, TypeOK, Labels, locks, locals
<1>8. /\ MutualExclusion' /\ Confined(t)
      /\ \A c : Linked(c)' <=> Linked(c)
      /\ \A c : Linked(c) => block'[c] = block[c]
      /\ BlocksDisjoint' /\ HeapTiled' /\ FreeListsSound'
      /\ \A c \in DOMAIN block \ {b} :
           MidStore(c)' \/ (block'[c].flags = BLOCK_FREE
                            <=> block'[c].payload_offset = 0)
      /\ \A u \in Threads \ {t} : /\ RequestSound(u)' /\ WalkSound(u)'
                                  /\ BlockSound(u)' /\ FlightSound(u)'
  BY <1>1, <1>2, <1>5, <1>6, HeaderStep
<1>9. HeapInv'
  BY <1>5, <1>6, <1>8 DEF HeapInv, PayloadMarksAllocation
<1>10. CallsSound'
  <2>1. RequestSound(t)' /\ WalkSound(t)' /\ BlockSound(t)' /\ FlightSound(t)'
    BY <1>1, <1>2, <1>3, <1>5, <1>6
       DEF RequestSound, WalkSound, BlockSound, FlightSound, locals
  <2>2. QED  BY <1>8, <2>1 DEF CallsSound
<1>11. OwnershipSound'
  <2> SUFFICES ASSUME OwnedFrees PROVE OwnershipSound'
    BY DEF OwnershipSound
  <2>1. \A u \in Threads : PendingFree(u)' <=> PendingFree(u)
    BY <1>2 DEF PendingFree
  <2>2. b \notin DOMAIN live
    BY <1>2 DEF OwnershipSound, LiveIntact, BLOCK_FREE
  <2>3. \A u \in Threads : PendingFree(u) => current[u] # b /\ current[u] \in DOMAIN block
    BY <1>2 DEF OwnershipSound, BLOCK_FREE, CallsSound, BlockSound, PendingFree
  <2>4. LiveIntact' /\ \A c \in DOMAIN live' : issued'[c] # 0
    BY <1>2, <1>5, <2>2 DEF OwnershipSound, LiveIntact, TypeOK
  <2>5. \A u \in Threads : pc'[u] = "fill" => pc[u] = "fill"
    BY <1>2
  <2>6. QED
    BY <1>2, <1>5, <2>1, <2>3, <2>4, <2>5 DEF OwnershipSound, locals
<1>12. QED
  BY <1>5, <1>7, <1>8, <1>9, <1>10, <1>11

LEMMA FreePushStep ==
  ASSUME IInv, NEW t \in Threads, FreePush(t)
  PROVE  /\ IInv' /\ Confined(t)
         /\ Linked(current[t])'
         /\ \A c : Linked(c)' <=> (Linked(c) \/ c = current[t])
         /\ block[current[t]].next_free = heads[try_shard[t]]
         /\ block' = block /\ ~Linked(current[t])
<1> USE DEF IInv
<1>1. PICK b \in DOMAIN block : b = current[t]
  BY DEF FreePush, At, CallsSound, BlockSound
<1>2. PICK s \in Shards : s = try_shard[t]
  BY DEF TypeOK
<1>3. /\ pc[t] = "push" /\ pc'[t] = "unlock"
      /\ \A u \in Threads \ {t} : pc'[u] = pc[u]
      /\ block[b].next_free = heads[s] /\ block[b].shard = s
      /\ block[b].flags = BLOCK_FREE
      /\ block' = block /\ live' = live /\ issued' = issued
      /\ locks' = locks /\ locals' = locals
  BY <1>1, <1>2 DEF FreePush, At, Goto, ghosts, CallsSound,
                    BlockSound, FlightSound, TypeOK
<1>4. /\ heads'[s] = b /\ \A r \in Shards \ {s} : heads'[r] = heads[r]
      /\ heads' \in [Shards -> Nat] /\ b # Null
  BY <1>1, <1>2, BlockFacts DEF FreePush, TypeOK, HeapInv
<1>5. TypeOK'
  BY <1>3, <1>4 DEF FreePush, Goto, TypeOK, Labels, locks, locals
<1>6. MutualExclusion'
  BY <1>3 DEF locks, locals, MutualExclusion, InCriticalSection
<1>7. Handling(t, b) /\ \A u \in Threads : u # t => ~Handling(u, b)
  BY <1>1, <1>3, SoleHandler DEF Handling
<1>8. ~Linked(b) /\ Linked(b)' /\ \A c : Linked(c)' <=> (Linked(c) \/ c = b)
  <2>1. ~Linked(b)
    BY <1>7 DEF Linked, InFlight
  <2>2. \A u \in Threads : ~Handling(u, b)'
    BY <1>3, <1>7 DEF Handling, locals
  <2>3. Linked(b)'
    BY <2>2, <1>3 DEF Linked, InFlight
  <2>4. ASSUME NEW c, c # b PROVE Linked(c)' <=> Linked(c)
    <3>1. \A u \in Threads : Handling(u, c)' <=> Handling(u, c)
      BY <2>4, <1>1, <1>3 DEF Handling, locals
    <3>2. QED  BY <3>1, <1>3 DEF Linked, InFlight
  <2>5. QED  BY <2>1, <2>3, <2>4
<1>9. FreeListsSound'
  <2>1. ASSUME NEW r \in Shards, heads'[r] # Null
        PROVE  (Linked(heads[r]) /\ block[heads[r]].shard = r)'
    <3>1. PICK h : h = heads'[r]
      OBVIOUS
    <3>2. Linked(h)' /\ block'[h].shard = r
      <4>1. CASE r = s  BY <4>1, <3>1, <1>3, <1>4, <1>8
      <4>2. CASE r # s
        BY <4>2, <2>1, <3>1, <1>3, <1>4, <1>8 DEF HeapInv, FreeListsSound
      <4>3. QED  BY <4>1, <4>2
    <3>3. QED  BY <3>1, <3>2 DEF Linked, InFlight, Handling
  <2>2. ASSUME NEW c \in DOMAIN block, Linked(c)', block[c].next_free # Null
        PROVE  /\ Linked(block[c].next_free)'
               /\ block[block[c].next_free].shard = block[c].shard
               /\ \A r \in Shards : heads'[r] # block[c].next_free
               /\ \A d \in DOMAIN block :
                    Linked(d)' /\ block[d].next_free = block[c].next_free => d = c
    <3>1. PICK n : n = block[c].next_free
      OBVIOUS
    <3>2. Linked(n) /\ block[n].shard = block[c].shard /\ n # b
      <4>1. CASE c = b
        BY <4>1, <2>2, <3>1, <1>2, <1>3, <1>8 DEF HeapInv, FreeListsSound
      <4>2. CASE c # b
        BY <4>2, <2>2, <3>1, <1>8 DEF HeapInv, FreeListsSound
      <4>3. QED  BY <4>1, <4>2
    <3>3. Linked(n)'
      BY <3>2, <1>8
    <3>4. \A r \in Shards : heads'[r] # n
      <4>1. CASE c = b
        BY <4>1, <2>2, <3>1, <3>2, <1>3, <1>4 DEF HeapInv, FreeListsSound
      <4>2. CASE c # b
        BY <4>2, <2>2, <3>1, <3>2, <1>4, <1>8 DEF HeapInv, FreeListsSound
      <4>3. QED  BY <4>1, <4>2
    <3>5. ASSUME NEW d \in DOMAIN block, Linked(d)', block[d].next_free = n
          PROVE  d = c
      <4>1. \A e \in DOMAIN block : Linked(e) /\ e # b => block[e].next_free # heads[s]
                                                       \/ heads[s] = Null
        BY DEF HeapInv, FreeListsSound
      <4>2. QED
        BY <2>2, <3>1, <3>5, <4>1, <1>3, <1>8 DEF HeapInv, FreeListsSound
    <3>6. QED  BY <3>1, <3>2, <3>3, <3>4, <3>5, <1>3
              DEF Linked, InFlight, Handling
  <2>3. QED
    BY <2>1, <2>2, <1>3 DEF FreeListsSound, Linked, InFlight, Handling
<1>10. HeapInv'
  <2>1. \A u \in Threads : pc[u] = "take" =>
          /\ pc'[u] = "take" /\ current'[u] = current[u]
          /\ TakenSize(u)' = TakenSize(u)
    BY <1>3 DEF locals, TakenSize, Splits, Needed
  <2>2. BlocksDisjoint'
    BY <2>1, <1>3 DEF HeapInv, BlocksDisjoint
  <2>3. HeapTiled' /\ PayloadMarksAllocation'
    BY <1>3 DEF HeapInv, HeapTiled, PayloadMarksAllocation, MidStore, locals
  <2>4. QED  BY <2>2, <2>3, <1>9 DEF HeapInv
<1>11. CallsSound'
  <2>1. ASSUME NEW u \in Threads \ {t}
        PROVE  /\ RequestSound(u)' /\ WalkSound(u)'
               /\ BlockSound(u)' /\ FlightSound(u)'
    <3>1. SameLocals(u) /\ RequestSound(u) /\ WalkSound(u) /\ BlockSound(u)
          /\ FlightSound(u)
      BY <1>3 DEF SameLocals, locals, CallsSound
    <3>2. pc[u] \in {"walk", "push"} => heads'[try_shard[u]] = heads[try_shard[u]]
      BY <1>2, <1>3, <1>4, OtherShard DEF InCriticalSection, TypeOK
    <3>3. WalkSound(u)'
      BY <3>1, <3>2, <1>3, <1>8, OtherWalkers
    <3>4. RequestSound(u)' /\ BlockSound(u)'
      BY <3>1, <1>3 DEF RequestSound, BlockSound, SameLocals
    <3>5. FlightSound(u)'
      BY <3>1, <3>2, <1>3
         DEF FlightSound, SameLocals, locals, TakenSize, Splits, Needed
    <3>6. QED  BY <3>3, <3>4, <3>5
  <2>2. RequestSound(t)' /\ WalkSound(t)' /\ BlockSound(t)' /\ FlightSound(t)'
    BY <1>3 DEF RequestSound, WalkSound, BlockSound, FlightSound
  <2>3. QED  BY <2>1, <2>2 DEF CallsSound
<1>12. OwnershipSound'
  BY <1>3, SameOwnership DEF PendingFree, locals
<1>c. Confined(t)
  BY <1>2, <1>3, <1>4 DEF Confined
<1>13. QED
  BY <1>c, <1>1, <1>2, <1>3, <1>5, <1>6, <1>8, <1>10, <1>11, <1>12
     DEF locals, Linked, InFlight, Handling

LEMMA AllocTakeStep ==
  ASSUME IInv, NEW t \in Threads, AllocTake(t)
  PROVE  /\ IInv' /\ Confined(t)
         /\ \A c : Linked(c)' <=> Linked(c)
         /\ \A c : Linked(c) => block'[c] = block[c]
         /\ DOMAIN block' = DOMAIN block
<1> USE DEF IInv
<1>1. PICK b \in DOMAIN block : b = current[t]
  BY DEF AllocTake, At, CallsSound, BlockSound
<1>2. PICK s \in Shards : s = try_shard[t]
  BY DEF TypeOK
<1> DEFINE taken == TakenSize(t)
           p == block[b].payload_offset
<1>3. /\ pc[t] = "take" /\ pc'[t] = "fill"
      /\ \A u \in Threads \ {t} : pc'[u] = pc[u]
      /\ block[b].shard = s /\ block[b].flags = BLOCK_FREE
      /\ heads' = heads /\ locks' = locks /\ locals' = locals
      /\ block' = [block EXCEPT ![b] = Header(taken, Null, 0, s, p)]
      /\ live' = live /\ issued' = issued
      /\ RequestSound(t) /\ FlightSound(t)
  BY <1>1, <1>2 DEF AllocTake, At, Goto, CallsSound, BlockSound, FlightSound,
                    TypeOK, ghosts
<1>4. /\ block[b] \in Headers /\ b \in Heap /\ b \in Nat
      /\ MinBlockSize <= block[b].size /\ block[b].size \in Nat
      /\ size[t] \in Nat /\ alignment[t] \in Nat \ {0}
  BY <1>1, BlockFacts DEF TypeOK, HeapInv, Headers
<1>5. Needed(t) \in Nat /\ MinBlockSize <= Needed(t) /\ p \in Nat
  BY <1>1, <1>3, <1>4, RequestFacts DEF RequestSound, Needed, Headers
<1>6. /\ taken \in Nat /\ Needed(t) <= taken /\ taken <= block[b].size
      /\ MinBlockSize <= taken
      /\ b + taken \in DOMAIN block \cup {ShardEnd(s)}
  BY <1>1, <1>2, <1>3, <1>4, <1>5 DEF FlightSound, TakenSize
<1> HIDE DEF p, taken
<1>8. /\ DOMAIN block' = DOMAIN block
      /\ block'[b] = Header(taken, Null, 0, s, p)
      /\ \A c \in DOMAIN block \ {b} : block'[c] = block[c]
      /\ block'[b] \in Headers
  BY <1>3, <1>5, <1>6 DEF Header, Headers, Null
<1>9. TypeOK'
  <2>1. block' \in [DOMAIN block' -> Headers] /\ DOMAIN block' \subseteq Nat
    BY <1>3, <1>8 DEF TypeOK
  <2>2. pc' \in [Threads -> Labels]
    BY DEF AllocTake, Goto, TypeOK, Labels
  <2>3. QED
    BY <1>3, <1>8, <2>1, <2>2 DEF AllocTake, TypeOK, locks, locals
<1>10. MutualExclusion'
  BY <1>3 DEF locks, locals, MutualExclusion, InCriticalSection
<1>11. Handling(t, b) /\ \A u \in Threads : u # t => ~Handling(u, b)
  BY <1>1, <1>3, SoleHandler DEF Handling
<1>12. \A c : Linked(c)' <=> Linked(c)
  <2>1. ~Linked(b) /\ ~Linked(b)'
    BY <1>8, <1>11 DEF Linked, InFlight, BLOCK_FREE, Header
  <2>2. ASSUME NEW c, c # b PROVE Linked(c)' <=> Linked(c)
    <3>1. \A u \in Threads : Handling(u, c)' <=> Handling(u, c)
      BY <2>2, <1>1, <1>3 DEF Handling, locals
    <3>2. QED  BY <2>2, <3>1, <1>8 DEF Linked, InFlight
  <2>3. QED  BY <2>1, <2>2
<1>13. \A c : Linked(c) => c # b /\ c \in DOMAIN block /\ block'[c] = block[c]
  BY <1>8, <1>11 DEF Linked, InFlight
<1>14. \A u \in Threads : u # t /\ pc[u] \in {"take", "fill", "clear", "push"} =>
         /\ current[u] # b /\ current[u] \in DOMAIN block
         /\ block'[current[u]] = block[current[u]]
         /\ pc'[u] = pc[u] /\ current'[u] = current[u]
         /\ Needed(u)' = Needed(u) /\ TakenSize(u)' = TakenSize(u)
  BY <1>1, <1>3, <1>8, SoleHandler
     DEF locals, Needed, TakenSize, Splits, CallsSound, BlockSound
<1>15. BlocksDisjoint'
  <2> SUFFICES ASSUME NEW c \in DOMAIN block, NEW d \in DOMAIN block, c < d,
                      ~(c + block'[c].size <= d)
               PROVE  \E u \in Threads : /\ pc'[u] = "take" /\ current'[u] = c
                                         /\ c + TakenSize(u)' <= d
    BY <1>8 DEF BlocksDisjoint
  <2>1. \/ c + block[c].size <= d
        \/ \E u \in Threads : /\ pc[u] = "take" /\ current[u] = c
                              /\ c + TakenSize(u) <= d
    BY DEF HeapInv, BlocksDisjoint
  <2>2. CASE c = b
    <3>1. block'[b].size = taken
      BY <1>8 DEF Header
    <3>2. \A u \in Threads : pc[u] = "take" /\ current[u] = b => u = t
      BY <1>11 DEF Handling
    <3>3. d \in Nat
      BY DEF TypeOK
    <3>4. QED  BY <2>1, <2>2, <3>1, <3>2, <3>3, <1>4, <1>6 DEF taken
  <2>3. CASE c # b
    BY <2>1, <2>3, <1>1, <1>8, <1>14
  <2>4. QED  BY <2>2, <2>3
<1>16. HeapTiled'
  <2>1. ASSUME NEW c \in DOMAIN block
        PROVE  /\ ShardStart(block'[c].shard) <= c
               /\ c + block'[c].size <= ShardEnd(block'[c].shard)
               /\ MinBlockSize <= block'[c].size
               /\ c + block'[c].size \in DOMAIN block \cup {ShardEnd(block'[c].shard)}
    <3>1. CASE c = b
      <4>1. block'[c].shard = s /\ block'[c].size = taken
        BY <3>1, <1>8 DEF Header
      <4>2. ShardStart(s) <= b /\ b + block[b].size <= ShardEnd(s)
            /\ ShardEnd(s) \in Nat
        BY <1>3, ShardFacts DEF HeapInv, HeapTiled
      <4>3. QED  BY <3>1, <4>1, <4>2, <1>4, <1>6
    <3>2. CASE c # b
      BY <3>2, <1>8 DEF HeapInv, HeapTiled
    <3>3. QED  BY <3>1, <3>2
  <2>2. QED  BY <2>1, <1>8 DEF HeapTiled
<1>17. FreeListsSound'
  BY <1>3, <1>8, <1>12, <1>13 DEF HeapInv, FreeListsSound
<1>18. PayloadMarksAllocation'
  <2>1. MidStore(b)'
    BY <1>1, <1>3 DEF MidStore, locals
  <2>2. \A c \in DOMAIN block : c # b /\ MidStore(c) => MidStore(c)'
    BY <1>1, <1>3, <1>14 DEF MidStore
  <2>3. QED  BY <2>1, <2>2, <1>8 DEF HeapInv, PayloadMarksAllocation
<1>19. CallsSound'
  <2>1. ASSUME NEW u \in Threads \ {t}
        PROVE  /\ RequestSound(u)' /\ WalkSound(u)'
               /\ BlockSound(u)' /\ FlightSound(u)'
    <3>1. SameLocals(u) /\ RequestSound(u) /\ WalkSound(u) /\ BlockSound(u)
          /\ FlightSound(u)
      BY <1>3 DEF SameLocals, locals, CallsSound
    <3>2. WalkSound(u)'
      BY <3>1, <1>3, <1>12, <1>13, OtherWalkers
    <3>3. RequestSound(u)'
      BY <3>1 DEF RequestSound, SameLocals
    <3>4. BlockSound(u)'
      BY <3>1, <1>3, <1>8 DEF BlockSound, SameLocals, Header
    <3>5. FlightSound(u)'
      BY <3>1, <1>3, <1>8, <1>14 DEF FlightSound, SameLocals
    <3>6. QED  BY <3>2, <3>3, <3>4, <3>5
  <2>2. RequestSound(t)' /\ WalkSound(t)' /\ BlockSound(t)' /\ FlightSound(t)'
    <3>1. Needed(t)' = Needed(t)
      BY <1>3 DEF Needed, locals
    <3>2. current'[t] = b /\ try_shard'[t] = s /\ size'[t] = size[t]
          /\ alignment'[t] = alignment[t]
          /\ block'[b].flags = 0 /\ block'[b].size = taken /\ block'[b].shard = s
      BY <1>1, <1>2, <1>3, <1>8 DEF locals, Header
    <3>3. QED
      BY <3>1, <3>2, <1>3, <1>6, <1>8
         DEF RequestSound, WalkSound, BlockSound, FlightSound
  <2>3. QED  BY <2>1, <2>2 DEF CallsSound
<1>20. OwnershipSound'
  <2> SUFFICES ASSUME OwnedFrees PROVE OwnershipSound'
    BY DEF OwnershipSound
  <2>1. \A u \in Threads : PendingFree(u)' <=> PendingFree(u)
    BY <1>3 DEF PendingFree
  <2>2. \A u \in Threads : PendingFree(u) => current[u] # b /\ current[u] \in DOMAIN block
    BY <1>3 DEF OwnershipSound, BLOCK_FREE, CallsSound, BlockSound, PendingFree
  <2>3. b \notin DOMAIN live
    BY <1>3 DEF OwnershipSound, LiveIntact, BLOCK_FREE
  <2>4. LiveIntact' /\ \A c \in DOMAIN live' : issued'[c] # 0
    BY <1>3, <1>8, <2>3 DEF OwnershipSound, LiveIntact, TypeOK
  <2>5. \A u \in Threads : pc'[u] = "fill" => u = t \/ pc[u] = "fill"
    BY <1>3
  <2>6. QED
    BY <1>1, <1>3, <1>8, <2>1, <2>2, <2>3, <2>4, <2>5 DEF OwnershipSound, locals
<1>c. Confined(t)
  BY <1>1, <1>2, <1>3, <1>8 DEF Confined, Header
<1>21. QED
  BY <1>c, <1>8, <1>9, <1>10, <1>12, <1>13, <1>15, <1>16, <1>17, <1>18, <1>19, <1>20
     DEF HeapInv

LEMMA AllocFillStep ==
  ASSUME IInv, NEW t \in Threads, AllocFill(t)
  PROVE  /\ IInv' /\ Confined(t)
         /\ \A c : Linked(c)' <=> Linked(c)
         /\ \A c : Linked(c) => block'[c] = block[c]
         /\ DOMAIN block' = DOMAIN block
<1> USE DEF IInv
<1>1. PICK b \in DOMAIN block : b = current[t]
  BY DEF AllocFill, At, CallsSound, BlockSound
<1> DEFINE p == PayloadOffset(b, alignment[t])
           request == [size |-> size[t], alignment |-> alignment[t]]
<1>2. /\ pc[t] = "fill" /\ pc'[t] = "unlock"
      /\ \A u \in Threads \ {t} : pc'[u] = pc[u]
      /\ block[b].flags = 0 /\ Needed(t) <= block[b].size
      /\ heads' = heads /\ locks' = locks /\ locals' = locals
      /\ block' = [block EXCEPT ![b].payload_offset = p]
      /\ live' = [c \in DOMAIN live \cup {b} |->
                    IF c = b THEN request ELSE live[c]]
      /\ issued' = [issued EXCEPT ![b] = p]
      /\ RequestSound(t)
  BY <1>1 DEF AllocFill, At, Goto, CallsSound, FlightSound, TypeOK
<1>3. /\ block[b] \in Headers /\ b \in Heap /\ b \in Nat
      /\ block[b].size \in Nat
      /\ size[t] \in Nat /\ alignment[t] \in Nat \ {0}
  BY <1>1, BlockFacts DEF TypeOK, HeapInv, Headers
<1>4. /\ p \in Nat /\ BlockHeaderSize + PrefixSize <= p
      /\ (b + p) % alignment[t] = 0
      /\ Needed(t) \in Nat /\ p + size[t] <= Needed(t)
  BY <1>1, <1>2, <1>3, RequestFacts DEF RequestSound, Needed
<1>5. p # 0
  BY <1>4, LayoutAssumption
<1> HIDE DEF p, request
<1>6. /\ DOMAIN block' = DOMAIN block
      /\ \A c \in DOMAIN block \ {b} : block'[c] = block[c]
      /\ block'[b].size = block[b].size /\ block'[b].shard = block[b].shard
      /\ block'[b].flags = 0 /\ block'[b].payload_offset = p
      /\ block'[b] \in Headers
  BY <1>2, <1>3, <1>4 DEF Headers
<1>7. TypeOK'
  <2>1. block' \in [DOMAIN block' -> Headers] /\ DOMAIN block' \subseteq Nat
    <3>1. block' = [c \in DOMAIN block' |-> block'[c]]
      BY <1>2
    <3>2. \A c \in DOMAIN block' : block'[c] \in Headers
      BY <1>6 DEF TypeOK
    <3>3. QED  BY <3>1, <3>2, <1>6 DEF TypeOK
  <2>2. /\ DOMAIN live' \subseteq DOMAIN block'
        /\ live' \in [DOMAIN live' -> [size : Nat, alignment : Nat]]
        /\ issued' \in [DOMAIN block' -> Nat]
    BY <1>2, <1>3, <1>4, <1>6 DEF TypeOK, request
  <2>3. pc' \in [Threads -> Labels]
    BY DEF AllocFill, Goto, TypeOK, Labels
  <2>4. QED
    BY <1>2, <2>1, <2>2, <2>3 DEF AllocFill, TypeOK, locks, locals
<1>8. /\ MutualExclusion' /\ Confined(t)
      /\ \A c : Linked(c)' <=> Linked(c)
      /\ \A c : Linked(c) => block'[c] = block[c]
      /\ BlocksDisjoint' /\ HeapTiled' /\ FreeListsSound'
      /\ \A c \in DOMAIN block \ {b} :
           MidStore(c)' \/ (block'[c].flags = BLOCK_FREE
                            <=> block'[c].payload_offset = 0)
      /\ \A u \in Threads \ {t} : /\ RequestSound(u)' /\ WalkSound(u)'
                                  /\ BlockSound(u)' /\ FlightSound(u)'
  BY <1>1, <1>2, <1>6, HeaderStep
<1>9. HeapInv'
  BY <1>5, <1>6, <1>8 DEF HeapInv, PayloadMarksAllocation, BLOCK_FREE
<1>10. CallsSound'
  <2>1. RequestSound(t)' /\ WalkSound(t)' /\ BlockSound(t)' /\ FlightSound(t)'
    BY <1>2 DEF RequestSound, WalkSound, BlockSound, FlightSound
  <2>2. QED  BY <1>8, <2>1 DEF CallsSound
<1>11. OwnershipSound'
  <2> SUFFICES ASSUME OwnedFrees PROVE OwnershipSound'
    BY DEF OwnershipSound
  <2>1. \A u \in Threads : PendingFree(u)' <=> PendingFree(u)
    BY <1>2 DEF PendingFree
  <2>2. \A u \in Threads : PendingFree(u) => current[u] # b /\ current[u] \in DOMAIN block
    BY <1>1, <1>2 DEF OwnershipSound, CallsSound, BlockSound, PendingFree
  <2>3. DOMAIN live' = DOMAIN live \cup {b}
    BY <1>2
  <2>4. \A c \in DOMAIN live' : issued'[c] # 0
    BY <1>2, <1>5, <2>3 DEF OwnershipSound, TypeOK
  <2>5. LiveIntact'
    <3>1. ASSUME NEW c \in DOMAIN live'
          PROVE  /\ block'[c].flags = 0
                 /\ BlockHeaderSize + PrefixSize <= block'[c].payload_offset
                 /\ block'[c].payload_offset + live'[c].size <= block'[c].size
                 /\ (c + block'[c].payload_offset) % live'[c].alignment = 0
      <4>1. CASE c = b
        <5>1. live'[c] = request
          BY <4>1, <1>2, <2>3
        <5>2. QED  BY <4>1, <5>1, <1>2, <1>3, <1>4, <1>6 DEF request
      <4>2. CASE c # b
        BY <4>2, <2>3, <1>2, <1>6 DEF OwnershipSound, LiveIntact, TypeOK
      <4>3. QED  BY <4>1, <4>2
    <3>2. QED  BY <3>1 DEF LiveIntact
  <2>6. \A u \in Threads : pc'[u] = "fill" =>
           u # t /\ pc[u] = "fill" /\ current[u] # b
    BY <1>1, <1>2, SoleHandler
  <2>7. QED
    BY <1>2, <1>6, <2>1, <2>2, <2>3, <2>4, <2>5, <2>6 DEF OwnershipSound, locals
<1>12. QED
  BY <1>6, <1>7, <1>8, <1>9, <1>10, <1>11

(* The one link that leads to the block a walk stands on is the one the    *)
(* walk remembers; a cycle-free list does not lead from a block to itself. *)
LEMMA WalkLink ==
  ASSUME IInv, Acyclic, NEW t \in Threads, pc[t] = "walk", current[t] # Null,
         NEW b \in DOMAIN block, b = current[t]
  PROVE  /\ block[b].next_free # b
         /\ link[t] = Null =>
              /\ heads[try_shard[t]] = b
              /\ \A c : Linked(c) => block[c].next_free # b
         /\ link[t] # Null =>
              /\ Linked(link[t]) /\ link[t] \in DOMAIN block /\ link[t] # b
              /\ block[link[t]].shard = try_shard[t]
              /\ block[link[t]].next_free = b
              /\ \A r \in Shards : heads[r] # b
              /\ \A c : Linked(c) /\ c # link[t] => block[c].next_free # b
<1> USE DEF IInv
<1>1. Linked(b) /\ WalkSound(t) /\ try_shard[t] \in Shards
  BY WalkFacts DEF CallsSound, TypeOK
<1>2. block[b].next_free # b
  <2>1. PICK r : Ranks(r)
    BY DEF Acyclic
  <2>2. r[b] \in Nat
    BY <2>1 DEF Ranks
  <2>3. QED  BY <1>1, <2>1, <2>2 DEF Ranks
<1>3. \A c : Linked(c) => c \in DOMAIN block
  BY DEF Linked
<1>4. CASE link[t] = Null
  <2>1. heads[try_shard[t]] = b
    BY <1>1, <1>4 DEF WalkSound
  <2>2. QED  BY <1>1, <1>2, <1>3, <1>4, <2>1 DEF HeapInv, FreeListsSound
<1>5. CASE link[t] # Null
  <2>1. PICK l \in DOMAIN block : l = link[t] /\ Linked(l)
          /\ block[l].shard = try_shard[t] /\ block[l].next_free = b
    BY <1>1, <1>3, <1>5 DEF WalkSound
  <2>2. l # b
    BY <1>2, <2>1
  <2>3. QED  BY <1>2, <1>3, <1>5, <2>1, <2>2 DEF HeapInv, FreeListsSound
<1>6. QED  BY <1>4, <1>5

\* Carving redirects the link of thread t from the block it is at to n, and
\* leaves the rest of the headers alone ...
Redirects(t, n) ==
  /\ \A c \in DOMAIN block :
       /\ block'[c].size = block[c].size /\ block'[c].flags = block[c].flags
       /\ block'[c].shard = block[c].shard
       /\ block'[c].payload_offset = block[c].payload_offset
       /\ block'[c].next_free = IF c = link[t] THEN n ELSE block[c].next_free
  /\ \A r \in Shards : heads'[r] =
       IF link[t] = Null /\ r = try_shard[t] THEN n ELSE heads[r]
\* ... where n is a new block in place of the current one, or the block behind
\* the current one.
PutsInPlace(t, n) ==
  /\ n \notin DOMAIN block /\ DOMAIN block' = DOMAIN block \cup {n}
  /\ Redirects(t, n)
  /\ block'[n].flags = BLOCK_FREE /\ block'[n].shard = try_shard[t]
  /\ block'[n].next_free = block[current[t]].next_free
  /\ \A c : Linked(c)' <=> (Linked(c) /\ c # current[t]) \/ c = n
Skips(t) ==
  /\ DOMAIN block' = DOMAIN block
  /\ Redirects(t, block[current[t]].next_free)
  /\ \A c : Linked(c)' <=> Linked(c) /\ c # current[t]

LEMMA AllocSplitStep ==
  ASSUME IInv, Acyclic, NEW t \in Threads, AllocSplit(t)
  PROVE  IInv' /\ Acyclic' /\ Confined(t) /\ \E n : PutsInPlace(t, n)
<1> USE DEF IInv
<1>1. pc[t] = "walk" /\ current[t] # Null /\ t \notin crashed
      /\ Fits(t) /\ Splits(t)
  BY DEF AllocSplit, Visiting, At
<1>2. PICK b \in DOMAIN block : b = current[t]
  BY <1>1, WalkFacts
<1>3. PICK s \in Shards : s = try_shard[t]
  BY DEF TypeOK
<1>4. /\ Linked(b) /\ b \in Heap /\ b \in Nat /\ block[b] \in Headers
      /\ block[b].shard = s /\ block[b].flags = BLOCK_FREE
      /\ Needed(t) \in Nat /\ MinBlockSize <= Needed(t)
      /\ block[b].size \in Nat /\ block[b].next_free \in Nat
  BY <1>1, <1>2, <1>3, WalkFacts DEF TypeOK, Headers
<1>5. PICK n : n = b + Needed(t)
  OBVIOUS
<1> DEFINE rest == Header(block[b].size - Needed(t), block[b].next_free,
                          BLOCK_FREE, s, 0)
           mem == [c \in DOMAIN block \cup {n} |->
                     IF c = n THEN rest ELSE block[c]]
<1>6. /\ pc'[t] = "take" /\ \A u \in Threads \ {t} : pc'[u] = pc[u]
      /\ pc' \in [Threads -> Labels]
      /\ locks' = locks /\ locals' = locals /\ live' = live
      /\ issued' = [c \in DOMAIN block \cup {n} |->
                      IF c = n THEN 0 ELSE issued[c]]
      /\ StoreLink(t, mem, n)
  BY <1>2, <1>3, <1>5 DEF AllocSplit, Goto, TypeOK, Labels
<1>7. /\ n \in Nat /\ b < n /\ n < b + block[b].size
      /\ rest \in Headers /\ MinBlockSize <= rest.size /\ rest.size \in Nat
      /\ n + rest.size = b + block[b].size
      /\ rest.next_free = block[b].next_free /\ rest.flags = BLOCK_FREE
      /\ rest.shard = s /\ rest.payload_offset = 0
  <2>1. block[b].size - Needed(t) \in Nat
        /\ MinBlockSize <= block[b].size - Needed(t)
    BY <1>1, <1>2, <1>4 DEF Fits, Splits
  <2>2. QED  BY <1>4, <1>5, <2>1, MinBlockFacts DEF Header, Headers
<1>8. n \notin DOMAIN block
  <2> SUFFICES ASSUME n \in DOMAIN block PROVE FALSE
    OBVIOUS
  <2>1. PICK u \in Threads : pc[u] = "take" /\ current[u] = b
    BY <1>4, <1>7 DEF HeapInv, BlocksDisjoint
  <2>2. QED  BY <2>1, <1>4 DEF Linked, InFlight, Handling
<1>9. Null \notin DOMAIN block /\ n # Null
  BY <1>7, BlockFacts, <1>4 DEF HeapInv, Null
<1> HIDE DEF rest
(* The memory after the step. *)
<1>10. /\ DOMAIN block' = DOMAIN block \cup {n}
       /\ block'[n] = rest
       /\ \A c \in DOMAIN block : c # link[t] => block'[c] = block[c]
       /\ \A c \in DOMAIN block :
            /\ block'[c].size = block[c].size /\ block'[c].flags = block[c].flags
            /\ block'[c].shard = block[c].shard
            /\ block'[c].payload_offset = block[c].payload_offset
            /\ block'[c].next_free =
                 IF c = link[t] THEN n ELSE block[c].next_free
       /\ block' \in [DOMAIN block' -> Headers]
       /\ \A r \in Shards : heads'[r] =
            IF link[t] = Null /\ r = s THEN n ELSE heads[r]
       /\ heads' \in [Shards -> Nat]
  <2>1. mem \in [DOMAIN block \cup {n} -> Headers] /\ mem[n] = rest
        /\ \A c \in DOMAIN block : mem[c] = block[c]
    BY <1>7, <1>8 DEF TypeOK
  <2>2. CASE link[t] = Null
    BY <2>1, <2>2, <1>3, <1>6, <1>7, <1>9 DEF StoreLink, TypeOK
  <2>3. CASE link[t] # Null
    <3>1. PICK l \in DOMAIN block : l = link[t]
      BY <2>3, <1>1, <1>2, WalkLink
    <3>2. l # n
      BY <1>8, <3>1
    <3>3. block' = [mem EXCEPT ![l].next_free = n] /\ heads' = heads
      BY <1>6, <2>3, <3>1 DEF StoreLink
    <3> HIDE DEF mem
    <3>4. mem[l] \in Headers
      BY <2>1
    <3>5. [mem[l] EXCEPT !.next_free = n] \in Headers
      BY <3>4, <1>7 DEF Headers
    <3>6. block' = [mem EXCEPT ![l] = [mem[l] EXCEPT !.next_free = n]]
      BY <3>3, <2>1
    <3>7. /\ DOMAIN block' = DOMAIN block \cup {n}
          /\ block' \in [DOMAIN block \cup {n} -> Headers]
          /\ block'[l] = [mem[l] EXCEPT !.next_free = n]
          /\ \A c \in DOMAIN block \cup {n} : c # l => block'[c] = mem[c]
      BY <2>1, <3>1, <3>5, <3>6
    <3>8. /\ block'[l].size = block[l].size /\ block'[l].flags = block[l].flags
          /\ block'[l].shard = block[l].shard
          /\ block'[l].payload_offset = block[l].payload_offset
          /\ block'[l].next_free = n
      BY <2>1, <3>1, <3>4, <3>7 DEF Headers
    <3>9. QED
      BY <2>1, <2>3, <3>1, <3>2, <3>3, <3>7, <3>8, <1>8 DEF TypeOK
  <2>4. QED  BY <2>2, <2>3
<1> HIDE DEF mem
<1>11. TypeOK'
  BY <1>6, <1>7, <1>10 DEF AllocSplit, TypeOK, locks, locals
<1>12. MutualExclusion'
  BY <1>1, <1>6 DEF locks, locals, MutualExclusion, InCriticalSection
<1>13. \A c : Linked(c)' <=> (Linked(c) /\ c # b) \/ c = n
  <2>1. ~Linked(b)'
    BY <1>2, <1>6 DEF Linked, InFlight, Handling, locals
  <2>2. \A u \in Threads : pc[u] \in {"take", "fill", "clear", "push"} => current[u] # n
    BY <1>8 DEF CallsSound, BlockSound
  <2>3. Linked(n)'
    BY <2>2, <1>2, <1>6, <1>7, <1>10 DEF Linked, InFlight, Handling, locals
  <2>4. ASSUME NEW c, c # b, c # n PROVE Linked(c)' <=> Linked(c)
    <3>1. \A u \in Threads : Handling(u, c)' <=> Handling(u, c)
      BY <2>4, <1>1, <1>2, <1>6 DEF Handling, locals
    <3>2. QED  BY <2>4, <3>1, <1>10 DEF Linked, InFlight
  <2>5. QED  BY <2>1, <2>3, <2>4, <1>7
<1>14. \A c : Linked(c) => c \in DOMAIN block /\ c # n /\ c # Null
  BY <1>8, <1>9 DEF Linked
<1>15. /\ block[b].next_free # b
       /\ link[t] = Null =>
            heads[s] = b /\ \A c : Linked(c) => block[c].next_free # b
       /\ link[t] # Null =>
            /\ Linked(link[t]) /\ link[t] \in DOMAIN block /\ link[t] # b
            /\ block[link[t]].shard = s /\ block[link[t]].next_free = b
            /\ \A r \in Shards : heads[r] # b
            /\ \A c : Linked(c) /\ c # link[t] => block[c].next_free # b
  BY <1>1, <1>2, <1>3, WalkLink
(* Every link leads to a listed block of its shard, and no two to one. *)
<1>16. FreeListsSound'
  <2>1. ASSUME NEW r \in Shards, heads'[r] # Null
        PROVE  (Linked(heads[r]) /\ block[heads[r]].shard = r)'
    <3>1. PICK h : h = heads'[r]
      OBVIOUS
    <3>2. Linked(h)' /\ block'[h].shard = r
      <4>1. CASE link[t] = Null /\ r = s
        BY <4>1, <3>1, <1>7, <1>10, <1>13
      <4>2. CASE ~(link[t] = Null /\ r = s)
        <5>1. h = heads[r] /\ Linked(h) /\ block[h].shard = r
          BY <4>2, <2>1, <3>1, <1>10 DEF HeapInv, FreeListsSound
        <5>2. h # b
          BY <5>1, <4>2, <1>4, <1>15
        <5>3. QED  BY <5>1, <5>2, <1>10, <1>13, <1>14
      <4>3. QED  BY <4>1, <4>2
    <3>3. QED  BY <3>1, <3>2 DEF Linked, InFlight, Handling
  <2>2. ASSUME NEW c, Linked(c)', block'[c].next_free # Null
        PROVE  \E m : /\ m = block'[c].next_free
                      /\ Linked(m)' /\ block'[m].shard = block'[c].shard
                      /\ \A r \in Shards : heads'[r] # m
                      /\ \A d : Linked(d)' /\ block'[d].next_free = m => d = c
    <3>1. PICK m : m = block'[c].next_free
      OBVIOUS
    <3>2. CASE c = link[t] /\ c # n
      <4>1. Linked(c) /\ c # Null /\ m = n /\ block'[c].shard = s
        BY <3>1, <3>2, <2>2, <1>10, <1>13, <1>14, <1>15
      <4>2. \A r \in Shards : heads[r] # n
        BY <1>8, <1>9 DEF HeapInv, FreeListsSound, Linked
      <4>3. \A d : Linked(d) => block[d].next_free # n
        BY <1>8, <1>9 DEF HeapInv, FreeListsSound, Linked
      <4>4. \A d : Linked(d)' /\ block'[d].next_free = n => d = c
        BY <4>3, <3>2, <1>7, <1>10, <1>13, <1>14, <1>4
      <4>5. QED
        BY <3>1, <3>2, <4>1, <4>2, <4>4, <1>7, <1>10, <1>13
    <3>3. CASE c = n
      <4>1. m = block[b].next_free /\ m # Null
        BY <3>1, <3>3, <2>2, <1>7, <1>10
      <4>2. /\ Linked(m) /\ block[m].shard = s
            /\ \A r \in Shards : heads[r] # m
            /\ \A d \in DOMAIN block : Linked(d) /\ block[d].next_free = m => d = b
        BY <4>1, <1>4 DEF HeapInv, FreeListsSound
      <4>3. m # b /\ m # n
        BY <4>1, <4>2, <1>14, <1>15
      <4>4. Linked(m)' /\ block'[m].shard = s /\ block'[n].shard = s
        BY <4>2, <4>3, <1>7, <1>10, <1>13, <1>14
      <4>5. \A r \in Shards : heads'[r] # m
        BY <4>2, <4>3, <1>10
      <4>6. \A d : Linked(d)' /\ block'[d].next_free = m => d = n
        BY <4>2, <4>3, <1>10, <1>13, <1>14
      <4>7. QED  BY <3>1, <3>3, <4>4, <4>5, <4>6
    <3>4. CASE c # n /\ c # link[t]
      <4>1. Linked(c) /\ c # b /\ c \in DOMAIN block /\ m = block[c].next_free
            /\ m # Null /\ block'[c].shard = block[c].shard
        BY <3>1, <3>4, <2>2, <1>10, <1>13, <1>14
      <4>2. /\ Linked(m) /\ block[m].shard = block[c].shard
            /\ \A r \in Shards : heads[r] # m
            /\ \A d \in DOMAIN block : Linked(d) /\ block[d].next_free = m => d = c
        BY <4>1 DEF HeapInv, FreeListsSound
      <4>3. m # b /\ m # n
        BY <4>1, <4>2, <3>4, <1>14, <1>15
      <4>4. Linked(m)' /\ block'[m].shard = block'[c].shard
        BY <4>1, <4>2, <4>3, <1>10, <1>13, <1>14
      <4>5. \A r \in Shards : heads'[r] # m
        BY <4>2, <4>3, <1>10
      <4>6. block[b].next_free # m
        BY <4>1, <4>2, <1>4
      <4>7. \A d : Linked(d)' /\ block'[d].next_free = m => d = c
        BY <4>2, <4>3, <4>6, <1>7, <1>10, <1>13, <1>14
      <4>8. QED  BY <3>1, <4>4, <4>5, <4>7
    <3>5. QED  BY <3>2, <3>3, <3>4
  <2>3. QED
    BY <2>1, <2>2 DEF FreeListsSound, Linked, InFlight, Handling
<1>17. Acyclic'
  <2>1. PICK r : Ranks(r)
    BY DEF Acyclic
  <2>q. PICK q : q = [c \in DOMAIN block' |-> IF c = n THEN r[b] ELSE r[c]]
    OBVIOUS
  <2>2. q \in [DOMAIN block' -> Nat] /\ q[n] = r[b]
        /\ \A c \in DOMAIN block : q[c] = r[c] /\ r[c] \in Nat
    BY <2>q, <2>1, <1>8, <1>10 DEF Ranks
  <2>3. ASSUME NEW c \in DOMAIN block', Linked(c)', block'[c].next_free # Null
        PROVE  q[block'[c].next_free] < q[c]
    <3>1. CASE c = n
      <4>1. block'[c].next_free = block[b].next_free
            /\ Linked(block[b].next_free) /\ r[block[b].next_free] < r[b]
        BY <3>1, <2>1, <2>3, <1>4, <1>7, <1>10
           DEF Ranks, HeapInv, FreeListsSound
      <4>2. QED  BY <3>1, <4>1, <2>2, <1>14
    <3>2. CASE c # n /\ c = link[t]
      <4>1. Linked(c) /\ c \in DOMAIN block /\ block[c].next_free = b
            /\ block'[c].next_free = n /\ b # Null
        BY <3>2, <2>3, <1>9, <1>10, <1>13, <1>14, <1>15
      <4>2. r[b] < r[c]
        BY <4>1, <2>1 DEF Ranks
      <4>3. QED  BY <4>1, <4>2, <2>2
    <3>3. CASE c # n /\ c # link[t]
      <4>1. Linked(c) /\ c \in DOMAIN block
            /\ block'[c].next_free = block[c].next_free
            /\ Linked(block[c].next_free)
        BY <3>3, <2>3, <1>10, <1>13, <1>14 DEF HeapInv, FreeListsSound
      <4>2. r[block[c].next_free] < r[c]
        BY <4>1, <2>1, <2>3 DEF Ranks
      <4>3. QED  BY <4>1, <4>2, <2>2, <1>14
    <3>4. QED  BY <3>1, <3>2, <3>3
  <2>4. Ranks(q)'
    BY <2>2, <2>3 DEF Ranks
  <2>5. QED  BY <2>4 DEF Acyclic
<1>18. \A u \in Threads : u # t /\ pc[u] \in {"take", "fill", "clear", "push"} =>
         /\ current[u] \in DOMAIN block /\ current[u] # b
         /\ current[u] # link[t]
         /\ block'[current[u]] = block[current[u]]
         /\ pc'[u] = pc[u] /\ current'[u] = current[u]
         /\ Needed(u)' = Needed(u) /\ TakenSize(u)' = TakenSize(u)
  <2> SUFFICES ASSUME NEW u \in Threads, u # t,
                      pc[u] \in {"take", "fill", "clear", "push"}
               PROVE  /\ current[u] \in DOMAIN block /\ current[u] # b
                      /\ current[u] # link[t]
                      /\ block'[current[u]] = block[current[u]]
                      /\ pc'[u] = pc[u] /\ current'[u] = current[u]
                      /\ Needed(u)' = Needed(u) /\ TakenSize(u)' = TakenSize(u)
    OBVIOUS
  <2>1. current[u] \in DOMAIN block /\ ~Linked(current[u])
    BY DEF CallsSound, BlockSound, FlightSound, Linked, InFlight, Handling,
           BLOCK_FREE
  <2>2. current[u] # b /\ current[u] # link[t]
    BY <2>1, <1>4, <1>9, <1>15
  <2>3. block'[current[u]] = block[current[u]]
    BY <2>1, <2>2, <1>10
  <2>4. QED
    BY <2>1, <2>2, <2>3, <1>6 DEF locals, Needed, TakenSize, Splits
<1>19. TakenSize(t)' = Needed(t) /\ Needed(t)' = Needed(t)
  <2>1. Needed(t)' = Needed(t)
    BY <1>6 DEF Needed, locals
  <2>2. Splits(t)' <=> Splits(t)
    BY <2>1, <1>2, <1>6, <1>10 DEF Splits, locals
  <2>3. QED  BY <1>1, <2>1, <2>2 DEF TakenSize
<1>20. BlocksDisjoint'
  <2> SUFFICES ASSUME NEW c \in DOMAIN block', NEW d \in DOMAIN block', c < d,
                      ~(c + block'[c].size <= d)
               PROVE  \E u \in Threads : /\ pc'[u] = "take" /\ current'[u] = c
                                         /\ c + TakenSize(u)' <= d
    BY DEF BlocksDisjoint
  <2>1. \A x, y \in DOMAIN block : x < y =>
          \/ x + block[x].size <= y
          \/ \E u \in Threads : /\ u # t /\ pc[u] = "take" /\ current[u] = x
                                /\ x + TakenSize(u) <= y
    BY <1>1 DEF HeapInv, BlocksDisjoint
  <2>2. \A u \in Threads : pc[u] = "take" => current[u] # b
    BY <1>1, <1>18
  <2>3. c \in Nat /\ d \in Nat
    BY <1>11 DEF TypeOK
  <2>4. CASE c = n
    (* d lies behind b, hence behind the end of b, where n ends. *)
    <3>1. d \in DOMAIN block /\ b < d
      BY <2>3, <2>4, <1>4, <1>7, <1>10
    <3>2. b + block[b].size <= d
      BY <2>1, <2>2, <3>1
    <3>3. QED  BY <2>3, <2>4, <3>2, <1>7, <1>10
  <2>5. CASE c = b /\ d = n
    BY <2>5, <1>2, <1>4, <1>5, <1>6, <1>19 DEF locals
  <2>6. CASE c = b /\ d # n
    BY <2>1, <2>2, <2>6, <1>10
  <2>7. CASE c # n /\ c # b
    <3>1. c \in DOMAIN block /\ block'[c].size = block[c].size
          /\ block[c].size \in Nat
      BY <2>7, <1>10 DEF TypeOK, Headers
    <3>2. CASE d # n
      <4>1. d \in DOMAIN block
        BY <3>2, <1>10
      <4>2. PICK u \in Threads : /\ u # t /\ pc[u] = "take" /\ current[u] = c
                                 /\ c + TakenSize(u) <= d
        BY <2>1, <3>1, <4>1
      <4>3. QED  BY <4>2, <1>18
    <3>3. CASE d = n
      (* c < n and c # b: either c < b, or c lies inside b, which it cannot. *)
      <4>1. c < b
        <5> SUFFICES ASSUME b < c PROVE FALSE
          BY <2>3, <2>7, <1>4
        <5>1. b + block[b].size <= c
          BY <2>1, <2>2, <3>1
        <5>2. QED  BY <5>1, <3>3, <2>3, <1>4, <1>7
      <4>2. CASE c + block[c].size <= b
        BY <4>2, <3>1, <3>3, <2>3, <1>4, <1>7
      <4>3. CASE ~(c + block[c].size <= b)
        <5>1. PICK u \in Threads : /\ u # t /\ pc[u] = "take" /\ current[u] = c
                                   /\ c + TakenSize(u) <= b
          BY <2>1, <3>1, <4>1, <4>3
        <5>2. TakenSize(u) \in Nat
          <6>1. /\ RequestSound(u) /\ c \in Heap /\ size[u] \in Nat
                /\ alignment[u] \in Nat \ {0}
            BY <3>1, BlockFacts DEF CallsSound, TypeOK, HeapInv
          <6>2. Needed(u) \in Nat
            BY <5>1, <6>1, RequestFacts DEF RequestSound, Needed
          <6>3. QED  BY <6>2, <5>1, <3>1 DEF TakenSize
        <5>3. c + TakenSize(u) <= n
          BY <5>1, <5>2, <2>3, <1>4, <1>7
        <5>4. QED  BY <5>1, <5>3, <3>3, <1>18
      <4>4. QED  BY <4>2, <4>3
    <3>4. QED  BY <3>2, <3>3
  <2>8. QED  BY <2>4, <2>5, <2>6, <2>7
<1>21. HeapTiled'
  <2>1. ASSUME NEW c \in DOMAIN block'
        PROVE  /\ ShardStart(block'[c].shard) <= c
               /\ c + block'[c].size <= ShardEnd(block'[c].shard)
               /\ MinBlockSize <= block'[c].size
               /\ c + block'[c].size \in
                    DOMAIN block' \cup {ShardEnd(block'[c].shard)}
    <3>1. CASE c = n
      <4>1. block'[c].shard = s /\ block'[c].size = rest.size
        BY <3>1, <1>7, <1>10
      <4>2. /\ ShardStart(s) <= b /\ b + block[b].size <= ShardEnd(s)
            /\ b + block[b].size \in DOMAIN block \cup {ShardEnd(s)}
            /\ ShardStart(s) \in Nat
        BY <1>4, ShardFacts DEF HeapInv, HeapTiled
      <4>3. QED  BY <3>1, <4>1, <4>2, <1>4, <1>7, <1>10
    <3>2. CASE c # n
      BY <3>2, <1>10 DEF HeapInv, HeapTiled
    <3>3. QED  BY <3>1, <3>2
  <2>2. QED  BY <2>1 DEF HeapTiled
<1>22. PayloadMarksAllocation'
  <2>1. \A c : MidStore(c) => MidStore(c)'
    BY <1>1, <1>6 DEF MidStore, locals
  <2>2. QED  BY <2>1, <1>7, <1>10 DEF HeapInv, PayloadMarksAllocation
<1>23. CallsSound'
  <2>1. ASSUME NEW u \in Threads \ {t}
        PROVE  /\ RequestSound(u)' /\ WalkSound(u)'
               /\ BlockSound(u)' /\ FlightSound(u)'
    <3>1. SameLocals(u) /\ RequestSound(u) /\ WalkSound(u) /\ BlockSound(u)
          /\ FlightSound(u)
      BY <1>6 DEF SameLocals, locals, CallsSound
    <3>2. pc[u] \in {"walk", "push"} => try_shard[u] \in Shards \ {s}
      BY <1>1, <1>3, OtherShard DEF InCriticalSection, TypeOK
    <3>3. WalkSound(u)'
      <4>1. ASSUME NEW l, pc[u] = "walk", Linked(l), block[l].shard = try_shard[u]
            PROVE  Linked(l)' /\ block'[l] = block[l]
        BY <3>2, <4>1, <1>4, <1>9, <1>10, <1>13, <1>14, <1>15
      <4>2. QED  BY <3>1, <3>2, <4>1, <1>10, OtherWalkers
    <3>4. RequestSound(u)'
      BY <3>1 DEF RequestSound, SameLocals
    <3>5. BlockSound(u)'
      BY <3>1, <1>10 DEF BlockSound, SameLocals
    <3>6. FlightSound(u)'
      BY <3>1, <3>2, <1>10, <1>18 DEF FlightSound, SameLocals
    <3>7. QED  BY <3>3, <3>4, <3>5, <3>6
  <2>2. RequestSound(t)' /\ WalkSound(t)'
    BY <1>1, <1>6 DEF RequestSound, WalkSound, CallsSound, locals
  <2>3. BlockSound(t)'
    BY <1>2, <1>3, <1>4, <1>6, <1>10 DEF BlockSound, locals
  <2>4. FlightSound(t)'
    <3>1. Needed(t) <= block'[b].size /\ b + Needed(t) \in DOMAIN block'
      BY <1>1, <1>2, <1>5, <1>10 DEF Fits
    <3>2. QED
      BY <3>1, <1>2, <1>4, <1>6, <1>10, <1>19 DEF FlightSound, locals
  <2>5. QED  BY <2>1, <2>2, <2>3, <2>4 DEF CallsSound
<1>24. OwnershipSound'
  <2> SUFFICES ASSUME OwnedFrees PROVE OwnershipSound'
    BY DEF OwnershipSound
  <2>1. \A u \in Threads : PendingFree(u)' <=> PendingFree(u)
    BY <1>1, <1>6 DEF PendingFree
  <2>2. \A u \in Threads : PendingFree(u) => current[u] \in DOMAIN block
    BY DEF CallsSound, BlockSound, PendingFree
  <2>3. LiveIntact'
    BY <1>6, <1>10 DEF OwnershipSound, LiveIntact, TypeOK
  <2>4. \A c \in DOMAIN live' : issued'[c] # 0
    BY <1>6, <1>8 DEF OwnershipSound, TypeOK
  <2>5. current' = current /\ live' = live
    BY <1>6 DEF locals
  <2>6. \A u \in Threads : PendingFree(u) => block'[current[u]].flags = 0
    BY <2>2, <1>10 DEF OwnershipSound
  <2>7. \A u \in Threads : pc'[u] = "fill" => pc[u] = "fill"
    BY <1>6
  <2>8. QED
    BY <2>1, <2>3, <2>4, <2>5, <2>6, <2>7 DEF OwnershipSound
<1>c. Confined(t)
  BY <1>3, <1>7, <1>9, <1>10, <1>15 DEF Confined
<1>d. PutsInPlace(t, n)
  BY <1>2, <1>3, <1>7, <1>8, <1>10, <1>13 DEF PutsInPlace, Redirects
<1>25. QED
  BY <1>c, <1>d, <1>11, <1>12, <1>16, <1>17, <1>20, <1>21, <1>22, <1>23, <1>24 DEF HeapInv

LEMMA AllocWholeStep ==
  ASSUME IInv, Acyclic, NEW t \in Threads, AllocWhole(t)
  PROVE  IInv' /\ Acyclic' /\ Confined(t) /\ Skips(t)
<1> USE DEF IInv
<1>1. pc[t] = "walk" /\ current[t] # Null /\ Fits(t) /\ ~Splits(t)
  BY DEF AllocWhole, Visiting, At
<1>2. PICK b \in DOMAIN block : b = current[t]
  BY <1>1, WalkFacts
<1>3. PICK s \in Shards : s = try_shard[t]
  BY DEF TypeOK
<1>4. /\ Linked(b) /\ b \in Nat /\ block[b] \in Headers
      /\ block[b].shard = s /\ block[b].flags = BLOCK_FREE
      /\ Needed(t) \in Nat
      /\ block[b].size \in Nat /\ block[b].next_free \in Nat
  BY <1>1, <1>2, <1>3, WalkFacts DEF TypeOK, Headers
<1>5. PICK n \in Nat : n = block[b].next_free
  BY <1>4
<1>6. /\ pc'[t] = "take" /\ \A u \in Threads \ {t} : pc'[u] = pc[u]
      /\ pc' \in [Threads -> Labels]
      /\ locks' = locks /\ locals' = locals /\ live' = live /\ issued' = issued
      /\ StoreLink(t, block, n)
  BY <1>2, <1>5 DEF AllocWhole, Goto, TypeOK, Labels, ghosts
<1>7. Null \notin DOMAIN block
  BY BlockFacts DEF HeapInv
<1>8. /\ block[b].next_free # b
      /\ link[t] = Null =>
           heads[s] = b /\ \A c : Linked(c) => block[c].next_free # b
      /\ link[t] # Null =>
           /\ Linked(link[t]) /\ link[t] \in DOMAIN block /\ link[t] # b
           /\ block[link[t]].shard = s /\ block[link[t]].next_free = b
           /\ \A r \in Shards : heads[r] # b
           /\ \A c : Linked(c) /\ c # link[t] => block[c].next_free # b
  BY <1>1, <1>2, <1>3, WalkLink
<1>9. n # Null =>
        /\ Linked(n) /\ block[n].shard = s /\ n # b
        /\ \A r \in Shards : heads[r] # n
        /\ \A d \in DOMAIN block : Linked(d) /\ block[d].next_free = n => d = b
  BY <1>4, <1>5, <1>8 DEF HeapInv, FreeListsSound
<1>10. /\ DOMAIN block' = DOMAIN block
       /\ \A c \in DOMAIN block : c # link[t] => block'[c] = block[c]
       /\ \A c \in DOMAIN block :
            /\ block'[c].size = block[c].size /\ block'[c].flags = block[c].flags
            /\ block'[c].shard = block[c].shard
            /\ block'[c].payload_offset = block[c].payload_offset
            /\ block'[c].next_free =
                 IF c = link[t] THEN n ELSE block[c].next_free
       /\ block' \in [DOMAIN block' -> Headers]
       /\ \A r \in Shards : heads'[r] =
            IF link[t] = Null /\ r = s THEN n ELSE heads[r]
       /\ heads' \in [Shards -> Nat]
  <2>1. CASE link[t] = Null
    BY <2>1, <1>3, <1>6, <1>7 DEF StoreLink, TypeOK
  <2>2. CASE link[t] # Null
    <3>1. PICK l \in DOMAIN block : l = link[t]
      BY <2>2, <1>8
    <3>2. block' = [block EXCEPT ![l] = [block[l] EXCEPT !.next_free = n]]
          /\ heads' = heads
      BY <1>6, <2>2, <3>1 DEF StoreLink, TypeOK
    <3>3. block[l] \in Headers
      BY DEF TypeOK
    <3>4. [block[l] EXCEPT !.next_free = n] \in Headers
      BY <3>3 DEF Headers
    <3>5. /\ DOMAIN block' = DOMAIN block
          /\ block' \in [DOMAIN block -> Headers]
          /\ block'[l] = [block[l] EXCEPT !.next_free = n]
          /\ \A c \in DOMAIN block : c # l => block'[c] = block[c]
      BY <3>2, <3>4 DEF TypeOK
    <3>6. /\ block'[l].size = block[l].size /\ block'[l].flags = block[l].flags
          /\ block'[l].shard = block[l].shard
          /\ block'[l].payload_offset = block[l].payload_offset
          /\ block'[l].next_free = n
      BY <3>3, <3>5 DEF Headers
    <3>7. QED
      BY <2>2, <3>1, <3>2, <3>5, <3>6 DEF TypeOK
  <2>3. QED  BY <2>1, <2>2
<1>11. TypeOK'
  BY <1>6, <1>10 DEF AllocWhole, TypeOK, locks, locals
<1>12. MutualExclusion'
  BY <1>1, <1>6 DEF locks, locals, MutualExclusion, InCriticalSection
<1>13. \A c : Linked(c)' <=> Linked(c) /\ c # b
  <2>1. ~Linked(b)'
    BY <1>2, <1>6 DEF Linked, InFlight, Handling, locals
  <2>2. ASSUME NEW c, c # b PROVE Linked(c)' <=> Linked(c)
    <3>1. \A u \in Threads : Handling(u, c)' <=> Handling(u, c)
      BY <2>2, <1>1, <1>2, <1>6 DEF Handling, locals
    <3>2. QED  BY <3>1, <1>10 DEF Linked, InFlight
  <2>3. QED  BY <2>1, <2>2
<1>14. \A c : Linked(c) => c \in DOMAIN block /\ c # Null
  BY <1>7 DEF Linked
<1>15. FreeListsSound'
  <2>1. ASSUME NEW r \in Shards, heads'[r] # Null
        PROVE  (Linked(heads[r]) /\ block[heads[r]].shard = r)'
    <3>1. PICK h : h = heads'[r]
      OBVIOUS
    <3>2. Linked(h)' /\ block'[h].shard = r
      <4>1. CASE link[t] = Null /\ r = s
        BY <4>1, <2>1, <3>1, <1>9, <1>10, <1>13, <1>14
      <4>2. CASE ~(link[t] = Null /\ r = s)
        <5>1. h = heads[r] /\ Linked(h) /\ block[h].shard = r
          BY <4>2, <2>1, <3>1, <1>10 DEF HeapInv, FreeListsSound
        <5>2. h # b
          BY <5>1, <4>2, <1>4, <1>8
        <5>3. QED  BY <5>1, <5>2, <1>10, <1>13, <1>14
      <4>3. QED  BY <4>1, <4>2
    <3>3. QED  BY <3>1, <3>2 DEF Linked, InFlight, Handling
  <2>2. ASSUME NEW c, Linked(c)', block'[c].next_free # Null
        PROVE  \E m : /\ m = block'[c].next_free
                      /\ Linked(m)' /\ block'[m].shard = block'[c].shard
                      /\ \A r \in Shards : heads'[r] # m
                      /\ \A d : Linked(d)' /\ block'[d].next_free = m => d = c
    <3>1. PICK m : m = block'[c].next_free
      OBVIOUS
    <3>2. CASE c = link[t]
      <4>1. Linked(c) /\ c # Null /\ m = n /\ n # Null /\ block'[c].shard = s
        BY <3>1, <3>2, <2>2, <1>8, <1>10, <1>13, <1>14
      <4>2. Linked(n)' /\ block'[n].shard = s
        BY <4>1, <1>9, <1>10, <1>13, <1>14
      <4>3. \A r \in Shards : heads'[r] # n
        BY <3>2, <4>1, <1>9, <1>10
      <4>4. \A d : Linked(d)' /\ block'[d].next_free = n => d = c
        BY <3>2, <4>1, <1>9, <1>10, <1>13, <1>14
      <4>5. QED  BY <3>1, <4>1, <4>2, <4>3, <4>4
    <3>3. CASE c # link[t]
      <4>1. Linked(c) /\ c # b /\ c \in DOMAIN block /\ m = block[c].next_free
            /\ m # Null /\ block'[c].shard = block[c].shard
        BY <3>1, <3>3, <2>2, <1>10, <1>13, <1>14
      <4>2. /\ Linked(m) /\ block[m].shard = block[c].shard
            /\ \A r \in Shards : heads[r] # m
            /\ \A d \in DOMAIN block : Linked(d) /\ block[d].next_free = m => d = c
        BY <4>1 DEF HeapInv, FreeListsSound
      <4>3. m # b /\ m # n
        BY <4>1, <4>2, <3>3, <1>4, <1>5, <1>8
      <4>4. Linked(m)' /\ block'[m].shard = block'[c].shard
        BY <4>1, <4>2, <4>3, <1>10, <1>13, <1>14
      <4>5. \A r \in Shards : heads'[r] # m
        BY <4>2, <4>3, <1>10
      <4>6. \A d : Linked(d)' /\ block'[d].next_free = m => d = c
        BY <4>2, <4>3, <1>10, <1>13, <1>14
      <4>7. QED  BY <3>1, <4>4, <4>5, <4>6
    <3>4. QED  BY <3>2, <3>3
  <2>3. QED
    BY <2>1, <2>2 DEF FreeListsSound, Linked, InFlight, Handling
<1>16. Acyclic'
  <2>1. PICK r : Ranks(r)
    BY DEF Acyclic
  <2>2. \A c \in DOMAIN block : r[c] \in Nat
    BY <2>1 DEF Ranks
  <2>3. ASSUME NEW c \in DOMAIN block', Linked(c)', block'[c].next_free # Null
        PROVE  r[block'[c].next_free] < r[c]
    <3>1. CASE c = link[t]
      <4>1. Linked(c) /\ block[c].next_free = b /\ block'[c].next_free = n
            /\ n # Null /\ b # Null /\ c \in DOMAIN block /\ n \in DOMAIN block
        BY <3>1, <2>3, <1>7, <1>8, <1>9, <1>10, <1>13, <1>14
      <4>2. r[b] < r[c] /\ r[n] < r[b]
        BY <4>1, <2>1, <1>4, <1>5 DEF Ranks
      <4>3. QED  BY <4>1, <4>2, <2>2
    <3>2. CASE c # link[t]
      BY <3>2, <2>1, <2>3, <1>10, <1>13 DEF Ranks
    <3>3. QED  BY <3>1, <3>2
  <2>4. Ranks(r)'
    BY <2>1, <2>3, <1>10 DEF Ranks
  <2>5. QED  BY <2>4 DEF Acyclic
<1>17. \A u \in Threads : u # t /\ pc[u] \in {"take", "fill", "clear", "push"} =>
         /\ current[u] \in DOMAIN block /\ current[u] # b
         /\ current[u] # link[t]
         /\ block'[current[u]] = block[current[u]]
         /\ pc'[u] = pc[u] /\ current'[u] = current[u]
         /\ Needed(u)' = Needed(u) /\ TakenSize(u)' = TakenSize(u)
  <2> SUFFICES ASSUME NEW u \in Threads, u # t,
                      pc[u] \in {"take", "fill", "clear", "push"}
               PROVE  /\ current[u] \in DOMAIN block /\ current[u] # b
                      /\ current[u] # link[t]
                      /\ block'[current[u]] = block[current[u]]
                      /\ pc'[u] = pc[u] /\ current'[u] = current[u]
                      /\ Needed(u)' = Needed(u) /\ TakenSize(u)' = TakenSize(u)
    OBVIOUS
  <2>1. current[u] \in DOMAIN block /\ ~Linked(current[u])
    BY DEF CallsSound, BlockSound, FlightSound, Linked, InFlight, Handling,
           BLOCK_FREE
  <2>2. current[u] # b /\ current[u] # link[t]
    BY <2>1, <1>4, <1>7, <1>8
  <2>3. block'[current[u]] = block[current[u]]
    BY <2>1, <2>2, <1>10
  <2>4. QED
    BY <2>1, <2>2, <2>3, <1>6 DEF locals, Needed, TakenSize, Splits
<1>18. TakenSize(t)' = block[b].size /\ Needed(t)' = Needed(t)
  <2>1. Needed(t)' = Needed(t)
    BY <1>6 DEF Needed, locals
  <2>2. Splits(t)' <=> Splits(t)
    BY <2>1, <1>2, <1>6, <1>10 DEF Splits, locals
  <2>3. QED  BY <1>1, <1>2, <1>6, <1>10, <2>1, <2>2 DEF TakenSize, locals
<1>19. BlocksDisjoint'
  <2> SUFFICES ASSUME NEW c \in DOMAIN block, NEW d \in DOMAIN block, c < d,
                      ~(c + block[c].size <= d)
               PROVE  \E u \in Threads : /\ pc'[u] = "take" /\ current'[u] = c
                                         /\ c + TakenSize(u)' <= d
    BY <1>10 DEF BlocksDisjoint
  <2>1. PICK u \in Threads : /\ pc[u] = "take" /\ current[u] = c
                             /\ c + TakenSize(u) <= d
    BY DEF HeapInv, BlocksDisjoint
  <2>2. QED  BY <2>1, <1>1, <1>17
<1>20. HeapTiled' /\ PayloadMarksAllocation'
  <2>1. \A c : MidStore(c) => MidStore(c)'
    BY <1>1, <1>6 DEF MidStore, locals
  <2>2. QED  BY <2>1, <1>10 DEF HeapInv, HeapTiled, PayloadMarksAllocation
<1>21. CallsSound'
  <2>1. ASSUME NEW u \in Threads \ {t}
        PROVE  /\ RequestSound(u)' /\ WalkSound(u)'
               /\ BlockSound(u)' /\ FlightSound(u)'
    <3>1. SameLocals(u) /\ RequestSound(u) /\ WalkSound(u) /\ BlockSound(u)
          /\ FlightSound(u)
      BY <1>6 DEF SameLocals, locals, CallsSound
    <3>2. pc[u] \in {"walk", "push"} => try_shard[u] \in Shards \ {s}
      BY <1>1, <1>3, OtherShard DEF InCriticalSection, TypeOK
    <3>3. WalkSound(u)'
      <4>1. ASSUME NEW l, pc[u] = "walk", Linked(l), block[l].shard = try_shard[u]
            PROVE  Linked(l)' /\ block'[l] = block[l]
        BY <3>2, <4>1, <1>4, <1>7, <1>8, <1>10, <1>13, <1>14
      <4>2. QED  BY <3>1, <3>2, <4>1, <1>10, OtherWalkers
    <3>4. RequestSound(u)'
      BY <3>1 DEF RequestSound, SameLocals
    <3>5. BlockSound(u)'
      BY <3>1, <1>10 DEF BlockSound, SameLocals
    <3>6. FlightSound(u)'
      BY <3>1, <3>2, <1>10, <1>17 DEF FlightSound, SameLocals
    <3>7. QED  BY <3>3, <3>4, <3>5, <3>6
  <2>2. RequestSound(t)' /\ WalkSound(t)'
    BY <1>1, <1>6 DEF RequestSound, WalkSound, CallsSound, locals
  <2>3. BlockSound(t)'
    BY <1>2, <1>3, <1>4, <1>6, <1>10 DEF BlockSound, locals
  <2>4. FlightSound(t)'
    <3>1. Needed(t) <= block'[b].size
          /\ b + block[b].size \in DOMAIN block \cup {ShardEnd(s)}
      BY <1>1, <1>2, <1>4, <1>10 DEF Fits, HeapInv, HeapTiled
    <3>2. QED
      BY <3>1, <1>2, <1>3, <1>4, <1>6, <1>10, <1>18 DEF FlightSound, locals
  <2>5. QED  BY <2>1, <2>2, <2>3, <2>4 DEF CallsSound
<1>22. OwnershipSound'
  <2> SUFFICES ASSUME OwnedFrees PROVE OwnershipSound'
    BY DEF OwnershipSound
  <2>1. \A u \in Threads : PendingFree(u)' <=> PendingFree(u)
    BY <1>1, <1>6 DEF PendingFree
  <2>2. \A u \in Threads : PendingFree(u) => current[u] \in DOMAIN block
    BY DEF CallsSound, BlockSound, PendingFree
  <2>3. LiveIntact'
    BY <1>6, <1>10 DEF OwnershipSound, LiveIntact, TypeOK
  <2>4. current' = current /\ live' = live /\ issued' = issued
    BY <1>6 DEF locals
  <2>5. \A u \in Threads : PendingFree(u) => block'[current[u]].flags = 0
    BY <2>2, <1>10 DEF OwnershipSound
  <2>6. \A u \in Threads : pc'[u] = "fill" => pc[u] = "fill"
    BY <1>6
  <2>7. QED
    BY <2>1, <2>3, <2>4, <2>5, <2>6 DEF OwnershipSound
<1>c. Confined(t)
  BY <1>3, <1>7, <1>8, <1>10 DEF Confined
<1>d. Skips(t)
  BY <1>2, <1>3, <1>5, <1>10, <1>13 DEF Skips, Redirects
<1>23. QED
  BY <1>c, <1>d, <1>11, <1>12, <1>15, <1>16, <1>19, <1>20, <1>21, <1>22 DEF HeapInv

-----------------------------------------------------------------------------
(* The initial state, and the three ways a step can keep the lists free of *)
(* cycles.                                                                 *)

LEMMA InitInv ==
  Init => IInv /\ Acyclic
<1> SUFFICES ASSUME Init PROVE IInv /\ Acyclic
  OBVIOUS
<1> DEFINE starts == {ShardStart(s) : s \in Shards}
<1>1. \A s, r \in Shards : ShardStart(s) = ShardStart(r) => s = r
  BY ShardFacts, MinBlockFacts DEF Shards
<1>2. DOMAIN block = starts /\ starts \subseteq Nat
  BY ShardFacts DEF Init
<1>3. ASSUME NEW s \in Shards
      PROVE  block[ShardStart(s)] = Header(ShardSize, Null, BLOCK_FREE, s, 0)
  <2>1. (CHOOSE r \in Shards : ShardStart(r) = ShardStart(s)) = s
    BY <1>1
  <2>2. QED  BY <2>1 DEF Init
<1>4. \A b \in DOMAIN block : \E s \in Shards :
        b = ShardStart(s) /\ block[b] = Header(ShardSize, Null, BLOCK_FREE, s, 0)
  BY <1>2, <1>3
<1>5. TypeOK
  <2>1. \A s \in Shards : Header(ShardSize, Null, BLOCK_FREE, s, 0) \in Headers
    BY MinBlockFacts DEF Header, Headers, Null
  <2>2. block \in [DOMAIN block -> Headers]
    <3>1. block = [b \in DOMAIN block |-> block[b]]
      BY DEF Init
    <3>2. \A b \in DOMAIN block : block[b] \in Headers
      BY <1>4, <2>1
    <3>3. QED  BY <3>1, <3>2
  <2>3. 0 \in Shards /\ MaxAlign \in Nat \ {0}
    BY LayoutAssumption DEF Shards
  <2>4. heads \in [Shards -> Nat]
    BY ShardFacts DEF Init
  <2>5. live \in [DOMAIN live -> [size : Nat, alignment : Nat]]
        /\ DOMAIN live \subseteq DOMAIN block
    BY DEF Init
  <2>6. QED
    BY <1>2, <2>2, <2>3, <2>4, <2>5 DEF Init, TypeOK, Labels, Statuses, Null
<1>6. \A t \in Threads : pc[t] = "idle"
  BY DEF Init
<1>7. MutualExclusion
  BY <1>6 DEF MutualExclusion, InCriticalSection
<1>8. CallsSound
  BY <1>6 DEF CallsSound, RequestSound, WalkSound, BlockSound, FlightSound
<1>9. \A b \in DOMAIN block : Linked(b) /\ block[b].next_free = Null
  BY <1>4, <1>6 DEF Linked, InFlight, Handling, Header
<1>10. BlocksDisjoint
  <2> SUFFICES ASSUME NEW b \in DOMAIN block, NEW c \in DOMAIN block, b < c
               PROVE  b + block[b].size <= c
    BY DEF BlocksDisjoint
  <2>1. PICK s \in Shards : b = ShardStart(s) /\ block[b].size = ShardSize
    BY <1>4 DEF Header
  <2>2. PICK r \in Shards : c = ShardStart(r)
    BY <1>4
  <2>3. s < r
    BY <2>1, <2>2, ShardFacts, MinBlockFacts DEF Shards
  <2>4. QED  BY <2>1, <2>2, <2>3, ShardFacts
<1>11. HeapTiled
  <2> SUFFICES ASSUME NEW b \in DOMAIN block
               PROVE  /\ ShardStart(block[b].shard) <= b
                      /\ b + block[b].size <= ShardEnd(block[b].shard)
                      /\ MinBlockSize <= block[b].size
                      /\ b + block[b].size \in DOMAIN block \cup {ShardEnd(block[b].shard)}
    BY DEF HeapTiled
  <2>1. PICK s \in Shards : /\ b = ShardStart(s) /\ block[b].size = ShardSize
                            /\ block[b].shard = s
    BY <1>4 DEF Header
  <2>2. QED  BY <2>1, ShardFacts, HeapAssumption
<1>12. FreeListsSound
  <2>1. \A s \in Shards : heads[s] = ShardStart(s)
    BY DEF Init
  <2>2. ASSUME NEW s \in Shards
        PROVE  Linked(heads[s]) /\ block[heads[s]].shard = s
    <3>1. ShardStart(s) \in DOMAIN block
      BY <1>2
    <3>2. block[ShardStart(s)].shard = s
      <4>1. block[ShardStart(s)] = Header(ShardSize, Null, BLOCK_FREE, s, 0)
        BY <1>3
      <4>2. QED  BY ONLY <4>1 DEF Header
    <3>3. Linked(ShardStart(s))
      BY ONLY <3>1, <1>9
    <3>4. QED  BY <2>1, <3>2, <3>3
  <2>3. QED  BY <2>2, <1>9 DEF FreeListsSound
<1>13. PayloadMarksAllocation
  BY <1>4 DEF PayloadMarksAllocation, Header
<1>14. OwnershipSound
  BY <1>6 DEF Init, OwnershipSound, LiveIntact, PendingFree
<1>15. Acyclic
  <2>1. PICK r : r = [b \in DOMAIN block |-> 0]
    OBVIOUS
  <2>2. Ranks(r)
    BY <2>1, <1>9 DEF Ranks
  <2>3. QED  BY <2>2 DEF Acyclic
<1>16. QED
  BY <1>5, <1>7, <1>8, <1>10, <1>11, <1>12, <1>13, <1>14, <1>15
     DEF IInv, HeapInv

LEMMA KeepRanks ==
  ASSUME Acyclic, DOMAIN block' = DOMAIN block,
         \A c : Linked(c)' <=> Linked(c),
         \A c : Linked(c) => block'[c] = block[c]
  PROVE  Acyclic'
<1>1. PICK r : Ranks(r)
  BY DEF Acyclic
<1>2. Ranks(r)'
  BY <1>1 DEF Ranks
<1>3. QED  BY <1>2 DEF Acyclic

LEMMA SameRanks ==
  ASSUME Acyclic, SameFlight
  PROVE  Acyclic'
BY SameLinked, KeepRanks DEF SameFlight

LEMMA PushRanks ==
  ASSUME IInv, Acyclic, NEW t \in Threads, FreePush(t)
  PROVE  Acyclic'
<1> USE DEF IInv
<1>1. PICK b \in DOMAIN block : b = current[t]
  BY DEF FreePush, At, CallsSound, BlockSound
<1>2. /\ block' = block /\ ~Linked(b)
      /\ \A c : Linked(c)' <=> (Linked(c) \/ c = b)
      /\ block[b].next_free = heads[try_shard[t]] /\ try_shard[t] \in Shards
  BY <1>1, FreePushStep DEF TypeOK
<1>3. block[b].next_free # Null => Linked(block[b].next_free)
  BY <1>2 DEF HeapInv, FreeListsSound
<1>4. PICK r : Ranks(r)
  BY DEF Acyclic
<1>5. PICK q : q = [c \in DOMAIN block |->
                      IF c # b THEN r[c]
                      ELSE IF block[b].next_free = Null THEN 0
                      ELSE r[block[b].next_free] + 1]
  OBVIOUS
<1>6. q \in [DOMAIN block -> Nat] /\ \A c \in DOMAIN block \ {b} : q[c] = r[c]
  BY <1>3, <1>4, <1>5 DEF Ranks, Linked
<1>7. ASSUME NEW c \in DOMAIN block, Linked(c)', block[c].next_free # Null
      PROVE  q[block[c].next_free] < q[c]
  <2>1. CASE c = b
    <3>1. block[b].next_free # b /\ block[b].next_free \in DOMAIN block
      BY <1>2, <1>3, <1>7, <2>1 DEF Linked
    <3>2. r[block[b].next_free] \in Nat
      BY <3>1, <1>4 DEF Ranks
    <3>3. QED  BY <2>1, <3>1, <3>2, <1>5, <1>6, <1>7
  <2>2. CASE c # b
    <3>1. Linked(c) /\ Linked(block[c].next_free)
      BY <2>2, <1>2, <1>7 DEF HeapInv, FreeListsSound
    <3>2. block[c].next_free # b /\ block[c].next_free \in DOMAIN block
      BY <3>1, <1>2 DEF Linked
    <3>3. QED  BY <2>2, <3>1, <3>2, <1>4, <1>6, <1>7 DEF Ranks
  <2>3. QED  BY <2>1, <2>2
<1>8. Ranks(q)'
  BY <1>2, <1>6, <1>7 DEF Ranks
<1>9. QED  BY <1>8 DEF Acyclic

-----------------------------------------------------------------------------
(* Every step.                                                             *)

(* Thread t, alive and in a critical section, stores into its own shard;   *)
(* the block it is at is free, is being freed by it or is being given its  *)
(* payload offset.                                                         *)
StoresInShard(t) ==
  /\ t \notin crashed /\ InCriticalSection(t) /\ Confined(t)
  /\ block[current[t]].flags = BLOCK_FREE \/ PendingFree(t) \/ pc[t] = "fill"

LEMMA HeapStep ==
  ASSUME IInv, Acyclic, NEW t \in Threads,
         \/ AllocSplit(t) \/ AllocWhole(t) \/ AllocTake(t) \/ AllocFill(t)
         \/ FreeMark(t) \/ FreeClear(t) \/ FreePush(t)
  PROVE  IInv' /\ Acyclic' /\ StoresInShard(t)
<1>1. CASE AllocSplit(t) \/ AllocWhole(t)
  <2>1. t \notin crashed /\ pc[t] = "walk" /\ current[t] # Null
    BY <1>1 DEF AllocSplit, AllocWhole, Visiting, At
  <2>2. block[current[t]].flags = BLOCK_FREE
    BY <2>1, WalkFacts DEF Linked
  <2>3. IInv' /\ Acyclic' /\ Confined(t)
    BY <1>1, AllocSplitStep, AllocWholeStep
  <2>4. QED  BY <2>1, <2>2, <2>3 DEF StoresInShard, InCriticalSection
<1>2. CASE AllocTake(t)
  <2>1. t \notin crashed /\ pc[t] = "take"
    BY <1>2 DEF AllocTake, At
  <2>2. block[current[t]].flags = BLOCK_FREE
    BY <2>1 DEF IInv, CallsSound, FlightSound
  <2>3. IInv' /\ Acyclic' /\ Confined(t)
    BY <1>2, AllocTakeStep, KeepRanks
  <2>4. QED  BY <2>1, <2>2, <2>3 DEF StoresInShard, InCriticalSection
<1>3. CASE FreeMark(t)
  <2>1. t \notin crashed /\ pc[t] = "recheck"
    BY <1>3 DEF FreeMark, At
  <2>2. IInv' /\ Acyclic' /\ Confined(t)
    BY <1>3, FreeMarkStep, KeepRanks
  <2>3. QED
    BY <2>1, <2>2 DEF StoresInShard, InCriticalSection, PendingFree
<1>4. CASE FreePush(t)
  <2>1. t \notin crashed /\ pc[t] = "push"
    BY <1>4 DEF FreePush, At
  <2>2. block[current[t]].flags = BLOCK_FREE
    BY <2>1 DEF IInv, CallsSound, FlightSound
  <2>3. IInv' /\ Acyclic' /\ Confined(t)
    BY <1>4, FreePushStep, PushRanks
  <2>4. QED  BY <2>1, <2>2, <2>3 DEF StoresInShard, InCriticalSection
<1>5. CASE AllocFill(t)
  <2>1. t \notin crashed /\ pc[t] = "fill"
    BY <1>5 DEF AllocFill, At
  <2>2. IInv' /\ Acyclic' /\ Confined(t)
    BY <1>5, AllocFillStep, KeepRanks
  <2>3. QED  BY <2>1, <2>2 DEF StoresInShard, InCriticalSection
<1>6. CASE FreeClear(t)
  <2>1. t \notin crashed /\ pc[t] = "clear"
    BY <1>6 DEF FreeClear, At
  <2>2. block[current[t]].flags = BLOCK_FREE
    BY <2>1 DEF IInv, CallsSound, FlightSound
  <2>3. IInv' /\ Acyclic' /\ Confined(t)
    BY <1>6, FreeClearStep, KeepRanks
  <2>4. QED  BY <2>1, <2>2, <2>3 DEF StoresInShard, InCriticalSection
<1>7. QED  BY <1>1, <1>2, <1>3, <1>4, <1>5, <1>6

LEMMA NextStep ==
  ASSUME IInv, Acyclic, RequestsFit, Next
  PROVE  /\ IInv' /\ Acyclic'
         /\ SameFlight \/ \E t \in Threads : StoresInShard(t)
<1>1. PICK t \in Threads : Request(t) \/ Step(t) \/ Crash(t)
  BY DEF Next
<1>2. CASE \/ Crash(t) \/ AllocFail(t)
           \/ \E n \in Sizes : AllocReject(t, n)
           \/ \E b \in DOMAIN block : FreeReject(t, b)
  BY <1>2, RejectStep, SameRanks
<1>3. CASE \E n \in Sizes, a \in Alignments : AllocCall(t, n, a)
  BY <1>3, AllocCallStep, SameRanks
<1>4. CASE \E b \in DOMAIN block : FreeCall(t, b)
  BY <1>4, FreeCallStep, SameRanks
<1>5. CASE \/ AllocSplit(t) \/ AllocWhole(t) \/ AllocTake(t) \/ AllocFill(t)
           \/ FreeMark(t) \/ FreeClear(t) \/ FreePush(t)
  BY <1>5, HeapStep
<1>6. CASE AllocLock(t) \/ FreeLock(t) \/ LockOwnerDead(t)
  BY <1>6, AllocLockStep, FreeLockStep, LockOwnerDeadStep, SameRanks
<1>7. CASE AllocBadAlignment(t) \/ AllocNextBlock(t) \/ AllocMiss(t)
  BY <1>7, AllocBadAlignmentStep, AllocNextBlockStep, AllocMissStep, SameRanks
<1>8. CASE Unlock(t) \/ FreeMismatch(t)
  BY <1>8, UnlockStep, FreeMismatchStep, SameRanks
<1>9. QED
  BY <1>1, <1>2, <1>3, <1>4, <1>5, <1>6, <1>7, <1>8
     DEF Request, Step, AllocStep, FreeStep

LEMMA StutterStep ==
  ASSUME IInv, Acyclic, UNCHANGED vars
  PROVE  IInv' /\ Acyclic' /\ SameFlight
<1> USE DEF vars, shared, locks, locals, ghosts
<1>1. SameFlight
  BY DEF SameFlight
<1>2. TypeOK' /\ MutualExclusion'
  BY DEF IInv, TypeOK, MutualExclusion, InCriticalSection
<1>3. ASSUME NEW u \in Threads
      PROVE  (RequestSound(u) /\ WalkSound(u) /\ BlockSound(u) /\ FlightSound(u))'
  BY <1>1, SameCall DEF IInv, CallsSound, SameLocals
<1>4. CallsSound'
  BY <1>3 DEF CallsSound
<1>5. HeapInv'
  BY <1>1, SameHeap DEF IInv
<1>6. OwnershipSound'
  BY SameOwnership DEF IInv, PendingFree
<1>7. QED  BY <1>1, <1>2, <1>4, <1>5, <1>6, SameRanks DEF IInv

-----------------------------------------------------------------------------
(* The theorems.  RequestsFit asks that no request be so close to SIZE_MAX *)
(* that adding the payload offset to it wraps; allocator_alloc does not    *)
(* check this, and serves such a request with a block that is too small.   *)

(* The inductive invariant holds of allocator_init's heap and is kept by   *)
(* every step of allocator_alloc and allocator_free, for any number of     *)
(* threads, shards, calls and crashes.                                     *)
THEOREM AllocatorInvariant ==
  ASSUME RequestsFit
  PROVE  Spec => [](IInv /\ Acyclic)
<1>1. IInv /\ Acyclic /\ [Next]_vars => (IInv /\ Acyclic)'
  BY NextStep, StutterStep
<1>2. QED  BY InitInv, <1>1, PTL DEF Spec

(* Every variable of the allocator keeps its type.                         *)
THEOREM AllocatorTypeCorrect ==
  ASSUME RequestsFit
  PROVE  Spec => []TypeOK
<1>1. IInv => TypeOK
  BY DEF IInv
<1>2. QED  BY AllocatorInvariant, <1>1, PTL

(* The blocks that allocator_alloc carves never overlap.                   *)
THEOREM AllocatorBlocksDisjoint ==
  ASSUME RequestsFit
  PROVE  Spec => []BlocksDisjoint
<1>1. IInv => BlocksDisjoint
  BY DEF IInv, HeapInv
<1>2. QED  BY AllocatorInvariant, <1>1, PTL

(* The physical walk over the blocks of a shard always lands on a block or *)
(* on the end of the shard.                                                *)
THEOREM AllocatorHeapTiled ==
  ASSUME RequestsFit
  PROVE  Spec => []HeapTiled
<1>1. IInv => HeapTiled
  BY DEF IInv, HeapInv
<1>2. QED  BY AllocatorInvariant, <1>1, PTL

(* Free-list links name free blocks of their own shard that nobody is      *)
(* handling, no block is linked twice, and the links go round no cycle, so *)
(* the walk of allocator_alloc ends.                                       *)
THEOREM AllocatorFreeListsSound ==
  ASSUME RequestsFit
  PROVE  Spec => [](FreeListsSound /\ Acyclic)
<1>1. IInv => FreeListsSound
  BY DEF IInv, HeapInv
<1>2. QED  BY AllocatorInvariant, <1>1, PTL

(* A block is allocated exactly when its payload_offset is set, unless a   *)
(* thread is, or died, between the stores of the two: so the re-check of   *)
(* allocator_free under the lock tells a second free apart.                *)
THEOREM AllocatorPayloadMarks ==
  ASSUME RequestsFit
  PROVE  Spec => []PayloadMarksAllocation
<1>1. IInv => PayloadMarksAllocation
  BY DEF IInv, HeapInv
<1>2. QED  BY AllocatorInvariant, <1>1, PTL

(* What a client holds keeps the payload allocator_alloc promised, if      *)
(* clients free only what they hold.                                       *)
THEOREM AllocatorLiveIntact ==
  ASSUME RequestsFit, OwnedFrees
  PROVE  Spec => []LiveIntact
<1>1. IInv => LiveIntact
  BY DEF IInv, OwnershipSound
<1>2. QED  BY AllocatorInvariant, <1>1, PTL

LEMMA HeldStep ==
  ASSUME IInv, Acyclic, RequestsFit, OwnedFrees, [Next]_vars,
         NEW b \in DOMAIN live
  PROVE  block'[b] = block[b]
<1>1. CASE SameFlight
  BY <1>1 DEF SameFlight
<1>2. CASE \E t \in Threads : StoresInShard(t)
  <2>1. PICK t \in Threads : StoresInShard(t)
    BY <1>2
  <2>2. b \in DOMAIN block /\ block[b].flags = 0
    BY DEF IInv, TypeOK, OwnershipSound, LiveIntact
  <2>3. ~Linked(b)
    BY <2>2 DEF Linked, BLOCK_FREE
  <2>4. b # current[t]
    BY <2>1, <2>2 DEF StoresInShard, IInv, OwnershipSound, BLOCK_FREE
  <2>5. QED  BY <2>1, <2>2, <2>3, <2>4 DEF StoresInShard, Confined
<1>3. QED  BY <1>1, <1>2, NextStep, StutterStep

(* No step of any thread changes the header of a block a client holds.     *)
THEOREM AllocatorHeldBlocksUntouched ==
  ASSUME RequestsFit, OwnedFrees
  PROVE  Spec => HeldBlocksUntouched
<1> DEFINE Same == \A b \in DOMAIN live \cap DOMAIN live' : block'[b] = block[b]
<1>1. IInv /\ Acyclic /\ [Next]_vars => [Same]_vars
  BY HeldStep
<1>2. QED  BY AllocatorInvariant, <1>1, PTL DEF Spec, HeldBlocksUntouched

(* Nothing changes in a shard whose lock a dead thread holds.              *)
THEOREM AllocatorDeathFreezesShard ==
  ASSUME RequestsFit
  PROVE  Spec => DeathFreezesShard
<1> DEFINE Frozen ==
      \A t \in crashed : InCriticalSection(t) =>
        LET s == try_shard[t]
        IN /\ heads'[s] = heads[s]
           /\ \A b \in DOMAIN block' : block'[b].shard = s =>
                b \in DOMAIN block /\ block'[b] = block[b]
<1>1. ASSUME IInv, Acyclic, Next
      PROVE  Frozen
  <2> SUFFICES ASSUME NEW t \in crashed, InCriticalSection(t)
               PROVE  LET s == try_shard[t]
                      IN /\ heads'[s] = heads[s]
                         /\ \A b \in DOMAIN block' : block'[b].shard = s =>
                              b \in DOMAIN block /\ block'[b] = block[b]
    OBVIOUS
  <2>1. t \in Threads /\ try_shard[t] \in Shards
    BY <1>1 DEF IInv, TypeOK
  <2>2. CASE SameFlight
    BY <2>2 DEF SameFlight
  <2>3. CASE \E u \in Threads : StoresInShard(u)
    <3>1. PICK u \in Threads : StoresInShard(u)
      BY <2>3
    <3>2. try_shard[t] # try_shard[u]
      BY <1>1, <2>1, <3>1, OtherShard DEF StoresInShard
    <3>3. QED  BY <2>1, <3>1, <3>2 DEF StoresInShard, Confined
  <2>4. QED  BY <1>1, <2>2, <2>3, NextStep
<1>2. IInv /\ Acyclic /\ [Next]_vars => [Frozen]_vars
  BY <1>1
<1>3. QED  BY AllocatorInvariant, <1>2, PTL DEF Spec, DeathFreezesShard
============================================================================
