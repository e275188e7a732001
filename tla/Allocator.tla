----------------------------- MODULE Allocator -----------------------------
(***************************************************************************)
(* The sharded first-fit allocator of src/core/allocator.c: allocator_init *)
(* (as the initial state), allocator_alloc and allocator_free, run by      *)
(* threads of any number of processes that map the same region.            *)
(*                                                                         *)
(* Shared memory is the header of every block carved so far (`block'), the *)
(* free-list heads and the shard mutexes.  A critical section is modelled  *)
(* store by store wherever a crash or an unlocked reader could tell the    *)
(* difference: unlinking a block, clearing its flags, storing its payload  *)
(* offset, and on the way back marking it free, clearing its payload       *)
(* offset and pushing it are steps of their own.                           *)
(*                                                                         *)
(* Lengths are counted in any unit that divides the code's byte counts.    *)
(* In units of 8 bytes the x86-64 build has BlockHeaderSize = 4,           *)
(* PrefixSize = 1, MaxAlign = 2 and RouteSpan = 2^14.                      *)
(***************************************************************************)
EXTENDS Integers, FiniteSets

CONSTANTS
  Threads,          \* threads of all the processes that map the region
  NoThread,         \* "owner" of an unlocked mutex
  ShardCount,       \* OFFSET_STORE_ALLOCATOR_SHARD_COUNT
  HeapOffset,       \* header->heap_offset
  HeapSize,         \* header->heap_size
  BlockHeaderSize,  \* sizeof(AllocatorBlockHeader)
  PrefixSize,       \* sizeof(AllocationPrefix)
  MaxAlign,         \* alignof(max_align_t)
  Word,             \* SIZE_MAX + 1: size_t arithmetic is modulo Word
  RouteSpan,        \* 2^17 bytes, the shift of allocator_select_shard
  Sizes,            \* sizes the clients ask for
  Alignments,       \* alignments the clients ask for
  Robust,           \* the build sets PTHREAD_MUTEX_ROBUST on the mutexes
  OwnedFrees,       \* clients free only what they hold, and only once
  MaxCalls,         \* bound: calls per thread
  MaxCrashes        \* bound: threads that die

Null == 0                     \* offset_ptr_null()
BLOCK_FREE == 1               \* OFFSET_STORE_ALLOCATOR_BLOCK_FREE
Shards == 0 .. ShardCount - 1

MinBlockSize == BlockHeaderSize + PrefixSize + MaxAlign
ShardSize == HeapSize \div ShardCount
ShardStart(s) == HeapOffset + s * ShardSize
ShardEnd(s) == ShardStart(s) + ShardSize

ASSUME ThreadsAssumption == NoThread \notin Threads
ASSUME LayoutAssumption ==
  /\ ShardCount \in Nat \ {0}
  /\ HeapOffset \in Nat \ {0}
  /\ HeapSize \in Nat
  /\ BlockHeaderSize \in Nat \ {0}
  /\ PrefixSize \in Nat \ {0}
  /\ MaxAlign \in Nat \ {0}
  /\ Word \in Nat \ {0}
  /\ RouteSpan \in Nat \ {0}
\* allocator_init fails with OUT_OF_MEMORY on a smaller heap.
ASSUME HeapAssumption == ShardSize \in Nat /\ MinBlockSize <= ShardSize
ASSUME RequestAssumption ==
  /\ Sizes \subseteq Nat
  /\ Alignments \subseteq Nat
  /\ Robust \in BOOLEAN
  /\ OwnedFrees \in BOOLEAN
  /\ MaxCalls \in Nat
  /\ MaxCrashes \in Nat

VARIABLES
  block,         \* headers of the blocks carved so far, by block offset
  heads,         \* header->shard_free_list_heads
  mutex,         \* owner of each of header->shard_mutexes
  allocation_failures,
  held_shard,    \* the thread-local held_shard
  pc, size, alignment, attempt, try_shard,  \* locals of a call ...
  link,          \* ... the block whose next_free is `link', Null for a head
  current,       \* ... current_offset, or block_offset in allocator_free
  ptr,           \* ... the pointer to free, as an offset from its block
  status,        \* what the last call returned
  calls,         \* number of calls made, for the bound
  crashed,       \* threads that died; their pc shows where
  live,          \* ghost: what clients hold, block offset -> request
  issued         \* ghost: last payload offset handed out for each block

shared == <<block, heads, allocation_failures>>
locks == <<mutex, held_shard>>
locals == <<size, alignment, attempt, try_shard, link, current, ptr>>
ghosts == <<live, issued>>
vars == <<shared, locks, pc, locals, status, calls, crashed, ghosts>>

-----------------------------------------------------------------------------
(* allocator_align_up and the arithmetic built on it.                      *)

PowerOfTwo(a) == \E i \in 0 .. a : a = 2^i
Plus(x, y) == (x + y) % Word
\* allocator_align_up(v, a) returns false.
CannotAlign(v, a) == ~PowerOfTwo(a) \/ v > Word - a
AlignUp(v, a) == v + ((a - (v % a)) % a)

\* Offset from block b to the payload of a request with alignment a.
PayloadOffset(b, a) == AlignUp(BlockHeaderSize + PrefixSize + b, a) - b
\* Mutant: the padding in front of an aligned payload is not counted.
UnpaddedSize(b, n, a) == AlignUp(BlockHeaderSize + PrefixSize + n, MaxAlign)
RequiredSize(b, n, a) == AlignUp(Plus(PayloadOffset(b, a), n), MaxAlign)

\* `size' has been rounded up to MaxAlign = 16 bytes when it is hashed, so of
\* size ^ (size >> 17) only the shifted half reaches the two low bits.
SelectShard(n) == (n \div RouteSpan) % ShardCount

Header(n, next, flag, s, p) ==
  [size |-> n, next_free |-> next, flags |-> flag, shard |-> s,
   payload_offset |-> p]

-----------------------------------------------------------------------------
(* allocator_init leaves one free block per shard.                         *)

Init ==
  /\ block = [b \in {ShardStart(s) : s \in Shards} |->
                Header(ShardSize, Null, BLOCK_FREE,
                       CHOOSE s \in Shards : ShardStart(s) = b, 0)]
  /\ heads = [s \in Shards |-> ShardStart(s)]
  /\ mutex = [s \in Shards |-> NoThread]
  /\ allocation_failures = 0
  /\ held_shard = [t \in Threads |-> -1]
  /\ pc = [t \in Threads |-> "idle"]
  /\ size = [t \in Threads |-> 0]
  /\ alignment = [t \in Threads |-> MaxAlign]
  /\ attempt = [t \in Threads |-> 0]
  /\ try_shard = [t \in Threads |-> 0]
  /\ link = [t \in Threads |-> Null]
  /\ current = [t \in Threads |-> Null]
  /\ ptr = [t \in Threads |-> 0]
  /\ status = [t \in Threads |-> "OK"]
  /\ calls = [t \in Threads |-> 0]
  /\ crashed = {}
  /\ live = [b \in {} |-> 0]
  /\ issued = [b \in DOMAIN block |-> 0]

-----------------------------------------------------------------------------
At(t, label) == t \notin crashed /\ pc[t] = label
Goto(t, label) == pc' = [pc EXCEPT ![t] = label]
Return(t, code) == Goto(t, "idle") /\ status' = [status EXCEPT ![t] = code]

Call(t) ==
  /\ At(t, "idle")
  /\ calls[t] < MaxCalls
  /\ calls' = [calls EXCEPT ![t] = @ + 1]

\* Mutants: the shard is entered without its lock, or although its owner died.
EnterUnlocked(t, s) ==
  /\ mutex' = [mutex EXCEPT ![s] = t]
  /\ held_shard' = [held_shard EXCEPT ![t] = s]
AcquireFromDead(t, s) ==
  mutex[s] \in {NoThread} \cup crashed /\ EnterUnlocked(t, s)

\* pthread_mutex_lock(&header->shard_mutexes[s]) and the held_shard record.
Acquire(t, s) ==
  /\ mutex[s] = NoThread
  /\ mutex' = [mutex EXCEPT ![s] = t]
  /\ held_shard' = [held_shard EXCEPT ![t] = s]

\* pthread_mutex_unlock and held_shard = -1.
Release(t, s) ==
  /\ mutex' = [mutex EXCEPT ![s] = NoThread]
  /\ held_shard' = [held_shard EXCEPT ![t] = -1]

\* A robust mutex whose owner died: pthread_mutex_lock returns EOWNERDEAD
\* with the mutex locked.  The call returns SYSTEM_ERROR; it neither unlocks
\* the mutex nor clears held_shard.
LockOwnerDead(t) ==
  /\ t \notin crashed
  /\ pc[t] \in {"lock", "free_lock"}
  /\ Robust
  /\ LET s == try_shard[t]
     IN /\ mutex[s] \in crashed
        /\ mutex' = [mutex EXCEPT ![s] = t]
        /\ held_shard' = [held_shard EXCEPT ![t] = s]
  /\ Return(t, "SYSTEM_ERROR")
  /\ UNCHANGED <<shared, locals, calls, crashed, ghosts>>

-----------------------------------------------------------------------------
(* allocator_alloc                                                         *)

\* size == 0, or rounding the size up to MaxAlign overflows.
AllocReject(t, n) ==
  /\ Call(t)
  /\ n = 0 \/ CannotAlign(n, MaxAlign)
  /\ Return(t, "INVALID_ARGUMENT")
  /\ UNCHANGED <<shared, locks, locals, crashed, ghosts>>

AllocCall(t, n, a) ==
  /\ Call(t)
  /\ n # 0 /\ ~CannotAlign(n, MaxAlign)
  /\ LET rounded == AlignUp(n, MaxAlign)
     IN /\ size' = [size EXCEPT ![t] = rounded]
        /\ alignment' = [alignment EXCEPT
                           ![t] = IF a < MaxAlign THEN MaxAlign ELSE a]
        /\ attempt' = [attempt EXCEPT ![t] = 0]
        /\ try_shard' = [try_shard EXCEPT ![t] = SelectShard(rounded)]
  /\ Goto(t, "lock")
  /\ UNCHANGED <<shared, locks, link, current, ptr, status, crashed, ghosts>>

AllocLock(t) ==
  /\ At(t, "lock")
  /\ Acquire(t, try_shard[t])
  /\ link' = [link EXCEPT ![t] = Null]
  /\ current' = [current EXCEPT ![t] = heads[try_shard[t]]]
  /\ Goto(t, "walk")
  /\ UNCHANGED <<shared, size, alignment, attempt, try_shard, ptr, status,
                 calls, crashed, ghosts>>

Visiting(t) == At(t, "walk") /\ current[t] # Null
Unaligned(t) ==
  \/ CannotAlign(BlockHeaderSize + PrefixSize + current[t], alignment[t])
  \/ CannotAlign(Plus(PayloadOffset(current[t], alignment[t]), size[t]),
                 MaxAlign)
Needed(t) == RequiredSize(current[t], size[t], alignment[t])
\* Mutant: a block that fits exactly is passed over.
FitsLoosely(t) == Needed(t) < block[current[t]].size
Fits(t) == Needed(t) <= block[current[t]].size
\* Mutant: a remainder that holds a header but no payload is split off.
SplitsSmall(t) == block[current[t]].size - Needed(t) >= BlockHeaderSize
Splits(t) == block[current[t]].size - Needed(t) >= MinBlockSize

\* The alignment is not a power of two: found out under the lock.
AllocBadAlignment(t) ==
  /\ Visiting(t)
  /\ Unaligned(t)
  /\ Release(t, try_shard[t])
  /\ Return(t, "INVALID_ARGUMENT")
  /\ UNCHANGED <<shared, locals, calls, crashed, ghosts>>

\* Too small: link = &block->next_free.
AllocNextBlock(t) ==
  /\ Visiting(t)
  /\ ~Unaligned(t) /\ ~Fits(t)
  /\ link' = [link EXCEPT ![t] = current[t]]
  /\ current' = [current EXCEPT ![t] = block[current[t]].next_free]
  /\ UNCHANGED <<shared, locks, pc, size, alignment, attempt, try_shard, ptr,
                 status, calls, crashed, ghosts>>

\* Mutant: the head is overwritten also when `link' is a next_free field.
StoreHead(t, mem, target) ==
  heads' = [heads EXCEPT ![try_shard[t]] = target] /\ block' = mem

\* *link = target, on top of the headers in mem.
StoreLink(t, mem, target) ==
  IF link[t] = Null
  THEN /\ heads' = [heads EXCEPT ![try_shard[t]] = target]
       /\ block' = mem
  ELSE /\ heads' = heads
       /\ block' = [mem EXCEPT ![link[t]].next_free = target]

\* The remainder becomes a block that replaces the current one in the list.
AllocSplit(t) ==
  /\ Visiting(t)
  /\ ~Unaligned(t) /\ Fits(t) /\ Splits(t)
  /\ LET b == current[t]
         n == b + Needed(t)
         rest == Header(block[b].size - Needed(t), block[b].next_free,
                        BLOCK_FREE, try_shard[t], 0)
     IN /\ StoreLink(t, [c \in DOMAIN block \cup {n} |->
                           IF c = n THEN rest ELSE block[c]], n)
        /\ issued' = [c \in DOMAIN block \cup {n} |->
                        IF c = n THEN 0 ELSE issued[c]]
  /\ Goto(t, "take")
  /\ UNCHANGED <<allocation_failures, locks, locals, status, calls, crashed,
                 live>>

\* The remainder could not hold a block: the list skips the current one.
AllocWhole(t) ==
  /\ Visiting(t)
  /\ ~Unaligned(t) /\ Fits(t) /\ ~Splits(t)
  /\ StoreLink(t, block, block[current[t]].next_free)
  /\ Goto(t, "take")
  /\ UNCHANGED <<allocation_failures, locks, locals, status, calls, crashed,
                 ghosts>>

\* Mutant: block->size is not cut down after a split.
UncutSize(t) == block[current[t]].size
TakenSize(t) == IF Splits(t) THEN Needed(t) ELSE block[current[t]].size

\* The unlinked block is cut to size and marked used ...
AllocTake(t) ==
  /\ At(t, "take")
  /\ LET b == current[t]
     IN block' = [block EXCEPT
                    ![b] = Header(TakenSize(t), Null, 0, try_shard[t],
                                  block[b].payload_offset)]
  /\ Goto(t, "fill")
  /\ UNCHANGED <<heads, allocation_failures, locks, locals, status, calls,
                 crashed, ghosts>>

\* ... and then its payload_offset is stored, the prefix written and *out_ptr
\* set: the client has its payload.
AllocFill(t) ==
  /\ At(t, "fill")
  /\ LET b == current[t]
         p == PayloadOffset(b, alignment[t])
     IN /\ block' = [block EXCEPT ![b].payload_offset = p]
        /\ live' = [c \in DOMAIN live \cup {b} |->
                      IF c = b THEN [size |-> size[t], alignment |-> alignment[t]]
                               ELSE live[c]]
        /\ issued' = [issued EXCEPT ![b] = p]
  /\ Goto(t, "unlock")
  /\ UNCHANGED <<heads, allocation_failures, locks, locals, status, calls,
                 crashed>>

\* Mutant: the shard after the last one is not taken modulo ShardCount.
MissPastLastShard(t) ==
  /\ At(t, "walk") /\ current[t] = Null
  /\ Release(t, try_shard[t])
  /\ attempt' = [attempt EXCEPT ![t] = @ + 1]
  /\ try_shard' = [try_shard EXCEPT ![t] = @ + 1]
  /\ Goto(t, IF attempt[t] + 1 < ShardCount THEN "lock" ELSE "fail")
  /\ UNCHANGED <<shared, size, alignment, link, current, ptr, status, calls,
                 crashed, ghosts>>

\* The list is exhausted: unlock and fall back to the next shard.
AllocMiss(t) ==
  /\ At(t, "walk") /\ current[t] = Null
  /\ Release(t, try_shard[t])
  /\ attempt' = [attempt EXCEPT ![t] = @ + 1]
  /\ try_shard' = [try_shard EXCEPT ![t] = (@ + 1) % ShardCount]
  /\ Goto(t, IF attempt[t] + 1 < ShardCount THEN "lock" ELSE "fail")
  /\ UNCHANGED <<shared, size, alignment, link, current, ptr, status, calls,
                 crashed, ghosts>>

AllocFail(t) ==
  /\ At(t, "fail")
  /\ allocation_failures' = allocation_failures + 1
  /\ Return(t, "OUT_OF_MEMORY")
  /\ UNCHANGED <<block, heads, locks, locals, calls, crashed, ghosts>>

\* The way out of both functions once they succeeded.
Unlock(t) ==
  /\ At(t, "unlock")
  /\ Release(t, try_shard[t])
  /\ Return(t, "OK")
  /\ UNCHANGED <<shared, locals, calls, crashed, ghosts>>

-----------------------------------------------------------------------------
(* allocator_free.  A client hands in the payload pointer it was last      *)
(* given for block b; the prefix in front of it still names b.             *)

MayFree(b) == IF OwnedFrees THEN b \in DOMAIN live ELSE issued[b] # 0
Forget(b) == live' = [c \in DOMAIN live \ {b} |-> live[c]]

\* The block is marked free when its flags are read, before the lock.
FreeReject(t, b) ==
  /\ Call(t)
  /\ MayFree(b)
  /\ block[b].flags = BLOCK_FREE
  /\ Return(t, "INVALID_STATE")
  /\ UNCHANGED <<shared, locks, locals, crashed, ghosts>>

\* Prefix, flags and shard are read before the lock is taken.
FreeCall(t, b) ==
  /\ Call(t)
  /\ MayFree(b)
  /\ block[b].flags # BLOCK_FREE
  /\ current' = [current EXCEPT ![t] = b]
  /\ ptr' = [ptr EXCEPT ![t] = issued[b]]
  /\ try_shard' = [try_shard EXCEPT ![t] = block[b].shard]
  /\ Forget(b)
  /\ Goto(t, "free_lock")
  /\ UNCHANGED <<shared, locks, size, alignment, attempt, link, status,
                 crashed, issued>>

FreeLock(t) ==
  /\ At(t, "free_lock")
  /\ Acquire(t, try_shard[t])
  /\ Goto(t, "recheck")
  /\ UNCHANGED <<shared, locals, status, calls, crashed, ghosts>>

\* Mutant: no re-check under the lock.
Unchecked(t) == TRUE
PointsToPayload(t) == block[current[t]].payload_offset = ptr[t]

\* Mutant: the early return forgets the unlock.
MismatchKeepsLock(t) ==
  /\ At(t, "recheck")
  /\ ~PointsToPayload(t)
  /\ Return(t, "INVALID_ARGUMENT")
  /\ UNCHANGED <<shared, locks, locals, calls, crashed, ghosts>>

\* expected_payload != ptr: this return leaves held_shard set.
FreeMismatch(t) ==
  /\ At(t, "recheck")
  /\ ~PointsToPayload(t)
  /\ mutex' = [mutex EXCEPT ![try_shard[t]] = NoThread]
  /\ Return(t, "INVALID_ARGUMENT")
  /\ UNCHANGED <<shared, held_shard, locals, calls, crashed,
                 ghosts>>

\* The block is marked free ...
FreeMark(t) ==
  /\ At(t, "recheck")
  /\ PointsToPayload(t)
  /\ block' = [block EXCEPT ![current[t]].flags = BLOCK_FREE]
  /\ Goto(t, "clear")
  /\ UNCHANGED <<heads, allocation_failures, locks, locals, status, calls,
                 crashed, ghosts>>

\* Mutants: the stale payload_offset stays behind, or the old head is lost.
ClearKeepsPayload(t) ==
  /\ At(t, "clear")
  /\ block' = [block EXCEPT ![current[t]].next_free = heads[try_shard[t]]]
  /\ Goto(t, "push")
  /\ UNCHANGED <<heads, allocation_failures, locks, locals, status, calls,
                 crashed, ghosts>>
ClearDropsList(t) ==
  /\ At(t, "clear")
  /\ block' = [block EXCEPT ![current[t]].payload_offset = 0,
                            ![current[t]].next_free = Null]
  /\ Goto(t, "push")
  /\ UNCHANGED <<heads, allocation_failures, locks, locals, status, calls,
                 crashed, ghosts>>

\* ... payload_offset and next_free are stored ...
FreeClear(t) ==
  /\ At(t, "clear")
  /\ block' = [block EXCEPT ![current[t]].payload_offset = 0,
                            ![current[t]].next_free = heads[try_shard[t]]]
  /\ Goto(t, "push")
  /\ UNCHANGED <<heads, allocation_failures, locks, locals, status, calls,
                 crashed, ghosts>>

\* ... and then the head of the shard's list.
FreePush(t) ==
  /\ At(t, "push")
  /\ heads' = [heads EXCEPT ![try_shard[t]] = current[t]]
  /\ Goto(t, "unlock")
  /\ UNCHANGED <<block, allocation_failures, locks, locals, status, calls,
                 crashed, ghosts>>

-----------------------------------------------------------------------------
\* The process of thread t dies inside a call; its mutex stays locked.
Crash(t) ==
  /\ t \notin crashed
  /\ pc[t] # "idle"
  /\ Cardinality(crashed) < MaxCrashes
  /\ crashed' = crashed \cup {t}
  /\ UNCHANGED <<shared, locks, pc, locals, status, calls, ghosts>>

AllocStep(t) ==
  \/ AllocLock(t) \/ AllocBadAlignment(t) \/ AllocNextBlock(t)
  \/ AllocSplit(t) \/ AllocWhole(t) \/ AllocTake(t)
  \/ AllocFill(t) \/ AllocMiss(t) \/ AllocFail(t)
FreeStep(t) ==
  FreeLock(t) \/ FreeMismatch(t) \/ FreeMark(t) \/ FreeClear(t) \/ FreePush(t)
Step(t) == AllocStep(t) \/ FreeStep(t) \/ Unlock(t) \/ LockOwnerDead(t)

Request(t) ==
  \/ \E n \in Sizes : AllocReject(t, n)
  \/ \E n \in Sizes, a \in Alignments : AllocCall(t, n, a)
  \/ \E b \in DOMAIN block : FreeReject(t, b)
  \/ \E b \in DOMAIN block : FreeCall(t, b)

Next == \E t \in Threads : Request(t) \/ Step(t) \/ Crash(t)

Spec == Init /\ [][Next]_vars

\* A running thread is scheduled.  The mutexes promise no more: a waiter gets
\* in because the other threads make finitely many calls.
FairSpec == Spec /\ \A t \in Threads : WF_vars(Step(t))

-----------------------------------------------------------------------------
(* Where the threads are.                                                  *)

InCriticalSection(t) ==
  pc[t] \in {"walk", "take", "fill", "recheck", "clear", "push", "unlock"}

\* Between unlinking a block and marking it used, and between marking a block
\* free and pushing it, the block belongs to thread t.
Handling(t, b) == pc[t] \in {"take", "clear", "push"} /\ current[t] = b
InFlight(b) == \E t \in Threads : Handling(t, b)

\* Block b is free for anyone to take: it ought to be on its shard's list.
Linked(b) ==
  b \in DOMAIN block /\ block[b].flags = BLOCK_FREE /\ ~InFlight(b)

\* No thread, dead ones included, is inside the critical section of shard s.
Quiet(s) == \A t \in Threads : InCriticalSection(t) => try_shard[t] # s

Labels == {"idle", "lock", "walk", "take", "fill", "unlock", "fail",
           "free_lock", "recheck", "clear", "push"}
Statuses == {"OK", "INVALID_ARGUMENT", "INVALID_STATE", "OUT_OF_MEMORY",
             "SYSTEM_ERROR"}
Headers == [size : Nat, next_free : Nat, flags : {0, BLOCK_FREE},
            shard : Shards, payload_offset : Nat]

(* Every variable of the allocator has its type; block headers and the     *)
(* ghosts grow together as allocator_alloc carves blocks.                  *)
TypeOK ==
  /\ DOMAIN block \subseteq Nat /\ block \in [DOMAIN block -> Headers]
  /\ heads \in [Shards -> Nat]
  /\ mutex \in [Shards -> Threads \cup {NoThread}]
  /\ allocation_failures \in Nat
  /\ held_shard \in [Threads -> Shards \cup {-1}]
  /\ pc \in [Threads -> Labels]
  /\ size \in [Threads -> Nat]
  /\ alignment \in [Threads -> Nat \ {0}]
  /\ attempt \in [Threads -> Nat]
  /\ try_shard \in [Threads -> Shards]
  /\ link \in [Threads -> Nat]
  /\ current \in [Threads -> Nat]
  /\ ptr \in [Threads -> Nat]
  /\ status \in [Threads -> Statuses]
  /\ calls \in [Threads -> Nat]
  /\ crashed \subseteq Threads
  /\ DOMAIN live \subseteq DOMAIN block
  /\ live \in [DOMAIN live -> [size : Nat, alignment : Nat]]
  /\ issued \in [DOMAIN block -> Nat]

-----------------------------------------------------------------------------
(* Safety.                                                                 *)

(* No two blocks overlap, whatever the interleaving of splits and frees in *)
(* the shards.  While a split is under way (the remainder is linked, the   *)
(* size of the block in front of it is not stored yet) the taken part of   *)
(* that block must end where the remainder starts.                         *)
BlocksDisjoint ==
  \A b, c \in DOMAIN block :
    b < c => \/ b + block[b].size <= c
             \/ \E t \in Threads : /\ pc[t] = "take" /\ current[t] = b
                                   /\ b + TakenSize(t) <= c

(* The physical walk that allocator_validate, allocator_get_stats and      *)
(* allocator_get_allocation_span rely on never lands between blocks: every *)
(* block lies inside its shard, is large enough for its header and ends at *)
(* the end of the shard or at another block, at every intermediate store.  *)
HeapTiled ==
  \A b \in DOMAIN block :
    LET s == block[b].shard
    IN /\ ShardStart(s) <= b /\ b + block[b].size <= ShardEnd(s)
       /\ MinBlockSize <= block[b].size
       /\ b + block[b].size \in DOMAIN block \cup {ShardEnd(s)}

(* A free-list link (a head, or next_free of a listed block) is null or    *)
(* names a free block of the same shard that nobody is taking or pushing,  *)
(* and no block is the target of two links: so no block is handed out      *)
(* twice, also when two threads race to free the same pointer.             *)
FreeListsSound ==
  /\ \A s \in Shards : heads[s] # Null =>
       Linked(heads[s]) /\ block[heads[s]].shard = s
  /\ \A b \in DOMAIN block : Linked(b) /\ block[b].next_free # Null =>
       /\ Linked(block[b].next_free)
       /\ block[block[b].next_free].shard = block[b].shard
       /\ \A s \in Shards : heads[s] # block[b].next_free
       /\ \A c \in DOMAIN block :
            Linked(c) /\ block[c].next_free = block[b].next_free => c = b

\* A thread, or a dead one, stands between the stores of flags and of
\* payload_offset of block b.
MidStore(b) ==
  \E t \in Threads : pc[t] \in {"fill", "clear"} /\ current[t] = b

(* A block is allocated exactly when its payload_offset is set, except     *)
(* while a thread stands, or died, between the two stores: the re-check of *)
(* allocator_free, which runs under the lock that thread holds, therefore  *)
(* turns down a second free of the pointer.                                *)
PayloadMarksAllocation ==
  \A b \in DOMAIN block :
    \/ MidStore(b)
    \/ block[b].flags = BLOCK_FREE <=> block[b].payload_offset = 0

(* What a client holds stays an allocated block with the payload it was    *)
(* promised: aligned as asked, behind header and prefix, inside the block. *)
LiveIntact ==
  \A b \in DOMAIN live :
    LET p == block[b].payload_offset
    IN /\ block[b].flags = 0
       /\ BlockHeaderSize + PrefixSize <= p
       /\ p + live[b].size <= block[b].size
       /\ (b + p) % live[b].alignment = 0

\* S holds every block that the links of shard s lead through up to c, which
\* is a block, or Null for the end of the list.
HoldsUpTo(S, s, c) ==
  /\ heads[s] \in S \cup {c}
  /\ \A b \in S : block[b].next_free \in S \cup {c}

\* The blocks that the links of shard s lead through: those in every set that
\* holds the whole list.
Listed(s) ==
  {b \in DOMAIN block :
     \A S \in SUBSET DOMAIN block : HoldsUpTo(S, s, Null) => b \in S}

(* No free block is lost: outside critical sections the list of a shard    *)
(* reaches exactly its free blocks.                                        *)
FreeListsComplete ==
  \A s \in Shards : Quiet(s) =>
    Listed(s) = {b \in DOMAIN block :
                   block[b].shard = s /\ block[b].flags = BLOCK_FREE}

(* allocator_alloc moves on to the next shard, and in the end reports      *)
(* OUT_OF_MEMORY, only if no free block of the shard it walked could have  *)
(* served the request.                                                     *)
MissMeansNoFit ==
  \A t \in Threads : pc[t] = "walk" /\ current[t] = Null =>
    \A b \in DOMAIN block :
      Linked(b) /\ block[b].shard = try_shard[t] =>
        block[b].size < RequiredSize(b, size[t], alignment[t])

(* While a client holds a block, no step of any thread changes the block's *)
(* header.                                                                 *)
HeldBlocksUntouched ==
  [][\A b \in DOMAIN live \cap DOMAIN live' : block'[b] = block[b]]_vars

(* Once a thread has died in the critical section of a shard, nothing in   *)
(* that shard changes any more: no later call builds on the half-done      *)
(* split or free it left behind.                                           *)
DeathFreezesShard ==
  [][\A t \in crashed : InCriticalSection(t) =>
       LET s == try_shard[t]
       IN /\ heads'[s] = heads[s]
          /\ \A b \in DOMAIN block' : block'[b].shard = s =>
               b \in DOMAIN block /\ block'[b] = block[b]]_vars

(* Every call returns, unless its own thread dies.                         *)
EveryCallReturns ==
  \A t \in Threads : pc[t] # "idle" ~> (pc[t] = "idle" \/ t \in crashed)

-----------------------------------------------------------------------------
(* What the callers see: a block belongs to somebody while its flags are   *)
(* clear, and a call that has taken one has it in hand until it returns.   *)

HasTaken(t) == pc[t] \in {"fill", "unlock"} /\ block[current[t]].flags = 0

Abstract == INSTANCE AbstractHeap WITH
  Procs <- Threads,
  Cells <- HeapOffset .. HeapOffset + HeapSize,
  allocated <- {b \in DOMAIN block : block[b].flags = 0},
  given <- [t \in Threads |-> IF HasTaken(t) THEN <<current[t]>> ELSE <<>>]

(* The allocator keeps its promise to the object store and the containers: *)
(* no block is handed to a second caller before it was freed, and a block  *)
(* that is in use leaves the allocated ones by a free alone, whatever the  *)
(* splits, fall-backs and racing frees of the other threads.               *)
ImplementsHeap == Abstract!HeapSpec

-----------------------------------------------------------------------------
(* The inductive invariant behind the safety properties.                   *)

\* Rounding the request and adding the payload offset stays below SIZE_MAX.
Heap == HeapOffset .. HeapOffset + HeapSize
NoWrap(n, a) == \A b \in Heap : PayloadOffset(b, a) + n < Word
RequestsFit ==
  \A n \in Sizes, a \in Alignments :
    n # 0 /\ ~CannotAlign(n, MaxAlign) =>
      NoWrap(AlignUp(n, MaxAlign), IF a < MaxAlign THEN MaxAlign ELSE a)

\* One thread at a time, dead ones included, is inside a critical section.
MutualExclusion ==
  \A t \in Threads : InCriticalSection(t) =>
    /\ mutex[try_shard[t]] # NoThread
    /\ \A u \in Threads :
         InCriticalSection(u) /\ try_shard[u] = try_shard[t] => u = t

\* What the locals of a call say about the shared state.
RequestSound(t) ==
  pc[t] \in {"lock", "walk", "take", "fill"} =>
    MaxAlign <= size[t] /\ NoWrap(size[t], alignment[t])
WalkSound(t) ==
  pc[t] = "walk" =>
    IF link[t] = Null THEN current[t] = heads[try_shard[t]]
    ELSE /\ Linked(link[t])
         /\ block[link[t]].shard = try_shard[t]
         /\ block[link[t]].next_free = current[t]
BlockSound(t) ==
  pc[t] \in {"take", "fill", "clear", "push", "free_lock", "recheck"} =>
    current[t] \in DOMAIN block /\ block[current[t]].shard = try_shard[t]
FlightSound(t) ==
  /\ pc[t] \in {"take", "clear", "push"} => block[current[t]].flags = BLOCK_FREE
  /\ pc[t] = "fill" =>
       /\ block[current[t]].flags = 0
       /\ Needed(t) <= block[current[t]].size
  /\ pc[t] = "take" =>
       /\ Needed(t) <= block[current[t]].size
       /\ current[t] + TakenSize(t) \in
            DOMAIN block \cup {ShardEnd(try_shard[t])}
  /\ pc[t] = "push" => block[current[t]].next_free = heads[try_shard[t]]
  /\ pc[t] \in {"free_lock", "recheck"} => ptr[t] # 0
CallsSound ==
  \A t \in Threads : /\ RequestSound(t) /\ WalkSound(t)
                     /\ BlockSound(t) /\ FlightSound(t)

\* With clients that free what they hold, a free under way has its block to
\* itself until the block is marked, and so has an allocation.
PendingFree(t) == pc[t] \in {"free_lock", "recheck"}
OwnershipSound ==
  OwnedFrees =>
    /\ LiveIntact
    /\ \A b \in DOMAIN live : issued[b] # 0
    /\ \A t \in Threads : PendingFree(t) =>
         /\ current[t] \notin DOMAIN live
         /\ block[current[t]].flags = 0
         /\ \A u \in Threads : PendingFree(u) /\ current[u] = current[t] => u = t
    /\ \A t \in Threads : pc[t] = "fill" =>
         /\ current[t] \notin DOMAIN live
         /\ \A u \in Threads : PendingFree(u) => current[u] # current[t]

HeapInv == BlocksDisjoint /\ HeapTiled /\ FreeListsSound /\ PayloadMarksAllocation
IInv == TypeOK /\ MutualExclusion /\ CallsSound /\ HeapInv /\ OwnershipSound
============================================================================
