# offset-store: a verification project in TLA+

`offset-store` is an object store in POSIX shared memory. Processes map one
region, each at an address of its own, refer to things in it by offset, allocate
in it, and find objects by name. This directory holds TLA+ models of the store,
the TLC runs that check them on small instances and the TLAPS proofs of what
holds for every instance. Paths below are relative to the repository; line
numbers are those recorded in `PROJECT.json` under `map`.

## 1. The system

| Component | Source | State | Operations |
|---|---|---|---|
| Region | `src/core/shm_region.c` | the shared header: scalars, `state_flags`, `header_checksum`, a mutex, two rwlocks | create, open, close, unlink, validate, lock/unlock |
| Roots and index | `src/core/shm_region.c` | two fixed tables of (in_use, name, object), one rwlock each | set/put, get, remove, contains |
| Allocator | `src/core/allocator.c` | block headers in the heap, a free-list head and a mutex per shard, `allocation_failures` | init, alloc, free |
| Allocator readers | `src/core/allocator.c` | none; they walk the heap without a lock | validate, get_stats, get_allocation_span |
| Store facade | `src/store/store.c` | the region and the offset of the allocator | bootstrap, open_existing, close, validate; wrappers of the tables |
| Offset pointers | `src/core/offset_ptr.c` | none | resolve, from-raw, range checks |
| Object store | `src/store/object_store.c` | an object header in each allocation | alloc, free, validate, get_header, get_payload |
| Ring buffer | `src/containers/ringbuf.c` | slots, `head`, `tail`, a mutex | create, push, pop, length, is_empty, is_full, destroy |
| Dynamic array, list, hash table | `src/containers/*.c` | headers and buffers in allocations | create, insert, remove, lookup, growth, destroy |
| Status and version | `src/core/offset_store.c` | none | strings |

**How they interact.** Everything shared lives in the mapping; there are no
messages and no callbacks. `offset_store_bootstrap` calls `shm_region_create` and
then `allocator_init`; `offset_store_open_existing` calls `shm_region_open` and
then `allocator_validate`. The object store calls the allocator and, on *every*
access through a handle, `allocator_get_allocation_span`. The containers call the
object store. The table operations of the store forward to the region.

**What is hard.** Locks are many and small: a mutex per shard, an rwlock per
table, one mutex per container, and several readers that take none of them.

* Nothing locks a region while its creator fills it in; an opener has only what
  it reads there, and may use the store while the creator still makes its last
  store.
* A checksum covers both tables, and each table has its own lock.
* `allocator_free` reads prefix, flags and shard before it has a lock.
* No lock protects an object header, and a handle outlives its object.
* A container is changed store by store under a mutex whose next owner goes on
  with what a dead owner left, and any allocation in the middle may fail.
* `allocator_validate`, `allocator_get_stats` and `allocator_get_allocation_span`
  walk a heap that others are carving up.
* A process may die between any two stores; some mutexes are robust in some
  builds, the rwlocks never are. A death inside the allocator is felt by every
  layer above it.
* Sizes are `size_t`: additions wrap.
* A shard, a table or a ring can be full, and full differs from empty by one.

**What makes each component correct.**

* Region: an open succeeds only on stores that are set up and accepts those that
  bootstrap has returned, and a failed bootstrap cleans up its own name and nobody
  else's.
* Tables: two bounded maps; every operation takes effect at one instant; the
  checksum in the header fits the tables.
* Allocator: blocks tile the heap, free lists hold exactly the free blocks, what
  a client holds is aligned, large enough and left alone, a request fails only
  if nothing fits, every call returns.
* Readers: an unlocked walk never leaves the block boundaries, finds what is
  there throughout, and accepts a heap at rest.
* Offset pointers: a span is accepted exactly if it lies inside the region, and
  an offset means the same place in every mapping.
* Object store: a handle without the FREED mark denotes a whole object; a call on
  a good handle succeeds and on a dead one fails, whatever others do meanwhile,
  unless the allocator under it was left locked by a dead process.
* Ring buffer: a bounded FIFO queue, also after deaths inside push and pop.
* Containers: their offsets lead to allocated memory, nothing is lost, they hold
  what completed calls put there, destroy frees all, and every call returns.

The hazards, each at its line and with the properties that cover it, are the
`hazards` of `PROJECT.json`.

## 2. The modules

| Module | Models | Notes |
|---|---|---|
| `Allocator` | `allocator_init` (as `Init`), `allocator_alloc`, `allocator_free` | store by store |
| `AbstractHeap` | abstract: memory is handed to one caller at a time | what `Allocator` implements (`ImplementsHeap`), and what the object store and the containers are built on |
| `AllocatorInspect` | the three unlocked readers | composed with `Allocator` |
| `Directory` | abstract: two bounded maps, linearizable | the specification `RegionDirectory` implements |
| `RegionDirectory` | table operations, checksum refresh, header check of open, validate | store by store; refinement `Linearizable` |
| `BoundedFifo` | abstract: a bounded FIFO queue | the specification `RingBuf` implements |
| `RingBuf` | push, pop, length, is_empty, is_full | store by store; refinement `Fifo` |
| `RegionLifecycle` | bootstrap, open_existing, close, unlink, a first allocation | creator store by store, opener check by check |
| `OffsetPtr` | null, bounds check, from-raw, resolve | operators on machine words |
| `ObjectStore` | alloc, free, validate and the accessors | read by read and store by store, over `AbstractHeap` and `OffsetPtr` |
| `Container` | create, destroy, the mutex, failing allocations, deaths | what all containers share, over `AbstractHeap` |
| `HashTable`, `DynArray`, `DynList` | their operations | store by store, each extends `Container` |
| `Containers` | any container from creation to destruction | composes the four; the properties are here |
| `MC*` | instances for TLC (symmetry sets, mappings, calls per process) | one per module that needs one |
| `*Proofs` | theorems about `Allocator` (two modules), `AllocatorInspect`, `RegionDirectory`, `RegionLifecycle`, `OffsetPtr` and `ObjectStore` (one module), `RingBuf`, arrays and rings in `Containers` | checked by TLAPS |

Operators called "Mutant" in a comment are not part of any specification. Each
is a plausible slip in the definition that follows it (a dropped guard, a missing
reset, an off-by-one), kept to show that the properties notice it; `PROJECT.json`
says which property each one breaks.

### Allocator

`block` maps the offset of every block carved so far to its header; there is no
coalescing, so its domain only grows. `heads` and `mutex` are the fields of the
allocator header. A thread's `pc` names the place between two stores that another
thread or a crash could tell apart: `lock`, `walk` (one step per visited block),
`take` (the block is unlinked, its header not yet rewritten), `fill` (its flags are
cleared, its `payload_offset` is still 0), `unlock`, `fail`, and for free
`free_lock`, `recheck`, `clear` (marked free, `payload_offset` still set), `push`.
`link` is the code's `link` pointer: the head, or the `next_free` field of a block.
`AllocSplit` and `AllocWhole` are the two branches of the carve; the size of the
front part is stored later, in `AllocTake`, as in the code. `flags` and
`payload_offset`, which the re-check of `allocator_free` and the unlocked readers
look at, are stored in different steps (`AllocTake` and `AllocFill`, `FreeMark` and
`FreeClear`), and a thread may die in between. `PayloadMarksAllocation` relates the
two and excuses exactly the blocks at which some thread stands, or died, between
these stores. Arithmetic on sizes is modulo `Word`.

`LockOwnerDead` is the EOWNERDEAD branch as it is written: the call returns
SYSTEM_ERROR and *keeps* the mutex. `Robust` chooses the build. In glibc
`PTHREAD_MUTEX_ROBUST` is an enumerator and the `#ifdef` around
`pthread_mutexattr_setrobust` is false; where it is a macro (musl) it is true.

`OwnedFrees` chooses the clients: free only what you hold and once, or free any
pointer you were ever given, at any time.

### AllocatorInspect

One reader beside the threads of `Allocator`; readers only read, so one stands
for any number. A step reads one block header. `held` and `calm` are ghosts: what
clients have held since the walk began, and whether anyone has been inside a call.

### AbstractHeap

A cell is what one call of `allocator_alloc` returns. `allocated` is the set of
cells that belong to somebody; `given` is what the present call of a process has
taken and not yet linked anywhere, which is what is lost if it dies. Anybody who
names an allocated cell frees it, because the allocator knows no owners. In
`Allocator` a cell is the offset of a block: it becomes allocated when its flags
are cleared (`AllocTake`) and free when it is marked so under the lock
(`FreeMark`).

### OffsetPtr and ObjectStore

Addresses, offsets and sizes are words modulo `Word`. Every process of
`ObjectStore` has its own mapping, and every access goes from the handle through
`offset_ptr_try_resolve` to an address, from there to the allocation, and then to
the mark in the header; no two of these are one step. `object_store_resolve_header`
runs twice in a call, with a read of `header->size` in between. An accessor may be
called with any handle that was ever returned, also long after a free and after a
new object took the cell. Frees are careful, as rule 8 of the repository's README
asks: an object is freed once.

A process may die anywhere in a call. If it dies where its next or its last step is
a call of the allocator (`InAllocator`), it may have left a shard's mutex locked.
From then on (`AllocatorDamaged`) an allocation may fail with SYSTEM_ERROR, and so
may a free (`ReleaseFails`): the object is marked by then, its cell stays allocated,
and the caller of a good handle gets an error, the one exception `HandlesTold` has.
A later call may also hang; nothing forces a step, so the behaviours in which it
does are among those of the model.

The ghosts are what clients know: `issued`, `held`, and for each running call in
`sure` whether its handle has been good since the call, bad since the call, or
neither. The reserved word of the header, which nothing reads, is left out.

### Containers

A container's header lies over the ObjectHeader of the object it was made in.
What `object_store_free` finds there when a container is destroyed is therefore
the container's own first two words, read as size and flags (`TakenForLive`); it
refuses an array of odd length, for one, and the header stays allocated. Nor does
`dynlist_destroy` free the nodes. `NothingLeaks` makes no statement about a header
or a list node after destroy; `DestroyFreesAll` states what the code's comments
promise of them, and is violated.

Every allocation may fail, and the least free cell is taken (cells are
interchangeable). A process may die at any label inside its call (`Crash`). It may
also die inside the allocator (`DieInAllocator`), wherever its next or its last
step calls it, or for something of its own while it is idle here. Then some shard
keeps a dead owner: the cells of that shard become `damaged`, no call gets one of
them any more, and `allocator_free`, whose status the containers do not look at,
leaves them allocated (`Release`). Any later call of the allocator may wait for that
mutex for ever, in robust builds too, so that from then on no call is promised to
return. `Shards` says which cells belong together; since other clients allocate and
free as well, nothing depends on the order of cells in a shard.

`content` is what the clients see; it changes in the step in which the operation takes effect.
The operations of a ring are in `RingBuf`; here a use of it only moves `head`,
which is one of the two words that `object_store_free` reads.

Two gaps are excused by name in the properties, because there the code does break
its promise, and the comment in `hashtable.c:66-67` ("subsequent operations can
continue safely") is too strong. `Torn`: a put that replaces a value, and a push or
reserve that grows an array, free the old memory before they store the new offset;
a death in between, and for the put also an allocation that fails, leaves an
offset to free memory. `Miscounted`: a death between the link of a list node and
the count leaves a list longer than its length, and of the links `next` and
`prev` only one may be stored.

### RegionDirectory

A put or remove holds the table's rwlock, stores in_use, name and object one by
one, and then recomputes the checksum, which reads first the roots and then the
index. The checksum of two tables is the pair of their contents: collisions of
FNV-1a are left out. The rwlocks are not robust: nobody gets past a dead holder.
`MaxCalls` bounds the calls of each process by itself.

The mapping to `Directory` reads an entry as its writer will leave it
(`Effective`): an update takes effect when it has found its slot and its answer is
settled, before the first of its stores. Nobody else can look at the table before
the lock is given back, and if the writer dies, nobody ever does. `Bindings`,
`Asked` and `Told` are the abstract maps, calls and answers.

### RegionLifecycle

One name. `Bootstrap` takes it with O_EXCL; then the creator sets the length,
stores the header (INITIALIZING), sets up the mutexes, stores READY, stores the
checksum, stores the allocator's header, sets up the shard mutexes, and makes
six stores for each shard: the head of its list and the five fields of its first
block. Any system call may fail and the creator may die at any label. The results of
the `shm_unlink` calls that clean up (`store.c:68`, `shm_region.c:780`, `786`,
`806`) are ignored by the code; the model takes them to succeed, and
`FailureLeavesNoName` rests on that. `Open` maps whatever has the name and makes the checks of
`shm_region_open`, `allocator_validate`'s header checks, its pass over the heap
and its pass over the free lists, one shard at a time. What a check accepts of a
half-made shard is what the code reads there: a null head passes as an empty
list, an unstored shard number reads as 0.

`room` is what the size of a region leaves for the heap: too little, exactly the
shards, or a tail behind the last shard, when the shard count does not divide the
heap. The pass over the heap goes on into the tail and fails there (`CheckTail`), so
that such a store cannot be opened.

The sixth store, `payload_offset = 0`, is one that no opener tests. `Allocate` is
the part of `allocator_alloc` that can meet it: a process with an open store takes
the first block of a shard. `used` is the set of shards whose first block is
allocated; the sixth store takes the shard out of it again. `OpenedIsStored` says
that an open store lacks at most this one store, of the last shard;
`AllocationsKept`, that no allocation is undone, is violated.

`CarefulUnlinks` says that clients do not call `shm_region_unlink` while a
bootstrap is under way. Without it, a bootstrap whose region was unlinked under
its feet and whose name was taken again removes the other process's region when
it fails, because the clean-up in `store.c` goes by name.

### RingBuf

The copy of an element is two stores, so that a torn element exists. With a
robust mutex the next caller goes on with what the dead one left.
`ringbuf_length` gives the lock back before it reads head and tail again, in
either order. The mapping to `BoundedFifo` is `Queue` (the slots from head to
tail), `Asked` and `Told`: a push takes effect with the store of the tail, a pop
with the store of the head.

## 3. The runs

| Run | Question | Result |
|---|---|---|
| `AllocatorOwned` | Two threads that free what they hold, one of which may die: is the heap sound at every store? | holds |
| `AllocatorRacingFrees` | Threads may free the same pointer at once, or much later; bad sizes and alignments: are lists sound, is memory handed to one caller at a time, do calls return? | yes |
| `InspectWalks` | Can unlocked readers go astray, miss an allocation, or reject a heap at rest? | no |
| `DirectoryLinearizable` | Do the tables, with a death anywhere, implement two bounded maps; is the checksum right after an update that met no other; does every call return if nobody dies? | yes |
| `DirectoryChecksumRace` | Is the checksum right after a root update met an index update? | **violated** |
| `RingBufFifo` | Is the ring a FIFO queue, with a death anywhere, and do calls return? | yes |
| `RingBufLength` | Is the length one the buffer can have? | **violated** |
| `RegionLifecycle` | Does an open succeed only when all that it tests is stored, does it accept every published store without a tail, and does clean-up remove only what it should? | yes |
| `RegionAttachRace` | Is what an opener allocates safe from the rest of the set-up? | **violated** |
| `ObjectStore` | Stale handles, reused cells, a death anywhere: is an unmarked handle a whole object, and are handles told apart, unless a death left the allocator locked? | yes |
| `Containers` | Allocations that fail and a death anywhere, in the allocator too: does anything dangle or leak, are the contents right, do calls return unless the death was in the allocator? | holds |
| `ContainerDestroy` | Does destroying a list free its nodes and its header? | **violated**, for both |

The violated ones are the `findings` of `PROJECT.json`, with the line of code and
the sentence it disagrees with.

**Bounds, and why they are enough.** Lengths of the allocator are in units of 8
bytes, so that header (4), prefix (1) and `max_align_t` (2) are those of the
x86-64 build. A heap of 38 units gives two shards of 19: each holds one block, or
two after a split. The second shard starts at an odd offset, so that payloads
aligned to 4 units get padding that differs between blocks. Sizes 1, 4 and 6
leave remainders of 5, 7 and 9, around the smallest block of 7, so that a split
is refused by a little, allowed exactly, and allowed with room to spare. Three
calls per thread are alloc-alloc-free and alloc-free-alloc, which reach lists of
two blocks, the middle of a list (`link` not the head), fallback to the other
shard, and reuse. `RouteSpan` is 4 instead of 2^14 so that both preferred shards
occur. `Word` is 64: large enough that ordinary requests never wrap and small
enough that 62 does.

For the tables, a root table of one entry is full at once and two names compete
for it, and two index entries let a removed slot be used by another name. Two calls
of one process and one of the other are enough for put-remove or put-put on one
side and any operation in the middle of them. The ring has three slots, so that it holds two elements, wraps, and is full and empty
within three calls. For the life of a region two regions are enough to have a
stale one and a new one under the same name, two shards to tell the first shard,
where an unstored shard number looks right, from the last, and three calls for open,
allocate and close. All three kinds of heap occur.

For the object store, two cells let an object be freed and its cell taken again
while a call on the old handle is between two checks, four calls are enough for
alloc, free, alloc and the stale access, and the two mappings of different bases
lie at both ends of a 16-word address space. A size of `MaxSize + 1` is the
payload the 32-bit field cannot hold.

For the containers, keys 0 and 2 share one of two buckets, so that chains of two,
deletes in the middle and at the head, and replacements occur within three calls
of two processes; an initial capacity of 1 makes the second push grow the array,
and a reserve of 3 jumps over the doubling. Thirteen cells are more than three
calls can take, so that memory runs out only where an allocation is made to fail,
which is everywhere. They alternate between two shards, so that a death in the
allocator damages some of the cells of the container and not others.
`ContainerDestroy` has elements of one byte: an odd element size is what makes
`object_store_free` refuse the header of a list.

Two threads or processes exercise every pairwise race. The theorems below do not
depend on any of these numbers.

`CHECK_DEADLOCK FALSE` is set in every cfg because the bound on calls, and in
some runs a mutex whose owner died, really do stop the system; what must not stop
is stated as a liveness property.

**Fairness.** `FairSpec` has weak fairness on the steps of each running thread,
which the operating system's scheduler gives. It has none on calls (a client may
stop calling) or on crashes, and none that lets a waiter overtake others: a waiter
gets the mutex or rwlock because the other threads make finitely many calls, each
of which leaves the lock. Starvation of a waiter by clients that never stop is
outside of what POSIX mutexes promise and is not claimed. `RingBufFifo` and
`Containers` set `Robust`: where the build leaves the mutex as it is (glibc, see
above), a death in a critical section stops all later callers, and no call can be
promised to return. In `Containers` fairness ends with a death inside the allocator,
since a process may then be waiting for the mutex of a shard for ever, and
`EveryCallReturns` promises nothing from then on. Nor does that of the tables, whose
rwlocks are never robust, after any death. The run that checks it
for the allocator, `AllocatorRacingFrees`, has no deaths.

## 4. The proofs

All theorems are for any number of threads or processes, any shard count,
capacity, heap, number of calls and number of crashes.

**`AllocatorProofs`.** `AllocatorTypeCorrect`, `AllocatorBlocksDisjoint`,
`AllocatorHeapTiled`, `AllocatorFreeListsSound`, `AllocatorPayloadMarks`,
`AllocatorLiveIntact`, `AllocatorHeldBlocksUntouched`,
`AllocatorDeathFreezesShard`. `AllocatorPayloadMarks` holds at every store, with its
exception for a block that some thread, alive or dead, is in the middle of. None of the safety properties is inductive by
itself: whether a split is safe depends on what the walk established some steps
before. The invariant adds that one thread at a time, dead ones included, is in a
shard's critical section (`MutualExclusion`), that `link` leads to `current`
(`WalkSound`), that a block in a thread's hands is unlinked and still free
(`FlightSound`), that the block's front part ends where its remainder starts, and
that a block between the stores of `flags` and `payload_offset` is in nobody else's
hands.
The proofs assume `RequestsFit`, that no request wraps `size_t` (section 5 says
what happens otherwise); those about what clients hold
also assume `OwnedFrees`. `FreeListsSound` does not: racing frees of one pointer
push it once.

**`AllocatorHeapProofs`.** `AllocatorImplementsHeap`: every behaviour of
`Allocator`, racing frees and deaths included, is one of `AbstractHeap`.
`AllocTake` is the abstract allocation, `FreeMark` the abstract free, `Unlock` the
return, and every other step leaves what callers see as it was. Beyond the
invariant above it needs that a call which is about to unlock is at a block of
the shard it has locked (`UnlockSound`); mutual exclusion then keeps every other
call away from that block. With this the object store and the containers may be
checked over `AbstractHeap` instead of the allocator.

`AllocatorFreeListsComplete` and `AllocatorMissMeansNoFit`: the list of a shard
that nobody works on reaches exactly the free blocks, and a walk that gives up has
passed every free block without a fit. Reachability is not defined by recursion:
`Listed` is what every set that is closed under the links contains. The invariant
(`ListsInv`) says that each linked block has a depth and is the head of its list
or linked from a block of smaller depth (`AllReached`), and that a walk has left
behind only blocks that are too small and lead to the one it is at (`Scanned`).
A split, an unlink and a push each keep depths for all but one block.

**`AllocatorInspectProofs`.** The readers take no lock, so the invariant
(`SystemInv`) has to make what they stand on good at every store of every other
thread: `InspectWalksOnBoundaries` (the block a walk stands on is never taken away,
because nothing coalesces, and the next step leads to a block whether it reads the
size before or after a split), `InspectTypeCorrect` (so that `heap_size -
traversed` does not underflow), `InspectHeldSpansFound` and
`InspectStatsCoverHeld` (a walk that skips over a remainder which is just being
split off skips only free memory, `InteriorFree`; so everything held since the walk
began is either counted or ahead of it). `InspectReadersSucceed` and
`InspectCalmHeapIsValid` also assume `NoTail`, that the shards fill the heap: if
they do not, the walk ends before the end of the heap and the reader reports it
corrupt ("the tail of the heap" in section 5). The second counts (`CalmInv`): the
walk over the heap counts each block once, and the walks over the lists never come
to a block a second time, since lists are acyclic and no two links lead to one
block; so the count does not run out.

**`RegionDirectoryProofs`.** `DirectoryTypeCorrect`, `DirectoryNamesUnique` (no
name is bound twice, at any store of any update) and `DirectoryChecksumFresh` (an
update that met no other leaves the checksum right). The invariant for names says
what an update knows about the entry it is storing and about the others while it
holds the lock; the one for the checksum, that an update which met no other is
alone and what it has read is current.

`DirectoryLinearizable`: the tables implement `Directory`. The initial state maps
to two empty maps; `Find` and the reads under the lock map to the abstract
operation, calls and returns to calls and returns, and every other step, deaths
included, to a stutter. The invariant (`MapInv`) adds to that for names that
readers and writers keep each other out (`RwSound`), what a query was asked, that a
call past its effect has its answer, and that a bound name has an object. A put
that finds no slot is refused because the abstract map is full too: with nobody
writing, slots in use and bound names are equally many.

**`RegionLifecycleProofs`.** `LifecycleTypeCorrect`, `LifecycleOpenedIsStored`,
`LifecycleOpenAcceptsPublished` (for heaps without a tail, as the property says),
`LifecyclePublishedKeepsAllocations`, `LifecycleFailureLeavesNoName`, and, with
careful clients, `LifecyclePublishedKeepsName`. The invariant says that a region
is filled in in order (checksum before allocator header before shard 0 before
shard 1 ...), how far its only creator has got, and what an opener has seen so
far. The argument for an open: the first pass saw a size in *every* shard, hence
in the last one, hence every earlier shard was complete; the second pass settles
the last one, up to the sixth store, which it does not look at. This is as much as
is true (`RegionAttachRace`). `LifecyclePublishedKeepsAllocations` bounds the damage:
from the return of bootstrap on no allocation is undone. The argument needs at least
two shards: in shard 0 an unstored shard number
reads as right, and it is only the next shard that shows it was stored.

**`ObjectStoreProofs`.** First the offset pointers. `InBoundsExact`: the bounds
check accepts a span exactly when its true end, without wrapping, is inside the
region. `ResolveInside`, `FromRawExact` and `HandlesTravel`: a resolved span is
inside the mapping, an address inside the mapping becomes its distance from the
base, and an address that one process turns into an offset resolves in another to
the same place.

Then the store: `ObjectStoreTypeCorrect`, `ObjectStoreUnmarkedIsWhole`,
`ObjectStoreHandlesTold`. The invariant says that each allocated cell has one
owner: the clients, the call that is making an object in it, or the call that is
freeing the object (`OneOwner`); how far the header of a cell has got in that
call (`HeadersFit`); that local pointers and sizes fit the cell (`PointersFit`,
`SpansFit`); and what a call whose handle is surely good or surely bad has
established by each label (`SureFits`). A death inside the allocator takes a cell
out of circulation and gives it to nobody, so the invariant has no case for it; it
shows only in the exception of `HandlesTold`. A free is owned by one call because clients
free once; this is where rule 8 enters.

**`RingBufProofs`.** `RingBufTypeCorrect` and `RingBufImplementsFifo`: store by
store and with deaths anywhere, the ring implements `BoundedFifo`. The invariant
says that a live process past the lock owns it, even if it took it over from a
dead one; that the slot at the tail belongs to the push under way until the tail
is stored, so that a torn copy is never part of the queue; and that the element at
the head is the one a pop has copied until the head is stored.

**`ContainerProofs`.** For a container that keeps its elements in one buffer, an array
or a ring (`OneBuffer`), any number of processes and deaths, and allocations that
may fail at any time: `BufferTypeCorrect`, `BufferNeverDangles`,
`BufferNeverLeaks`, `BufferContentsRight`. The invariant (`BufferInv`) says who may
be at which label in each phase of the container's life (`Lives`, `Exclusive`);
that what is allocated is header, buffer, what somebody has in hand and what lies
in a damaged shard (`Memory`), and no more than header and buffer while it is
destroyed if nobody died (`Exact`); that the buffer starts with
the contents and is as large as the capacity says (`Holds`), also after a death
between any two stores of a growth, in which the *old* capacity is kept until the
new buffer is linked; and what a call that is growing or pushing knows of its copy
(`InHand`, `Knows`). After a death in the gap that `Torn` names the freed buffer
may be handed out again to the next growth, as its new buffer: the contents
survive even then, and `Holds` needs no exception.

**Only model-checked.** Liveness (`EveryCallReturns`), which the prover cannot
do. The properties of `Containers` for the list and the hash table: their chains
are walks along `next`, defined by recursion, and what a walk finds after a store
to a link takes induction over its length. That is induction over data, which
this prover does not do.

## 5. Assumptions and limits

* Stores become visible in program order. The code has no barriers outside of
  locks; on x86-64 the order is kept as far as the compiler keeps it.
* `OpenAcceptsPublished` is about a store nobody changes. An open that overlaps a
  table update can fail on the checksum, and one that overlaps an allocation can
  fail in validation; the repository's README leaves a stable view of a changing
  store to its callers (`README.md`, "callers that need a stable read view during
  concurrent mutation must provide external synchronization themselves").
* `InspectWalks` and two theorems (`NoTail`) take the heap to be one the shard count
  divides; `RegionLifecycle` has the other case too, as an exception of
  `OpenAcceptsPublished`, and it is an observation below.
* Heaps are below 4 GiB per shard, so that no header field is truncated.
* Clients do not write outside of their payloads. The paths of `allocator_free`
  for a pointer that never came from the allocator are not modelled.
* NULL arguments and names that are too long are rejected before any state is
  touched, and are left out.

Observations made while modelling that are not properties of a run:

* *A dead owner of a shard mutex.* `README.md:34-38` says that the next lock
  attempt returns INVALID_STATE after marking the mutex consistent and releasing
  it. `shm_region_lock_one` does so, but `allocator_alloc` and `allocator_free`
  take the mutexes of the shards. In robust builds the first caller after a death
  gets SYSTEM_ERROR (`allocator.c:847-853`) and keeps the mutex, so that the next
  ones hang; in glibc builds the test at `allocator.c:94` leaves the mutex as it
  is, and all hang. `DeathFreezesShard` is what remains true: nobody goes on with
  the half-updated shard. The object store and the containers inherit it: a free of
  a good handle may return SYSTEM_ERROR, and a container call may hang in the
  allocator although the container's own mutex is robust. It is not a finding: the
  sentence is about "the allocator mutex", which is the one of `shm_region.c`, and no
  text speaks of a dead owner of a shard.
* *Sizes near SIZE_MAX.* `payload_offset + size` wraps at `allocator.c:904`, and a
  request close to 2^64 is served with a small block (`README.md:287`: "If the
  block is large enough"). The passing runs and the proofs ask for sizes that do
  not wrap.
* *The tail of the heap.* If the heap size is not a multiple of the shard count
  (`allocator.c:196`), the last bytes belong to no shard; the pass of
  `allocator_validate` at line 738 then returns INVALID_STATE, and the store
  cannot be opened (`README.md:279`: "The heap is divided evenly among shards").
  This is the exception for `room` "tail" in `OpenAcceptsPublished`.
* *Lengths that wrap.* `new_cap * elem_size` at `dynarray.c:147` wraps for
  capacities near SIZE_MAX / `elem_size`.
* *Long keys.* A key longer than `key_size` is stored cut short
  (`hashtable.c:121`); no lookup finds it, and each put of it adds an entry.
* The early returns of `allocator_free` leave the thread-local `held_shard` set
  (only a warning in the log depends on it).
* Sizes are rounded up to 16 before they are hashed, so that every request below
  128 KiB prefers shard 0, whereas the README speaks of distribution by hash.
* The mutexes of the containers are robust only where `PTHREAD_MUTEX_ROBUST` is a
  macro, like those of the allocator.

## 6. Plan

Done: all components with state: the allocator and its readers, the region's
tables and its life, the store facade, offset pointers, the object store, the
ring buffer and the containers. Proved: every safety invariant and action property
of these, and the refinements of `AbstractHeap`, `Directory` and `BoundedFifo`,
except for the list and the hash table.

Next: the list. Its chain can be stated without recursion, as the free lists of the
allocator are (a depth for each node, or a sequence of cells each of which links
to the next); the order of its elements has to be carried along by the invariant.
The hash table then needs the same for each bucket.

**Not modelled.** Status and version strings (`offset_store.c`: tables of text,
no state), the getters that read one field, direct use by clients of the region's
exported lock helpers (`shm_region_lock` and its like; the store itself uses the
rwlocks, in the table operations and in validate, and the mutex in validate and
once in `allocator_init`), logging, the examples, the benchmarks and the build.
