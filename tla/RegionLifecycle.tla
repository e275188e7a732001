-------------------------- MODULE RegionLifecycle --------------------------
(***************************************************************************)
(* How a store comes into being and is found: offset_store_bootstrap,      *)
(* offset_store_open_existing and offset_store_close of src/store/store.c, *)
(* with shm_region_create, shm_region_open, shm_region_close and           *)
(* shm_region_unlink of src/core/shm_region.c and allocator_init of        *)
(* src/core/allocator.c under them.                                        *)
(*                                                                         *)
(* Processes share one name.  Nothing locks a region while its creator     *)
(* fills it in: an opener only has what it reads there, so the creator is  *)
(* modelled store by store as far as an opener can tell, and the opener    *)
(* check by check.  Stores are seen in program order.  Of what clients do  *)
(* with an open store, the subject of RegionDirectory and Allocator, only  *)
(* an allocation is here, because allocator_init may still be storing.     *)
(***************************************************************************)
EXTENDS Integers, FiniteSets

CONSTANTS
  Procs,
  Regions, NoRegion,   \* shared-memory objects, a fresh one per shm_open
  ShardCount,          \* OFFSET_STORE_ALLOCATOR_SHARD_COUNT
  CarefulUnlinks,      \* clients do not unlink during a bootstrap
  MaxCalls,            \* bound: calls per process
  MaxCrashes           \* bound: processes that die

Shards == 0 .. ShardCount - 1

ASSUME RegionsAssumption == NoRegion \notin Regions
ASSUME ShardsAssumption == ShardCount \in Nat /\ ShardCount >= 2
ASSUME BoundsAssumption ==
  /\ CarefulUnlinks \in BOOLEAN
  /\ MaxCalls \in Nat /\ MaxCrashes \in Nat

VARIABLES
  named,        \* the region that shm_open finds under the name
  region,       \* header fields of each region
  stage,        \* stores allocator_init has made for each shard
  room,         \* what each region's size leaves for the allocator's heap
  used,         \* shards whose first block is allocated, in each region
  created,      \* regions made so far
  pc, mine,     \* where each call is, and the region it works on
  shard,        \* loop variable of allocator_init and allocator_validate
  mapped,       \* region of the process's store, NoRegion when it is closed
  status,       \* what the last call returned, or is about to
  calls, crashed,
  published,    \* ghost: regions whose bootstrap returned OK
  unlinked      \* ghost: regions removed by a call of shm_region_unlink

memory == <<region, stage, used>>
ghosts == <<published, unlinked>>
vars == <<named, memory, room, created, pc, mine, shard, mapped, status,
          calls, crashed, ghosts>>

\* A new object has length 0, and reads as zeros once it has a length.
Fresh == [sized |-> FALSE, state_flags |-> "none", checksum |-> FALSE,
          allocator |-> FALSE]

\* The heap is too small; or as large as its shards together; or larger, when
\* ShardCount does not divide its size: then its tail belongs to no shard.
Rooms == {"small", "even", "tail"}

\* The stores of allocator_init to a shard, in their order.
NoStore == 0
HeadStored == 1     \* shard_free_list_heads[shard]
SizeStored == 2     \* ... and the size of the first block
NextStored == 3     \* ... and its next_free
FlagStored == 4     \* ... and its flags
ShardStored == 5    \* ... and its shard
PayloadStored == 6  \* ... and its payload_offset, 0

Init ==
  /\ named = NoRegion
  /\ region = [r \in Regions |-> Fresh]
  /\ stage = [r \in Regions |-> [s \in Shards |-> NoStore]]
  /\ room = [r \in Regions |-> "even"]
  /\ used = [r \in Regions |-> {}]
  /\ created = {}
  /\ pc = [p \in Procs |-> "idle"]
  /\ mine = [p \in Procs |-> NoRegion]
  /\ shard = [p \in Procs |-> 0]
  /\ mapped = [p \in Procs |-> NoRegion]
  /\ status = [p \in Procs |-> "OK"]
  /\ calls = [p \in Procs |-> 0]
  /\ crashed = {}
  /\ published = {} /\ unlinked = {}

-----------------------------------------------------------------------------
At(p, label) == p \notin crashed /\ pc[p] = label
Goto(p, label) == pc' = [pc EXCEPT ![p] = label]
Give(p, code) == status' = [status EXCEPT ![p] = code]

Call(p) ==
  /\ At(p, "idle") /\ calls[p] < MaxCalls
  /\ calls' = [calls EXCEPT ![p] = @ + 1]
  /\ UNCHANGED <<memory, mapped, crashed>>

\* shm_open or shm_unlink fails for a reason of its own.
SystemFails(p) ==
  /\ Call(p)
  /\ Give(p, "SYSTEM_ERROR")
  /\ UNCHANGED <<named, room, created, pc, mine, shard, ghosts>>

\* The call returns, with the store open on r or closed.
Return(p, code, r) ==
  /\ Goto(p, "idle")
  /\ Give(p, code)
  /\ mapped' = [mapped EXCEPT ![p] = r]
  /\ mine' = [mine EXCEPT ![p] = NoRegion]
  /\ shard' = [shard EXCEPT ![p] = 0]
  /\ UNCHANGED <<memory, room, created, calls, crashed, unlinked>>

-----------------------------------------------------------------------------
(* offset_store_bootstrap                                                  *)

\* Mutant: every error removes the name.
ExistsUnlinks(p) ==
  /\ Call(p) /\ mapped[p] = NoRegion
  /\ named # NoRegion
  /\ Give(p, "ALREADY_EXISTS")
  /\ named' = NoRegion
  /\ UNCHANGED <<room, created, pc, mine, shard, ghosts>>

\* shm_open(O_CREAT | O_EXCL) finds the name taken.
BootstrapExists(p) ==
  /\ Call(p) /\ mapped[p] = NoRegion
  /\ named # NoRegion
  /\ Give(p, "ALREADY_EXISTS")
  /\ UNCHANGED <<named, room, created, pc, mine, shard, ghosts>>

Bootstrap(p, r, form) ==
  /\ Call(p) /\ mapped[p] = NoRegion
  /\ named = NoRegion
  /\ r \notin created
  /\ named' = r
  /\ created' = created \cup {r}
  /\ room' = [room EXCEPT ![r] = form]
  /\ mine' = [mine EXCEPT ![p] = r]
  /\ Goto(p, "truncate")
  /\ UNCHANGED <<shard, status, ghosts>>

\* A store of p that leaves its region with this header.
Mine(p) == region[mine[p]]
StoreHeader(p, from, header, next) ==
  /\ At(p, from)
  /\ region' = [region EXCEPT ![mine[p]] = header]
  /\ Goto(p, next)
  /\ UNCHANGED <<named, stage, used, room, created, mine, shard, mapped, status,
                 calls, crashed, ghosts>>

Truncate(p) ==
  StoreHeader(p, "truncate", [Mine(p) EXCEPT !.sized = TRUE], "map")
\* Map, zero the header, store all of its scalars and clear the tables.
InitHeader(p) ==
  StoreHeader(p, "map", [Mine(p) EXCEPT !.state_flags = "INITIALIZING"], "mutexes")

\* Set-up that no opener looks at.
Advance(p, from, next) ==
  /\ At(p, from)
  /\ Goto(p, next)
  /\ UNCHANGED <<named, memory, room, created, mine, shard, mapped, status,
                 calls, crashed, ghosts>>

\* shm_region_init_mutexes
InitMutexes(p) == Advance(p, "mutexes", "ready")
\* Mutant: the region is never marked READY.
StaysInitializing(p) ==
  StoreHeader(p, "ready", [Mine(p) EXCEPT !.state_flags = "INITIALIZING"], "checksum")
StoreReady(p) ==
  StoreHeader(p, "ready", [Mine(p) EXCEPT !.state_flags = "READY"], "checksum")
StoreChecksum(p) ==
  StoreHeader(p, "checksum", [Mine(p) EXCEPT !.checksum = TRUE], "allocator")

\* allocator_init stores its header before the heap is there.
InitAllocator(p) ==
  /\ StoreHeader(p, "allocator", [Mine(p) EXCEPT !.allocator = TRUE], "shard_mutexes")
  /\ room[mine[p]] # "small"

InitShardMutexes(p) == Advance(p, "shard_mutexes", "blocks")

\* Mutant: the loop goes on to the next shard one store too late.
StoreBlockLate(p) ==
  /\ At(p, "blocks") /\ shard[p] < ShardCount
  /\ stage' = [stage EXCEPT ![mine[p]][shard[p]] = @ + 1]
  /\ shard' = [shard EXCEPT ![p] =
                 IF stage[mine[p]][shard[p]] = PayloadStored THEN @ + 1 ELSE @]
  /\ UNCHANGED <<named, region, used, room, created, pc, mine, mapped, status,
                 calls, crashed, ghosts>>

\* The next store to the shard.  The last one, payload_offset = 0, also hits a
\* block that an opener has allocated in the meantime.
StoreBlock(p) ==
  /\ At(p, "blocks") /\ shard[p] < ShardCount
  /\ stage' = [stage EXCEPT ![mine[p]][shard[p]] = @ + 1]
  /\ used' = [used EXCEPT ![mine[p]] =
                IF stage'[mine[p]][shard[p]] = PayloadStored
                THEN @ \ {shard[p]} ELSE @]
  /\ shard' = [shard EXCEPT ![p] =
                 IF stage'[mine[p]][shard[p]] = PayloadStored THEN @ + 1 ELSE @]
  /\ UNCHANGED <<named, region, room, created, pc, mine, mapped, status,
                 calls, crashed, ghosts>>

BootstrapDone(p) ==
  /\ At(p, "blocks") /\ shard[p] = ShardCount
  /\ published' = published \cup {mine[p]}
  /\ Return(p, "OK", mine[p])
  /\ UNCHANGED named

\* A system call fails, or the heap would be too small.
BootstrapFails(p) ==
  /\ \/ /\ pc[p] \in {"truncate", "map", "mutexes", "allocator", "shard_mutexes"}
        /\ Give(p, "SYSTEM_ERROR")
     \/ /\ pc[p] = "blocks" /\ shard[p] = ShardCount
        /\ Give(p, "SYSTEM_ERROR")
     \/ /\ pc[p] = "allocator" /\ room[mine[p]] = "small"
        /\ Give(p, "OUT_OF_MEMORY")
  /\ p \notin crashed
  /\ Goto(p, "unlink")
  /\ UNCHANGED <<named, memory, room, created, mine, shard, mapped, calls,
                 crashed, ghosts>>

\* Mutant: the name is left behind.
CloseOnly(p) ==
  /\ At(p, "unlink")
  /\ Return(p, status[p], NoRegion)
  /\ UNCHANGED <<named, published>>

\* The region is closed and its name removed.  shm_unlink goes by name; its
\* result is ignored, and here it succeeds.
BootstrapUnlinks(p) ==
  /\ At(p, "unlink")
  /\ named' = NoRegion
  /\ Return(p, status[p], NoRegion)
  /\ UNCHANGED published

-----------------------------------------------------------------------------
(* offset_store_open_existing                                              *)

OpenNotFound(p) ==
  /\ Call(p) /\ mapped[p] = NoRegion
  /\ named = NoRegion
  /\ Give(p, "NOT_FOUND")
  /\ UNCHANGED <<named, room, created, pc, mine, shard, ghosts>>

Open(p) ==
  /\ Call(p) /\ mapped[p] = NoRegion
  /\ named # NoRegion
  /\ mine' = [mine EXCEPT ![p] = named]
  /\ Goto(p, "stat")
  /\ UNCHANGED <<named, room, created, shard, status, ghosts>>

\* A check that p makes at label `from': it goes on, or closes and fails.
Check(p, from, ok, code, next) ==
  /\ At(p, from)
  /\ IF ok
     THEN /\ Goto(p, next)
          /\ UNCHANGED <<memory, room, created, mine, shard, mapped, status,
                         calls, crashed, unlinked>>
     ELSE Return(p, code, NoRegion)
  /\ UNCHANGED <<named, published>>

Stat(p) == Check(p, "stat", Mine(p).sized, "SYSTEM_ERROR", "header")
\* fstat or mmap fails.
StatFails(p) == Check(p, "stat", FALSE, "SYSTEM_ERROR", "header")

\* shm_region_validate_header
HeaderValid(p) == Mine(p).state_flags = "READY" /\ Mine(p).checksum
CheckHeader(p) ==
  Check(p, "header", HeaderValid(p), "INVALID_STATE", "allocator_header")
CheckAllocator(p) ==
  Check(p, "allocator_header", Mine(p).allocator, "INVALID_STATE", "heap")

\* A pass of allocator_validate over the shards: what it asks of each.
Scan(p, from, ok) ==
  /\ At(p, from) /\ shard[p] < ShardCount
  /\ IF ok
     THEN /\ shard' = [shard EXCEPT ![p] = @ + 1]
          /\ UNCHANGED <<memory, room, created, pc, mine, mapped, status,
                         calls, crashed, unlinked>>
     ELSE Return(p, "INVALID_STATE", NoRegion)
  /\ UNCHANGED <<named, published>>

\* The block at the start of a shard has a size.
HeapGood(st) == st >= SizeStored
\* A null head is an empty list; a shard number that is not stored reads as 0.
ListGood(st, s) ==
  \/ st = NoStore
  \/ st >= FlagStored /\ (s = 0 \/ st >= ShardStored)

MyStage(p) == stage[mine[p]][shard[p]]
CheckHeap(p) == Scan(p, "heap", HeapGood(MyStage(p)))
CheckLists(p) == Scan(p, "lists", ListGood(MyStage(p), shard[p]))

\* Mutant: the second pass starts where the first one ended.
HeapDoneNoReset(p) ==
  /\ At(p, "heap") /\ shard[p] = ShardCount
  /\ Goto(p, "lists")
  /\ UNCHANGED <<named, memory, room, created, mine, shard, mapped, status,
                 calls, crashed, ghosts>>
HeapDone(p) ==
  /\ At(p, "heap") /\ shard[p] = ShardCount
  /\ room[mine[p]] # "tail"
  /\ Goto(p, "lists")
  /\ shard' = [shard EXCEPT ![p] = 0]
  /\ UNCHANGED <<named, memory, room, created, mine, mapped, status, calls,
                 crashed, ghosts>>

\* The pass goes on to the end of the heap.  In a tail it meets no block: what
\* it reads there is zeros, or does not hold a header.
CheckTail(p) ==
  /\ At(p, "heap") /\ shard[p] = ShardCount
  /\ room[mine[p]] = "tail"
  /\ Return(p, "INVALID_STATE", NoRegion)
  /\ UNCHANGED <<named, published>>

OpenDone(p) ==
  /\ At(p, "lists") /\ shard[p] = ShardCount
  /\ Return(p, "OK", mine[p])
  /\ UNCHANGED <<named, published>>

-----------------------------------------------------------------------------
\* allocator_alloc takes the first block of shard s: it clears its flags and
\* stores its payload_offset.
Allocate(p, s) ==
  /\ At(p, "idle") /\ calls[p] < MaxCalls
  /\ calls' = [calls EXCEPT ![p] = @ + 1]
  /\ mapped[p] # NoRegion
  /\ s \notin used[mapped[p]]
  /\ used' = [used EXCEPT ![mapped[p]] = @ \cup {s}]
  /\ Give(p, "OK")
  /\ UNCHANGED <<named, region, stage, room, created, pc, mine, shard, mapped,
                 crashed, ghosts>>

\* offset_store_close
Close(p) ==
  /\ At(p, "idle") /\ calls[p] < MaxCalls
  /\ calls' = [calls EXCEPT ![p] = @ + 1]
  /\ mapped' = [mapped EXCEPT ![p] = NoRegion]
  /\ Give(p, "OK")
  /\ UNCHANGED <<named, memory, room, created, pc, mine, shard, crashed,
                 ghosts>>

Creating == {"truncate", "map", "mutexes", "ready", "checksum", "allocator",
             "shard_mutexes", "blocks", "unlink"}
Quiet == \A q \in Procs \ crashed : pc[q] \notin Creating

\* shm_region_unlink
Unlink(p) ==
  /\ Call(p)
  /\ CarefulUnlinks => Quiet
  /\ named' = NoRegion
  /\ Give(p, IF named = NoRegion THEN "NOT_FOUND" ELSE "OK")
  /\ unlinked' = unlinked \cup ({named} \ {NoRegion})
  /\ UNCHANGED <<room, created, pc, mine, shard, published>>

\* A process dies inside a call; the region keeps what it has stored.
Crash(p) ==
  /\ p \notin crashed /\ pc[p] # "idle"
  /\ Cardinality(crashed) < MaxCrashes
  /\ crashed' = crashed \cup {p}
  /\ UNCHANGED <<named, memory, room, created, pc, mine, shard, mapped,
                 status, calls, ghosts>>

Create(p) ==
  \/ Truncate(p) \/ InitHeader(p) \/ InitMutexes(p)
  \/ StoreReady(p) \/ StoreChecksum(p)
  \/ InitAllocator(p) \/ InitShardMutexes(p) \/ StoreBlock(p)
  \/ BootstrapDone(p) \/ BootstrapFails(p) \/ BootstrapUnlinks(p)

Attach(p) ==
  \/ Stat(p) \/ StatFails(p) \/ CheckHeader(p) \/ CheckAllocator(p)
  \/ CheckHeap(p) \/ HeapDone(p) \/ CheckTail(p) \/ CheckLists(p) \/ OpenDone(p)

Next == \E p \in Procs :
  \/ BootstrapExists(p)
  \/ \E r \in Regions, form \in Rooms : Bootstrap(p, r, form)
  \/ Create(p)
  \/ OpenNotFound(p) \/ Open(p) \/ Attach(p)
  \/ \E s \in Shards : Allocate(p, s)
  \/ Close(p) \/ Unlink(p) \/ SystemFails(p) \/ Crash(p)

Spec == Init /\ [][Next]_vars

-----------------------------------------------------------------------------
Opening == {"stat", "header", "allocator_header", "heap", "lists"}
Headers == [sized : BOOLEAN, state_flags : {"none", "INITIALIZING", "READY"},
            checksum : BOOLEAN, allocator : BOOLEAN]
Codes == {"OK", "ALREADY_EXISTS", "SYSTEM_ERROR", "OUT_OF_MEMORY",
          "NOT_FOUND", "INVALID_STATE"}

(* Every variable has its type; a call under way works on a region, and    *)
(* allocator_init makes its six stores to a shard, no more.                *)
TypeOK ==
  /\ named \in Regions \cup {NoRegion}
  /\ region \in [Regions -> Headers]
  /\ stage \in [Regions -> [Shards -> NoStore .. PayloadStored]]
  /\ room \in [Regions -> Rooms] /\ created \subseteq Regions
  /\ used \in [Regions -> SUBSET Shards]
  /\ pc \in [Procs -> {"idle"} \cup Creating \cup Opening]
  /\ mine \in [Procs -> Regions \cup {NoRegion}]
  /\ \A p \in Procs : pc[p] # "idle" => mine[p] \in Regions
  /\ shard \in [Procs -> 0 .. ShardCount]
  /\ mapped \in [Procs -> Regions \cup {NoRegion}]
  /\ status \in [Procs -> Codes]
  /\ calls \in [Procs -> Nat]
  /\ crashed \subseteq Procs
  /\ published \subseteq Regions /\ unlinked \subseteq Regions

Complete == [sized |-> TRUE, state_flags |-> "READY", checksum |-> TRUE,
             allocator |-> TRUE]
\* Of all the stores of a bootstrap only payload_offset = 0 of the last shard's
\* block may be missing.
AllButOneStored(r) ==
  /\ region[r] = Complete
  /\ \A s \in Shards : stage[r][s] >= ShardStored
  /\ \A s \in Shards : s # ShardCount - 1 => stage[r][s] = PayloadStored

(* A store that a process has open lacks at most that one store, although  *)
(* openers take no lock, allocator_init announces itself before it has     *)
(* built the heap, and the creator may die at any point.                   *)
OpenedIsStored ==
  \A p \in Procs : mapped[p] # NoRegion => AllButOneStored(mapped[p])

(* What a process allocates in a store it has open stays allocated (nobody *)
(* frees here): attach rejects a store that is still being set up.  The    *)
(* last store of allocator_init comes after the last check of an opener,   *)
(* so that it may fall on a block the opener has taken.                    *)
AllocationsKept ==
  [][\A r \in Regions : used[r] \subseteq used'[r]]_vars

(* offset_store_open_existing does not take a store that bootstrap has     *)
(* finished, and that nobody changes, for a broken one: it returns         *)
(* INVALID_STATE only while the store is being set up, when its creator    *)
(* died or gave up, or when the heap has a tail outside of every shard.    *)
OpenAcceptsPublished ==
  [][\A p \in Procs :
       pc[p] \in Opening /\ status'[p] = "INVALID_STATE" /\ pc'[p] = "idle" =>
         mine[p] \notin published \/ room[mine[p]] = "tail"]_vars

(* A store whose bootstrap returned OK is found under its name until a     *)
(* client unlinks it: the clean-up of another process's failed bootstrap,  *)
(* which goes by name, does not remove it.                                 *)
PublishedKeepsName ==
  \A r \in published \ unlinked : named = r

(* A bootstrap that fails leaves no half-made region under the name.       *)
FailureLeavesNoName ==
  [][\A p \in Procs :
       pc[p] \in Creating /\ pc'[p] = "idle" /\ status'[p] # "OK" =>
         named' # mine[p]]_vars
============================================================================
