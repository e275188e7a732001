-------------------------- MODULE AllocatorInspect --------------------------
(***************************************************************************)
(* The readers of src/core/allocator.c that walk the heap without a lock:  *)
(* allocator_get_stats, allocator_get_allocation_span (which every object  *)
(* accessor goes through) and allocator_validate.  One reader runs beside  *)
(* the threads of Allocator; readers do not notice each other.             *)
(*                                                                         *)
(* One step reads one block header.  A walk reads the fields of a header   *)
(* one by one, but only the size steers it, and a size changes at most     *)
(* once while the walk stands on the block.                                *)
(***************************************************************************)
EXTENDS Allocator

VARIABLES
  task,         \* "none", or what the reader is doing
  phase,        \* "heap", then "lists" for a validation
  target,       \* block whose payload pointer allocator_get_allocation_span got
  walk,         \* offset of the block to read next: heap_offset + traversed
  block_count, shard, free_cursor,  \* locals of allocator_validate
  used_bytes,   \* out_stats->used_bytes
  report,       \* status of the last walk, and its value
  held,         \* ghost: blocks that clients have held since the walk began
  calm          \* ghost: no call has been under way since the walk began

reader == <<task, phase, target, walk, block_count, shard, free_cursor,
            used_bytes, report>>
inspectVars == <<vars, reader, held, calm>>

Tasks == {"stats", "span", "validate"}
HeapEnd == HeapOffset + HeapSize

InspectInit ==
  /\ Init
  /\ task = "none" /\ phase = "heap"
  /\ target = Null /\ walk = HeapOffset
  /\ block_count = 0 /\ shard = 0 /\ free_cursor = Null
  /\ used_bytes = 0
  /\ report = [task |-> "none", status |-> "OK", value |-> 0]
  /\ held = {} /\ calm = TRUE

-----------------------------------------------------------------------------
\* A span query gets a pointer some client was once given.
Begin(op, b) ==
  /\ task = "none"
  /\ op = "span" => issued[b] # 0
  /\ task' = op /\ target' = b
  /\ held' = DOMAIN live
  /\ calm' = \A t \in Threads : pc[t] = "idle"
  /\ UNCHANGED <<vars, phase, walk, block_count, shard, free_cursor,
                 used_bytes, report>>

\* The call returns and its locals are gone.
Report(code, value) ==
  /\ report' = [task |-> task, status |-> code, value |-> value]
  /\ task' = "none" /\ phase' = "heap"
  /\ target' = Null /\ walk' = HeapOffset
  /\ block_count' = 0 /\ shard' = 0 /\ free_cursor' = Null
  /\ used_bytes' = 0
  /\ held' = {} /\ calm' = TRUE
  /\ UNCHANGED vars

\* allocator_block_from_offset: the header lies inside the region.
Resolves(b) == b + BlockHeaderSize <= HeapEnd
\* Nobody has stored to the heap outside of blocks.
Fetch(b) == IF b \in DOMAIN block THEN block[b] ELSE Header(0, Null, 0, 0, 0)

Walking(op) == task = op /\ phase = "heap" /\ walk < HeapEnd
Past(op) == task = op /\ phase = "heap" /\ walk >= HeapEnd
Here == Fetch(walk)
\* Mutant: the payload is taken to follow the prefix without padding.
IsUnpaddedTarget ==
  /\ Here.flags = 0
  /\ walk + BlockHeaderSize + PrefixSize = target + issued[target]
IsTarget == Here.flags = 0 /\ walk + Here.payload_offset = target + issued[target]

\* Mutant: a block that ends with the heap is rejected.
MalformedAtEnd == task # "span" /\ Here.size >= HeapEnd - walk
\* A block that cannot be one ends a walk; a span query trusts what it reads.
Malformed ==
  \/ ~Resolves(walk)
  \/ task = "stats" /\ Here.size = 0
  \/ task = "validate" /\ \/ Here.size < BlockHeaderSize
                           \/ Here.flags \notin {0, BLOCK_FREE}
                           \/ Here.shard >= ShardCount
  \/ task # "span" /\ Here.size > HeapEnd - walk

\* Mutant: the size is taken to be that of the payload.
AdvanceBySpan(count, bytes) ==
  /\ walk' = walk + Here.size - Here.payload_offset
  /\ block_count' = block_count + count
  /\ used_bytes' = used_bytes + bytes
  /\ UNCHANGED <<vars, task, phase, target, shard, free_cursor, report, held,
                 calm>>

\* traversed += block->size
Advance(count, bytes) ==
  /\ walk' = walk + Here.size
  /\ block_count' = block_count + count
  /\ used_bytes' = used_bytes + bytes
  /\ UNCHANGED <<vars, task, phase, target, shard, free_cursor, report, held,
                 calm>>

\* Mutant: only payloads are counted.
PayloadUse == IF Here.flags = BLOCK_FREE THEN 0 ELSE Here.size - Here.payload_offset
Use == IF Here.flags = BLOCK_FREE THEN 0 ELSE Here.size

StatsBlock ==
  /\ Walking("stats")
  /\ IF Malformed THEN Report("INVALID_STATE", 0) ELSE Advance(0, Use)

StatsDone == Past("stats") /\ Report("OK", used_bytes)

SpanBlock ==
  /\ Walking("span")
  /\ IF Malformed THEN Report("INVALID_STATE", 0)
     ELSE IF IsTarget THEN Report("OK", Here.size - Here.payload_offset)
     ELSE Advance(0, 0)

SpanDone == Past("span") /\ Report("NOT_FOUND", 0)

ValidateBlock ==
  /\ Walking("validate")
  /\ IF Malformed THEN Report("INVALID_STATE", 0) ELSE Advance(1, 0)

\* The heap is in order: on to the free lists, shard by shard.
ValidateLists ==
  /\ Past("validate")
  /\ phase' = "lists"
  /\ shard' = 0
  /\ free_cursor' = heads[0]
  /\ UNCHANGED <<vars, task, target, walk, block_count, used_bytes, report,
                 held, calm>>

Listing == task = "validate" /\ phase = "lists"
\* Mutants: the count of blocks runs out one block early, or never.
ListOneShort == block_count <= 1
ListUncounted ==
  \/ free_cursor < ShardStart(shard) \/ free_cursor >= ShardEnd(shard)
  \/ ~Resolves(free_cursor)
  \/ Fetch(free_cursor).flags # BLOCK_FREE
  \/ Fetch(free_cursor).shard # shard
ListBroken ==
  \/ block_count = 0
  \/ free_cursor < ShardStart(shard) \/ free_cursor >= ShardEnd(shard)
  \/ ~Resolves(free_cursor)
  \/ Fetch(free_cursor).flags # BLOCK_FREE
  \/ Fetch(free_cursor).shard # shard

ListBlock ==
  /\ Listing /\ free_cursor # Null
  /\ IF ListBroken THEN Report("INVALID_STATE", 0)
     ELSE /\ free_cursor' = Fetch(free_cursor).next_free
          /\ block_count' = block_count - 1
          /\ UNCHANGED <<vars, task, phase, target, walk, shard, used_bytes,
                         report, held, calm>>

ListDone ==
  /\ Listing /\ free_cursor = Null
  /\ IF shard + 1 = ShardCount THEN Report("OK", 0)
     ELSE /\ shard' = shard + 1
          /\ free_cursor' = heads[shard + 1]
          /\ UNCHANGED <<vars, task, phase, target, walk, block_count,
                         used_bytes, report, held, calm>>

-----------------------------------------------------------------------------
Inspect ==
  \/ \E op \in {"stats", "validate"} : Begin(op, Null)
  \/ \E b \in DOMAIN block : Begin("span", b)
  \/ StatsBlock \/ StatsDone
  \/ SpanBlock \/ SpanDone
  \/ ValidateBlock \/ ValidateLists
  \/ ListBlock \/ ListDone

\* The threads go on; a block given back is no longer held.
Mutate ==
  /\ Next
  /\ held' = held \cap DOMAIN live'
  /\ calm' = (task = "none")
  /\ UNCHANGED reader

InspectNext == Mutate \/ Inspect

InspectSpec == InspectInit /\ [][InspectNext]_inspectVars

-----------------------------------------------------------------------------
Reports == [task : Tasks \cup {"none"},
            status : {"OK", "INVALID_STATE", "NOT_FOUND"}, value : Int]

(* The reader's locals have their types: the walk stays inside the heap,   *)
(* so `heap_size - traversed' never underflows, and neither does the count *)
(* of blocks when lists grow while allocator_validate follows them.        *)
InspectTypeOK ==
  /\ task \in Tasks \cup {"none"} /\ phase \in {"heap", "lists"}
  /\ target \in Nat
  /\ walk \in HeapOffset .. HeapEnd
  /\ block_count \in Nat
  /\ shard \in Shards
  /\ free_cursor \in Nat
  /\ used_bytes \in Nat
  /\ report \in Reports
  /\ held \subseteq DOMAIN live
  /\ calm \in BOOLEAN

(* An unlocked walk over the heap stands at the start of a block, or at    *)
(* the end of the last shard, however many splits happen around it: it     *)
(* never reads a payload as if it were a header.                           *)
WalkOnBoundary ==
  task # "none" /\ phase = "heap" =>
    walk \in DOMAIN block \cup {ShardEnd(ShardCount - 1)}

(* allocator_get_allocation_span finds an allocation that its client kept  *)
(* throughout the call, with the span it has, whatever other threads do to *)
(* the heap: no object accessor turns down a live handle.                  *)
HeldSpansFound ==
  [][task = "span" /\ task' = "none" /\ target \in held =>
       /\ report'.status = "OK"
       /\ report'.value = block[target].size - block[target].payload_offset]_inspectVars

\* The units of memory that the blocks in B span.
Extent(B) ==
  {x \in HeapOffset .. HeapEnd :
     \E b \in B : b <= x /\ x < b + block[b].size}

(* allocator_get_stats counts as used at least the memory of the blocks    *)
(* that clients kept throughout the walk.                                  *)
StatsCoverHeld == Past("stats") => used_bytes >= Cardinality(Extent(held))

(* Statistics and span queries never take the heap for corrupt, although   *)
(* they read it while others carve and free blocks.                        *)
ReadersSucceed ==
  report.task \in {"stats", "span"} => report.status # "INVALID_STATE"

(* allocator_validate accepts a heap that nobody changes while it runs: a  *)
(* store that was only used through the allocator can be opened again.     *)
CalmHeapIsValid ==
  [][task = "validate" /\ task' = "none" /\ calm =>
       report'.status = "OK"]_inspectVars
============================================================================
