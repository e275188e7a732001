---------------------------- MODULE ObjectStore ----------------------------
(***************************************************************************)
(* The object store of src/store/object_store.c on top of an abstract      *)
(* allocator: object_store_alloc, object_store_free and the accessors.     *)
(*                                                                         *)
(* No lock protects an object header.  An accessor asks the allocator      *)
(* whether the handle denotes an allocation, and then reads the FREED mark *)
(* in the header; alloc and free change both, store by store, and a        *)
(* process may die between two stores.  A handle outlives its object: any  *)
(* process may pass a handle to an accessor long after somebody freed it,  *)
(* when its cell may belong to another object.  Only frees are careful, as *)
(* README.md, rule 8, asks: an object is freed once.                       *)
(***************************************************************************)
EXTENDS AbstractHeap, OffsetPtr, FiniteSets

CONSTANTS
  Base,         \* where each process has mapped the region
  RegionSize,
  HeaderSize,   \* sizeof(ObjectHeader)
  Types,        \* type tags of the clients
  MaxSize,      \* UINT32_MAX, the largest payload of an object
  MaxCalls,     \* bound: calls of all processes together
  MaxCrashes    \* bound: processes that die

\* Payload sizes, and one that is too large.
Sizes == 0 .. MaxSize + 1

ASSUME MappingAssumption ==
  /\ Word \in Nat
  /\ Base \in [Procs -> Nat]
  /\ \A p \in Procs : Mapped(Base[p], RegionSize)
\* A cell is known by the offset of its payload.
ASSUME OffsetsAssumption ==
  /\ Null = NullOffset /\ HeaderSize \in Nat /\ RegionSize \in Nat
  /\ Cells \subseteq 1 .. RegionSize - 1
  /\ \A c \in Cells : c + HeaderSize <= RegionSize
ASSUME TypesAssumption == 0 \notin Types
ASSUME MaxSizeAssumption == MaxSize \in Nat
ASSUME BoundsAssumption == MaxCalls \in Nat /\ MaxCrashes \in Nat

VARIABLES
  header,       \* the ObjectHeader at the start of each cell
  span,         \* payload bytes of each cell, as the allocator cut it
  pc, req,      \* where each call is, and what it was asked for
  raw,          \* the call's local header pointer, an address
  seen,         \* header->size as the call has read it
  answer,       \* what the call is going to return
  calls, crashed,
  \* What the clients know (ghosts):
  issued,       \* handles that were ever returned
  held,         \* objects whose free has not been called
  asked,        \* size and type of the last object made in each cell
  sure          \* whether the handle of a call was good all along, or bad

shared == <<allocated, given, header, span>>
ghosts == <<issued, held, asked>>
vars == <<shared, pc, req, raw, seen, answer, calls, crashed, ghosts, sure>>

Accessors == {"get_header", "get_payload", "validate"}
Requests ==
  [op : {"alloc"}, obj : {Null}, type : Types, size : Sizes] \cup
  [op : Accessors \cup {"free"}, obj : Cells, type : {0}, size : {0}]
NoRequest == [op |-> "none", obj |-> Null, type |-> 0, size |-> 0]

\* A region that bootstrap has just made: zeroes.
Init ==
  /\ HeapInit
  /\ header = [c \in Cells |-> [size |-> 0, type |-> 0, freed |-> FALSE]]
  /\ span = [c \in Cells |-> 0]
  /\ pc = [p \in Procs |-> "idle"]
  /\ req = [p \in Procs |-> NoRequest]
  /\ raw = [p \in Procs |-> 0]
  /\ seen = [p \in Procs |-> 0]
  /\ answer = [p \in Procs |-> "none"]
  /\ calls = 0
  /\ crashed = {}
  /\ issued = {} /\ held = {}
  /\ asked = [c \in Cells |-> [size |-> 0, type |-> 0]]
  /\ sure = [p \in Procs |-> "unsure"]

-----------------------------------------------------------------------------
At(p, label) == p \notin crashed /\ pc[p] = label
Goto(p, label) == pc' = [pc EXCEPT ![p] = label]
Deliver(p, a) == answer' = [answer EXCEPT ![p] = a] /\ Goto(p, "return")

CallAlloc(p, r) ==
  /\ r.op = "alloc"
  /\ Goto(p, "alloc")
  /\ sure' = [sure EXCEPT ![p] = "unsure"]
  /\ UNCHANGED held

\* Accessors take any handle that was ever returned.
CallAccessor(p, r) ==
  /\ r.op \in Accessors /\ r.obj \in issued
  /\ Goto(p, "span")
  /\ sure' = [sure EXCEPT ![p] = IF r.obj \in held THEN "held"
                                 ELSE IF header[r.obj].freed THEN "gone"
                                 ELSE "unsure"]
  /\ UNCHANGED held

\* The caller of a free is sure of its handle; nobody else is any longer.
CallFree(p, r) ==
  /\ r.op = "free" /\ r.obj \in held
  /\ Goto(p, "span")
  /\ held' = held \ {r.obj}
  /\ sure' = [q \in Procs |-> IF q = p THEN "held"
                              ELSE IF req[q].obj = r.obj /\ sure[q] = "held"
                                   THEN "unsure" ELSE sure[q]]

Call(p, r) ==
  /\ At(p, "idle") /\ calls < MaxCalls
  /\ CallAlloc(p, r) \/ CallAccessor(p, r) \/ CallFree(p, r)
  /\ calls' = calls + 1
  /\ req' = [req EXCEPT ![p] = r]
  /\ UNCHANGED <<shared, raw, seen, answer, crashed, issued, asked>>

Return(p) ==
  /\ At(p, "return")
  /\ Goto(p, "idle")
  /\ req' = [req EXCEPT ![p] = NoRequest]
  /\ raw' = [raw EXCEPT ![p] = 0]
  /\ seen' = [seen EXCEPT ![p] = 0]
  /\ answer' = [answer EXCEPT ![p] = "none"]
  /\ sure' = [sure EXCEPT ![p] = "unsure"]
  /\ UNCHANGED <<shared, calls, crashed, ghosts>>

-----------------------------------------------------------------------------
(* The allocator after a death.  A process that dies inside                *)
(* allocator_alloc or allocator_free, before or after the call has taken   *)
(* effect, leaves a shard mutex locked: later calls that come to this      *)
(* shard do not return, or return SYSTEM_ERROR and change nothing          *)
(* (LockOwnerDead of Allocator).                                           *)

InAllocator(p) ==
  \/ pc[p] \in {"alloc", "size", "release"}
  \/ pc[p] = "return" /\ req[p].op = "free"
AllocatorDamaged == \E p \in crashed : InAllocator(p)

-----------------------------------------------------------------------------
(* object_store_alloc                                                      *)

\* A payload the size field cannot hold, or an allocator that finds no block
\* or cannot take its lock.
AllocFail(p) ==
  /\ At(p, "alloc")
  /\ \/ req[p].size > MaxSize /\ Deliver(p, "INVALID_ARGUMENT")
     \/ req[p].size <= MaxSize /\ Deliver(p, "OUT_OF_MEMORY")
     \/ req[p].size <= MaxSize /\ AllocatorDamaged /\ Deliver(p, "SYSTEM_ERROR")
  /\ UNCHANGED <<shared, req, raw, seen, calls, crashed, ghosts, sure>>

\* Mutant: the size is cut down to the field without a check.
TakeAnySize(p) ==
  /\ At(p, "alloc")
  /\ \E c \in Cells :
       /\ Allocate(p, c)
       /\ span' = [span EXCEPT ![c] = req[p].size]
       /\ raw' = [raw EXCEPT ![p] = Base[p] + c]
  /\ Goto(p, "size")
  /\ UNCHANGED <<header, req, seen, answer, calls, crashed, ghosts, sure>>

\* allocator_alloc: any free cell, with room for at least the payload.
AllocTake(p) ==
  /\ At(p, "alloc") /\ req[p].size <= MaxSize
  /\ \E c \in Cells, s \in req[p].size .. MaxSize :
       /\ Allocate(p, c)
       /\ c + HeaderSize + s <= RegionSize
       /\ span' = [span EXCEPT ![c] = s]
       /\ raw' = [raw EXCEPT ![p] = Base[p] + c]
  /\ Goto(p, "size")
  /\ UNCHANGED <<header, req, seen, answer, calls, crashed, ghosts, sure>>

\* The cell that the local pointer leads to, and its header.
Cell(p) == raw[p] - Base[p]
Header(p) == header[Cell(p)]

\* One store to that header.
Store(p, from, new, to) ==
  /\ At(p, from)
  /\ header' = [header EXCEPT ![Cell(p)] = new]
  /\ Goto(p, to)
  /\ UNCHANGED <<allocated, given, span, req, raw, seen, answer, calls,
                 crashed, issued, held>>

StoreSize(p) ==
  /\ Store(p, "size", [Header(p) EXCEPT !.size = req[p].size], "type")
  /\ UNCHANGED <<asked, sure>>

\* Mutant: the mark is cleared before the header is complete.
TypeAndFlags(p) ==
  /\ Store(p, "type", [Header(p) EXCEPT !.freed = FALSE], "flags")
  /\ UNCHANGED <<asked, sure>>

StoreType(p) ==
  /\ Store(p, "type", [Header(p) EXCEPT !.type = req[p].type], "flags")
  /\ UNCHANGED <<asked, sure>>

\* header->flags = 0: from here on old handles of the cell are good again.
StoreFlags(p) ==
  /\ Store(p, "flags", [Header(p) EXCEPT !.freed = FALSE], "publish")
  /\ asked' = [asked EXCEPT ![Cell(p)] = [size |-> req[p].size,
                                          type |-> req[p].type]]
  /\ sure' = [q \in Procs |-> IF req[q].obj = Cell(p) THEN "unsure"
                              ELSE sure[q]]

\* *out_object = the offset of the header.
Publish(p) ==
  LET handle == offset_ptr_try_from_raw(Base[p], RegionSize, raw[p]) IN
  /\ At(p, "publish")
  /\ Settle(p)
  /\ IF handle # Null
     THEN /\ issued' = issued \cup {handle}
          /\ held' = held \cup {handle}
          /\ Deliver(p, "OK")
     ELSE Deliver(p, "INVALID_STATE") /\ UNCHANGED <<issued, held>>
  /\ UNCHANGED <<header, span, req, raw, seen, calls, crashed, asked, sure>>

Alloc(p) == \/ AllocFail(p) \/ AllocTake(p) \/ StoreSize(p)
            \/ StoreType(p) \/ StoreFlags(p) \/ Publish(p)

-----------------------------------------------------------------------------
(* object_store_resolve_header, twice: first for the header alone, then    *)
(* with header->size bytes of payload.                                     *)

\* What the caller of a failed resolution returns; seconds are the second
\* resolution of a call.
Rejection(p, second) ==
  CASE req[p].op \in {"get_header", "get_payload"} -> "NULL"
    [] req[p].op = "validate" /\ second -> "INVALID_STATE"
    [] OTHER -> "NOT_FOUND"

\* A check that the header's pointer passes, made at label from.
Check(p, from, good, to, second) ==
  /\ At(p, from)
  /\ \/ good /\ Goto(p, to) /\ UNCHANGED answer
     \/ ~good /\ Deliver(p, Rejection(p, second))
  /\ UNCHANGED <<shared, req, seen, calls, crashed, ghosts, sure>>

\* offset_ptr_try_resolve gives an address with room for the header and n
\* bytes, and allocator_get_allocation_span finds an allocation there that is
\* large enough.
FindSpan(p, from, n, to, second) ==
  LET address == offset_ptr_try_resolve(Base[p], RegionSize, req[p].obj,
                                        HeaderSize + n)
      cell == address - Base[p] IN
  /\ Check(p, from, address # 0 /\ cell \in allocated /\ n <= span[cell],
           to, second)
  /\ raw' = [raw EXCEPT ![p] = address]

FindHeader(p) == FindSpan(p, "span", 0, "flag", FALSE)

\* Mutant: the mark of the first resolution is not looked at.
SkipFlag(p) == Check(p, "flag", TRUE, "read_size", FALSE) /\ UNCHANGED raw
FindFlag(p) ==
  Check(p, "flag", ~Header(p).freed, "read_size", FALSE) /\ UNCHANGED raw

\* object_store_get_header returns after the first resolution; the others
\* read header->size, which may have changed hands meanwhile.
GetHeader(p) ==
  /\ At(p, "read_size") /\ req[p].op = "get_header"
  /\ Deliver(p, "OK")
  /\ UNCHANGED <<shared, req, raw, seen, calls, crashed, ghosts, sure>>

ReadSize(p) ==
  /\ At(p, "read_size") /\ req[p].op # "get_header"
  /\ seen' = [seen EXCEPT ![p] = Header(p).size]
  /\ Goto(p, "full_span")
  /\ UNCHANGED <<shared, req, raw, answer, calls, crashed, ghosts, sure>>

FindObject(p) == FindSpan(p, "full_span", seen[p], "full_flag", TRUE)

FindFullFlag(p) ==
  /\ Check(p, "full_flag", ~Header(p).freed,
           IF req[p].op = "free" THEN "reread" ELSE "resolved", TRUE)
  /\ UNCHANGED raw

\* object_store_get_payload and object_store_validate are done.
Resolved(p) ==
  /\ At(p, "resolved")
  /\ Deliver(p, "OK")
  /\ UNCHANGED <<shared, req, raw, seen, calls, crashed, ghosts, sure>>

Resolve(p) == \/ FindHeader(p) \/ FindFlag(p) \/ GetHeader(p) \/ ReadSize(p)
              \/ FindObject(p) \/ FindFullFlag(p) \/ Resolved(p)

-----------------------------------------------------------------------------
(* object_store_free, after the two resolutions.  The reserved word of the *)
(* header, which nothing reads, is left out.                               *)

\* payload_size = header->size
Reread(p) ==
  /\ At(p, "reread")
  /\ seen' = [seen EXCEPT ![p] = Header(p).size]
  /\ Goto(p, "mark")
  /\ UNCHANGED <<shared, req, raw, answer, calls, crashed, ghosts, sure>>

MarkFreed(p) ==
  /\ Store(p, "mark", [Header(p) EXCEPT !.freed = TRUE], "poison")
  /\ UNCHANGED <<asked, sure>>

\* The type is cleared; the size is stored back as it was read.
Poison(p) ==
  /\ Store(p, "poison", [Header(p) EXCEPT !.type = 0, !.size = seen[p]],
           "release")
  /\ UNCHANGED <<asked, sure>>

\* allocator_free
Release(p) ==
  /\ At(p, "release")
  /\ Free(Cell(p)) /\ UNCHANGED given
  /\ Deliver(p, "OK")
  /\ UNCHANGED <<header, span, req, raw, seen, calls, crashed, ghosts, sure>>

\* allocator_free cannot take its lock: the object is marked, and its cell
\* stays allocated.
ReleaseFails(p) ==
  /\ At(p, "release")
  /\ AllocatorDamaged
  /\ Deliver(p, "SYSTEM_ERROR")
  /\ UNCHANGED <<shared, req, raw, seen, calls, crashed, ghosts, sure>>

FreeObject(p) ==
  Reread(p) \/ MarkFreed(p) \/ Poison(p) \/ Release(p) \/ ReleaseFails(p)

-----------------------------------------------------------------------------
\* A process dies inside a call.  The objects clients hold stay held: their
\* handles are in roots, in the index or in other processes.
Crash(p) ==
  /\ p \notin crashed /\ pc[p] # "idle"
  /\ Cardinality(crashed) < MaxCrashes
  /\ crashed' = crashed \cup {p}
  /\ UNCHANGED <<shared, pc, req, raw, seen, answer, calls, ghosts, sure>>

Next == \E p \in Procs :
  \/ \E r \in Requests : Call(p, r)
  \/ Alloc(p) \/ Resolve(p) \/ FreeObject(p)
  \/ Return(p) \/ Crash(p)

Spec == Init /\ [][Next]_vars

-----------------------------------------------------------------------------
Labels == {"idle", "alloc", "size", "type", "flags", "publish", "span",
           "flag", "read_size", "full_span", "full_flag", "resolved",
           "reread", "mark", "poison", "release", "return"}
Statuses == {"none", "OK", "NULL", "NOT_FOUND", "INVALID_STATE",
             "INVALID_ARGUMENT", "OUT_OF_MEMORY", "SYSTEM_ERROR"}

(* Headers, locals and answers have their types, and no object is larger   *)
(* than its 32-bit size field can say.                                     *)
TypeOK ==
  /\ allocated \subseteq Cells
  /\ header \in [Cells -> [size : 0 .. MaxSize, type : Types \cup {0},
                           freed : BOOLEAN]]
  /\ span \in [Cells -> 0 .. MaxSize]
  /\ pc \in [Procs -> Labels]
  /\ req \in [Procs -> Requests \cup {NoRequest}]
  /\ raw \in [Procs -> Words]
  /\ seen \in [Procs -> 0 .. MaxSize]
  /\ answer \in [Procs -> Statuses]
  /\ calls \in Nat
  /\ crashed \subseteq Procs
  /\ issued \subseteq Cells /\ held \subseteq Cells
  /\ asked \in [Cells -> [size : 0 .. MaxSize, type : Types \cup {0}]]
  /\ sure \in [Procs -> {"held", "gone", "unsure"}]

(* A handle whose header carries no FREED mark denotes a whole object: its *)
(* cell is allocated, is large enough, and holds the size and type of the  *)
(* object last made there.  So the mark is set before the cell is given    *)
(* back, and cleared only when the new header is complete; in between, and *)
(* after a death in between, old handles find the mark.                    *)
UnmarkedIsWhole == \A c \in issued :
  ~header[c].freed =>
    /\ c \in allocated
    /\ header[c].size = asked[c].size /\ header[c].type = asked[c].type
    /\ header[c].size <= span[c]

(* An accessor, or the free of an object, never turns down a handle that   *)
(* was good from the call to the return, and never accepts one that was    *)
(* freed before the call and whose cell no new object has taken since,     *)
(* whatever other processes do to other objects or to this one.  The one   *)
(* exception is a free after a process died inside the allocator: it may   *)
(* return SYSTEM_ERROR.                                                    *)
HandlesTold == \A p \in Procs :
  pc[p] = "return" =>
    /\ sure[p] = "held" =>
         \/ answer[p] = "OK"
         \/ /\ req[p].op = "free" /\ answer[p] = "SYSTEM_ERROR"
            /\ AllocatorDamaged
    /\ sure[p] = "gone" => answer[p] # "OK"
============================================================================
