----------------------------- MODULE Container -----------------------------
(***************************************************************************)
(* What the containers of src/containers have in common: a header object   *)
(* made by object_store_alloc, cells taken from the allocator, a process-  *)
(* shared mutex around every operation, create and destroy.  HashTable,    *)
(* DynArray and DynList add the operations, Containers puts all together.  *)
(*                                                                         *)
(* A critical section is modelled store by store, because a process may    *)
(* die between two stores and the next owner of a robust mutex goes on     *)
(* with what it finds.  Every allocation may fail, since other clients use *)
(* the allocator too.  A process may also die inside the allocator, with   *)
(* the mutex of a shard: from then on nothing is taken from or given back  *)
(* to that shard, and calls of the allocator may wait for ever.  Cells are *)
(* interchangeable, so the least one that can be had is taken.             *)
(*                                                                         *)
(* A container handle is the handle of its object, and the container's     *)
(* header lies over the ObjectHeader: its first word is read by the object *)
(* store as size (and type), its second word as flags (and reserved).      *)
(***************************************************************************)
EXTENDS AbstractHeap, SequencesExt, FiniteSetsExt

CONSTANTS
  NoProc,
  Kinds,        \* containers to explore
  Values,       \* elements
  Keys,         \* keys of the table: the values of their hash
  NumBuckets, KeySize,
  InitialCapacity,   \* capacity of an array after its first push
  ListElemSize, RingCapacity,
  HeaderSpan,   \* payload bytes of a header object
  Reserves,     \* capacities that clients reserve
  Shards,       \* the cells of each shard of the allocator
  Robust,       \* the build sets PTHREAD_MUTEX_ROBUST on the mutex
  MaxCalls,     \* bound: calls of all processes together
  MaxCrashes    \* bound: processes that die

ASSUME KindsAssumption == Kinds \subseteq {"table", "array", "list", "ring"}
ASSUME ProcsAssumption == NoProc \notin Procs
ASSUME CellNumbersAssumption == Cells \subseteq Nat
ASSUME SizesAssumption ==
  /\ Keys \subseteq Nat /\ Null \notin Values
  /\ {NumBuckets, KeySize, InitialCapacity, ListElemSize} \subseteq Nat \ {0}
  /\ RingCapacity \in Nat /\ RingCapacity >= 2
  /\ HeaderSpan \in Nat /\ Reserves \subseteq Nat
ASSUME ShardsAssumption == Shards \subseteq SUBSET Cells /\ {} \notin Shards
ASSUME BoundsAssumption ==
  Robust \in BOOLEAN /\ MaxCalls \in Nat /\ MaxCrashes \in Nat

VARIABLES
  kind,
  hdr,          \* cell of the header object
  word,         \* the header's first two words
  ptr,          \* the header's offsets: data or buckets, head, tail
  mem,          \* contents of the cells
  lock,         \* owner of the header's mutex
  phase,        \* of the container's life
  pc, req, answer, calls, crashed,
  damaged,      \* the cells of a shard whose mutex a dead process keeps
  \* Ghosts:
  content,      \* what the container holds, as its clients see it
  spoiled       \* a put has freed a value and found no memory for the next

heap == <<allocated, given, mem>>
top == <<hdr, word, ptr>>
control == <<pc, req, answer, calls, crashed, damaged>>
ghosts == <<content, spoiled>>
vars == <<kind, heap, top, lock, phase, control, ghosts>>

\* The fields of every use of a cell: HashTableEntry (key, val, next),
\* DynListNodeHeader (next, prev), and the bytes of strings, values, elements
\* and bucket arrays.
Blank == [key |-> Null, val |-> Null, next |-> Null, prev |-> Null,
          data |-> <<>>]
Bytes(s) == [Blank EXCEPT !.data = s]
NoPtr == [data |-> Null, head |-> Null, tail |-> Null]
NoRequest == [op |-> "none", arg |-> 0, value |-> Null]
NoAnswer == <<"none">>
Failed == <<"failed">>
Done == <<"done">>

Init ==
  /\ kind \in Kinds
  /\ HeapInit
  /\ mem = [c \in Cells |-> Blank]
  /\ hdr = Null /\ word = <<0, 0>> /\ ptr = NoPtr
  /\ lock = NoProc
  /\ phase = "none"
  /\ pc = [p \in Procs |-> "idle"]
  /\ req = [p \in Procs |-> NoRequest]
  /\ answer = [p \in Procs |-> NoAnswer]
  /\ calls = 0
  /\ crashed = {} /\ damaged = {}
  /\ content = IF kind = "table" THEN [k \in Keys |-> Null] ELSE <<>>
  /\ spoiled = FALSE

-----------------------------------------------------------------------------
At(p, label) == p \notin crashed /\ pc[p] = label
Goto(p, label) == pc' = [pc EXCEPT ![p] = label]
Give(p, a) == answer' = [answer EXCEPT ![p] = a]
Locked(p, op) == At(p, "locked") /\ req[p].op = op
Mine(p) == Last(given[p])

Available == Cells \ (allocated \cup damaged)
FirstFree == Min(Available)

\* allocator_alloc succeeds and the cell is filled in ...
Take(p, filled) ==
  /\ Available # {}
  /\ Allocate(p, FirstFree)
  /\ mem' = [mem EXCEPT ![FirstFree] = filled]

\* ... or it does not.
Refused(p, label) ==
  /\ Goto(p, label) /\ Give(p, Failed)
  /\ UNCHANGED <<heap, spoiled>>

\* allocator_free, whose status nobody looks at: it is SYSTEM_ERROR, and the
\* block not freed, if the owner of its shard's mutex is dead.
Release(c) == IF c \in damaged THEN UNCHANGED allocated ELSE Free(c)

\* The call has its answer and is about to unlock; nothing has changed.
Finish(p, a) ==
  /\ Give(p, a) /\ Goto(p, "unlock")
  /\ UNCHANGED <<kind, heap, top, lock, phase, req, calls, crashed, damaged,
                 ghosts>>

-----------------------------------------------------------------------------
(* Calls and the mutex                                                     *)

Call(p, r) ==
  /\ At(p, "idle") /\ phase = "live" /\ calls < MaxCalls
  /\ calls' = calls + 1
  /\ req' = [req EXCEPT ![p] = r]
  /\ Goto(p, "lock")
  /\ UNCHANGED <<kind, heap, top, lock, phase, answer, crashed, damaged,
                 ghosts>>

\* Mutant: EOWNERDEAD is not asked for.
LockNoRecovery(p) ==
  /\ At(p, "lock")
  /\ lock = NoProc
  /\ lock' = p
  /\ Goto(p, "locked")
  /\ UNCHANGED <<kind, heap, top, phase, req, answer, calls, crashed, damaged,
                 ghosts>>

\* EOWNERDEAD: the mutex is marked consistent and the call goes on.
Lock(p) ==
  /\ At(p, "lock")
  /\ lock = NoProc \/ (Robust /\ lock \in crashed)
  /\ lock' = p
  /\ Goto(p, "locked")
  /\ UNCHANGED <<kind, heap, top, phase, req, answer, calls, crashed, damaged,
                 ghosts>>

Return(p, label) ==
  /\ Goto(p, label)
  /\ req' = [req EXCEPT ![p] = NoRequest]
  /\ Give(p, NoAnswer)

\* The call's locals are gone.  Destroy still has the header to free.
Unlock(p) ==
  /\ At(p, "unlock")
  /\ lock' = NoProc
  /\ Settle(p)
  /\ Return(p, IF req[p].op = "destroy" THEN "drop_header" ELSE "idle")
  /\ UNCHANGED <<kind, mem, top, phase, calls, crashed, damaged, ghosts>>

\* The cells in hand are freed, the last one first.
FreeInHand(p) ==
  /\ At(p, "free_all")
  /\ IF given[p] = <<>>
     THEN Goto(p, "unlock") /\ UNCHANGED <<allocated, given>>
     ELSE /\ Release(Mine(p))
          /\ given' = [given EXCEPT ![p] = Front(@)]
          /\ UNCHANGED pc
  /\ UNCHANGED <<kind, mem, top, lock, phase, req, answer, calls, crashed,
                 damaged, ghosts>>

-----------------------------------------------------------------------------
(* hashtable_create, dynarray_create, dynlist_create, ringbuf_create       *)

FirstWords ==
  CASE kind = "table" -> <<NumBuckets, KeySize>>
    [] kind = "array" -> <<0, 0>>
    [] kind = "list" -> <<0, ListElemSize>>
    [] kind = "ring" -> <<RingCapacity, 0>>

FirstData == IF kind = "table" THEN [i \in 1 .. NumBuckets |-> Null]
             ELSE [i \in 1 .. RingCapacity |-> 0]

\* object_store_alloc, then the header's fields and the mutex.  If there is no
\* memory for the header, nothing happens.
CreateHeader(p) ==
  /\ At(p, "idle") /\ phase = "none"
  /\ Take(p, Blank)
  /\ hdr' = FirstFree /\ word' = FirstWords /\ ptr' = NoPtr
  /\ phase' = "creating"
  /\ Goto(p, IF kind \in {"table", "ring"} THEN "create_data" ELSE "created")
  /\ UNCHANGED <<kind, lock, req, answer, calls, crashed, damaged, ghosts>>

\* The bucket array of a table, the element buffer of a ring.
CreateData(p) ==
  /\ At(p, "create_data")
  /\ \/ /\ Take(p, Bytes(FirstData))
        /\ ptr' = [ptr EXCEPT !.data = FirstFree]
        /\ Goto(p, "created")
        /\ UNCHANGED <<answer, spoiled>>
     \/ Refused(p, "drop_header") /\ UNCHANGED ptr
  /\ UNCHANGED <<kind, hdr, word, lock, phase, req, calls, crashed, damaged,
                 content>>

\* The handle is returned, and passed on to other processes.
Created(p) ==
  /\ At(p, "created")
  /\ Settle(p) /\ UNCHANGED mem
  /\ phase' = "live"
  /\ Return(p, "idle")
  /\ UNCHANGED <<kind, top, lock, calls, crashed, damaged, ghosts>>

Create(p) == CreateHeader(p) \/ CreateData(p) \/ Created(p)

-----------------------------------------------------------------------------
(* Destroy.  Clients destroy a container that nobody is using.             *)

CallDestroy(p) ==
  /\ phase = "live"
  /\ \A q \in Procs \ crashed : pc[q] = "idle"
  /\ p \notin crashed
  /\ phase' = "closing"
  /\ req' = [req EXCEPT ![p] = [NoRequest EXCEPT !.op = "destroy"]]
  /\ Goto(p, "lock")
  /\ UNCHANGED <<kind, heap, top, lock, answer, calls, crashed, damaged,
                 ghosts>>

\* Destroy is going to free the cells in sequence own.
DestroyAll(p, own) ==
  /\ Locked(p, "destroy")
  /\ given' = [given EXCEPT ![p] = own]
  /\ Goto(p, "free_all")
  /\ UNCHANGED <<kind, allocated, mem, top, lock, phase, req, answer, calls,
                 crashed, damaged, ghosts>>

\* Mutant: a buffer that was never allocated is freed.
DestroyUnchecked(p) ==
  kind \in {"array", "ring"} /\ DestroyAll(p, <<ptr.data>>)

\* dynarray_destroy, ringbuf_destroy
DestroyBuffer(p) ==
  /\ kind \in {"array", "ring"}
  /\ DestroyAll(p, IF ptr.data = Null THEN <<>> ELSE <<ptr.data>>)

\* object_store_free finds the header's words in place of size and flags.
TakenForLive == word[2] % 2 = 0 /\ word[1] <= HeaderSpan

\* object_store_free(header), after a destroy or a failed create.  If it takes
\* the object for dead or for too large, it turns the call down.
DropHeader(p) ==
  /\ At(p, "drop_header")
  /\ IF TakenForLive THEN Release(hdr) ELSE UNCHANGED allocated
  /\ given' = [given EXCEPT ![p] = <<>>]
  /\ phase' = "gone"
  /\ Return(p, "idle")
  /\ UNCHANGED <<kind, mem, top, lock, calls, crashed, damaged, ghosts>>

-----------------------------------------------------------------------------
\* A call on a ring, which RingBuf models: here it leaves the head somewhere.
UseRing(p) ==
  /\ Locked(p, "use")
  /\ \E h \in 0 .. RingCapacity - 1 : word' = [word EXCEPT ![2] = h]
  /\ Give(p, Done) /\ Goto(p, "unlock")
  /\ UNCHANGED <<kind, heap, hdr, ptr, lock, phase, req, calls, crashed,
                 damaged, ghosts>>

\* A process dies in a call; the mutex keeps its owner.  A process that dies
\* while it waits for the mutex might as well not have called.
Crash(p) ==
  /\ p \notin crashed /\ pc[p] \notin {"idle", "lock"}
  /\ Cardinality(crashed) < MaxCrashes
  /\ crashed' = crashed \cup {p}
  /\ UNCHANGED <<kind, heap, top, lock, phase, pc, req, answer, calls, damaged,
                 ghosts>>

\* Where the next step calls the allocator, or the last one did; a process that
\* is idle may be calling it for something else.
AllocatorLabels == {"idle", "locked", "create_data", "created", "drop_header",
  "free_all", "replace", "replace_store", "value", "entry", "link",
  "grow_free", "grow_data", "first_head", "back_link", "front_prev"}

\* A process dies inside allocator_alloc or allocator_free and leaves a shard's
\* mutex locked (Allocator!Crash).  The cell it was to allocate or free is
\* taken or freed, or not: as after or before the step that makes the call.
DieInAllocator(p) ==
  /\ p \notin crashed /\ pc[p] \in AllocatorLabels
  /\ Cardinality(crashed) < MaxCrashes
  /\ crashed' = crashed \cup {p}
  /\ damaged' \in {damaged \cup s : s \in Shards}
  /\ UNCHANGED <<kind, heap, top, lock, phase, pc, req, answer, calls, ghosts>>

\* The cells from c on, along next.
Chain(c) ==
  LET from[n \in 0 .. Cardinality(Cells), x \in Cells \cup {Null}] ==
        IF n = 0 \/ x = Null THEN <<>>
        ELSE <<x>> \o from[n - 1, mem[x].next]
  IN  from[Cardinality(Cells), c]
============================================================================
