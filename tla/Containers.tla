----------------------------- MODULE Containers -----------------------------
(***************************************************************************)
(* A container, of any kind, from its creation to its destruction, used by *)
(* several processes that may die; and what must be true of it.            *)
(***************************************************************************)
EXTENDS HashTable, DynArray, DynList

Requests ==
  CASE kind = "table" -> TableRequests
    [] kind = "array" -> ArrayRequests
    [] kind = "list" -> ListRequests
    [] kind = "ring" -> [op : {"use"}, arg : {0}, value : {Null}]

Table(p) == \/ hashtable_put(p) \/ hashtable_get(p) \/ hashtable_delete(p)
            \/ hashtable_length(p) \/ DestroyTable(p)
Array(p) == \/ dynarray_push(p) \/ ReserveEnough(p) \/ dynarray_grow(p)
            \/ dynarray_get(p) \/ dynarray_length(p)
List(p) == \/ dynlist_push(p) \/ dynlist_get(p) \/ dynlist_length(p)
           \/ DestroyList(p)

Step(p) == \/ Lock(p) \/ Unlock(p) \/ FreeInHand(p) \/ DropHeader(p)
           \/ Table(p) \/ Array(p) \/ List(p)
           \/ UseRing(p) \/ DestroyBuffer(p)

Next == \E p \in Procs :
  \/ Create(p) \/ CallDestroy(p)
  \/ \E r \in Requests : Call(p, r)
  \/ Step(p)
  \/ Crash(p) \/ DieInAllocator(p)

Spec == Init /\ [][Next]_vars

\* A process that is not blocked goes on.  Nothing is asked of a process that
\* may be waiting for the mutex of a dead process's shard.
FairSpec == Spec /\ \A p \in Procs : WF_vars(damaged = {} /\ Step(p))

-----------------------------------------------------------------------------
Labels == {"idle", "lock", "locked", "unlock", "free_all", "create_data",
  "created", "drop_header", "replace", "replace_store", "value", "entry",
  "link", "grow_free", "grow_data", "grow_capacity", "copy", "count",
  "first_head", "first_tail", "back_link", "back_prev", "back_tail",
  "front_prev", "front_head", "list_count"}

Offsets == Cells \cup {Null}

(* Offsets are cells or null, and locals have their types.                 *)
TypeOK ==
  /\ allocated \subseteq Cells /\ damaged \subseteq Cells
  /\ \A p \in Procs : ToSet(given[p]) \subseteq Cells
  /\ hdr \in Offsets /\ ptr \in [DOMAIN NoPtr -> Offsets]
  /\ \A i \in 1 .. 2 : word[i] \in Nat
  /\ \A c \in Cells : \A f \in {"key", "val", "next", "prev"} :
       mem[c][f] \in Offsets
  /\ lock \in Procs \cup {NoProc}
  /\ pc \in [Procs -> Labels]
  /\ crashed \subseteq Procs

\* Nobody alive is in a critical section, and the container is in use.
AtRest == phase = "live" /\ lock \in crashed \cup {NoProc}

\* Some process died at one of these labels.
DiedAt(labels) == \E p \in crashed : pc[p] \in labels

\* Between the free of a value or a buffer and the store of its successor the
\* container leads to free memory.
Torn == spoiled \/ DiedAt({"replace", "replace_store", "grow_data"})

\* Between the link of a list node and the count of it.
Miscounted == DiedAt({"first_tail", "back_prev", "back_tail", "list_count"})

\* Every cell the container leads to, in some order.
Parts ==
  CASE kind = "table" -> <<ptr.data>> \o Entries
         \o [i \in 1 .. Len(Entries) |-> mem[Entries[i]].key]
         \o [i \in 1 .. Len(Entries) |-> mem[Entries[i]].val]
    [] kind = "list" -> Nodes
    [] OTHER -> IF ptr.data = Null THEN <<>> ELSE <<ptr.data>>

(* The container leads to allocated cells only, no two of its offsets to   *)
(* the same one, its chains end, and its buffer is as large as its         *)
(* capacity says, whenever nobody alive is changing it: whatever calls     *)
(* failed half-way for want of memory and wherever processes died, except  *)
(* in the gap between the free of an old value or buffer and the store of  *)
(* the new offset.                                                         *)
NothingDangles == (AtRest /\ ~Torn) =>
  /\ {hdr} \cup ToSet(Parts) \subseteq allocated
  /\ Cardinality(ToSet(Parts)) = Len(Parts) /\ hdr \notin ToSet(Parts)
  /\ kind = "array" => Length <= Capacity /\ Capacity <= Len(Elements)
  /\ kind = "list" => ptr.tail \in ToSet(Nodes) \cup {Null}

\* What the dead had in hand.
Hands == UNION {ToSet(given[p]) : p \in crashed}

(* No memory is lost: whenever nobody alive is changing the container, an  *)
(* allocated cell is part of it, or was in the hands of a process that     *)
(* died in a call, or lies in the shard of a process that died in the      *)
(* allocator; so every failed call gave back what it had taken.  And when  *)
(* the container has been destroyed, or could not be created, nothing of   *)
(* it is left, but what DestroyFreesAll is about: the header, and the      *)
(* nodes of a list.                                                        *)
NothingLeaks ==
  /\ AtRest => allocated \subseteq {hdr} \cup ToSet(Parts) \cup Hands \cup damaged
  /\ phase = "gone" /\ crashed = {} =>
       allocated \subseteq {hdr} \cup IF kind = "list" THEN ToSet(Nodes) ELSE {}

\* What a client would find in the container, key by key or in order.
Stored ==
  CASE kind = "table" -> [k \in Keys |->
         IF Found(k) THEN mem[mem[Entry(k)].val].data[1] ELSE Null]
    [] kind = "array" -> SubSeq(Elements, 1, Length)
    [] kind = "list" -> [i \in 1 .. Len(Nodes) |-> mem[Nodes[i]].data[1]]
    [] OTHER -> content

Size == IF kind = "table" THEN Cardinality({k \in Keys : content[k] # Null})
        ELSE Len(content)

Lookup(i) ==
  IF kind = "table"
  THEN IF content[i] = Null THEN Failed ELSE Append(Done, content[i])
  ELSE IF i >= Len(content) THEN Failed ELSE Append(Done, content[i + 1])

(* The container holds exactly what completed calls have put there, each   *)
(* key once, elements in order, and get and length say so; a call that     *)
(* failed, or whose process died, has happened completely or not at all.   *)
(* A list after a death between link and count still has all elements.     *)
ContentsRight ==
  /\ (AtRest /\ ~Torn) =>
       IF Miscounted THEN ToSet(content) \subseteq ToSet(Stored)
       ELSE /\ Stored = content
            /\ kind = "list" => word[1] = Len(content)
            /\ kind = "table" => Len(Entries) = Size
  /\ \A p \in Procs : (At(p, "unlock") /\ ~Torn /\ ~Miscounted) =>
       /\ req[p].op = "get" => answer[p] = Lookup(req[p].arg)
       /\ req[p].op = "length" => answer[p] = Append(Done, Size)

(* Every call returns, unless its own process dies or some process dies    *)
(* inside the allocator: no early return keeps the mutex, and a death in   *)
(* the critical section of the container does not stop the others of a     *)
(* robust build.                                                           *)
EveryCallReturns ==
  \A p \in Procs :
    pc[p] = "lock" ~> (pc[p] = "idle" \/ p \in crashed \/ damaged # {})

(* Destroying a container that has elements gives its memory back: "Destroy*)
(* a linked list and free all its nodes", "and finally frees the list      *)
(* header" (dynlist.c).                                                    *)
DestroyFreesAll ==
  (phase = "gone" /\ crashed = {} /\ content # <<>>) =>
    allocated = {}
============================================================================
