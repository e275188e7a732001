------------------------------ MODULE DynArray ------------------------------
(***************************************************************************)
(* dynarray_push, _reserve, _get and _length of src/containers/dynarray.c. *)
(* The header's words are capacity and length.                             *)
(***************************************************************************)
EXTENDS Container

ArrayRequests ==
  [op : {"push"}, arg : {0}, value : Values] \cup
  [op : {"reserve"}, arg : Reserves, value : {Null}] \cup
  [op : {"get"}, arg : 0 .. 1, value : {Null}] \cup
  [op : {"length"}, arg : {0}, value : {Null}]

Capacity == word[1]
Length == word[2]
Elements == IF ptr.data = Null THEN <<>> ELSE mem[ptr.data].data

\* new_cap
Target(p) == IF req[p].op = "reserve" THEN req[p].arg
             ELSE IF Capacity = 0 THEN InitialCapacity ELSE 2 * Capacity

\* dynarray_reserve
ReserveEnough(p) ==
  Locked(p, "reserve") /\ req[p].arg <= Capacity /\ Finish(p, Done)

MustGrow(p) == \/ Locked(p, "push") /\ Length = Capacity
               \/ Locked(p, "reserve") /\ req[p].arg > Capacity

(* dynarray_grow: allocate and copy ...                                    *)
GrowAlloc(p) ==
  /\ MustGrow(p)
  /\ \/ /\ Take(p, Bytes([i \in 1 .. Target(p) |->
                            IF i <= Length THEN Elements[i] ELSE Null]))
        /\ Goto(p, "grow_free")
        /\ UNCHANGED <<answer, spoiled>>
     \/ Refused(p, "unlock")
  /\ UNCHANGED <<kind, top, lock, phase, req, calls, crashed, damaged,
                 content>>

\* ... free the old buffer ...
GrowFreeOld(p) ==
  /\ At(p, "grow_free")
  /\ Release(ptr.data)
  /\ Goto(p, "grow_data")
  /\ UNCHANGED <<kind, given, mem, top, lock, phase, req, answer, calls,
                 crashed, damaged, ghosts>>

\* ... store the new offset ...
GrowData(p) ==
  /\ At(p, "grow_data")
  /\ ptr' = [ptr EXCEPT !.data = Mine(p)]
  /\ Settle(p)
  /\ Goto(p, "grow_capacity")
  /\ UNCHANGED <<kind, mem, hdr, word, lock, phase, req, answer, calls,
                 crashed, damaged, ghosts>>

\* ... and the new capacity.
GrowCapacity(p) ==
  /\ At(p, "grow_capacity")
  /\ word' = [word EXCEPT ![1] = Target(p)]
  /\ IF req[p].op = "push"
     THEN Goto(p, "copy") /\ UNCHANGED answer
     ELSE Goto(p, "unlock") /\ Give(p, Done)
  /\ UNCHANGED <<kind, heap, hdr, ptr, lock, phase, req, calls, crashed,
                 damaged, ghosts>>

\* dynarray_push: copy the element into the slot behind the last one ...
PushCopy(p) ==
  /\ At(p, "copy") \/ (Locked(p, "push") /\ Length # Capacity)
  /\ mem' = [mem EXCEPT ![ptr.data].data[Length + 1] = req[p].value]
  /\ Goto(p, "count")
  /\ UNCHANGED <<kind, allocated, given, top, lock, phase, req, answer, calls,
                 crashed, damaged, ghosts>>

\* ... and count it.
PushCount(p) ==
  /\ At(p, "count")
  /\ word' = [word EXCEPT ![2] = @ + 1]
  /\ content' = Append(content, req[p].value)
  /\ Give(p, Done) /\ Goto(p, "unlock")
  /\ UNCHANGED <<kind, heap, hdr, ptr, lock, phase, req, calls, crashed,
                 damaged, spoiled>>

dynarray_get(p) ==
  LET i == req[p].arg IN
  /\ kind = "array" /\ Locked(p, "get")
  /\ Finish(p, IF i >= Length THEN Failed ELSE Append(Done, Elements[i + 1]))

dynarray_length(p) ==
  /\ kind = "array" /\ Locked(p, "length")
  /\ Finish(p, Append(Done, Length))

dynarray_grow(p) ==
  GrowAlloc(p) \/ GrowFreeOld(p) \/ GrowData(p) \/ GrowCapacity(p)
dynarray_push(p) == PushCopy(p) \/ PushCount(p)
============================================================================
