-------------------------- MODULE ContainerProofs --------------------------
(***************************************************************************)
(* Proofs about the containers that keep their elements in one buffer, the *)
(* dynamic array and the ring, for any number of processes, cells, calls   *)
(* and deaths.  (The list and the hash table follow chains of cells, which *)
(* takes induction over data: they are left to TLC.)                       *)
(***************************************************************************)
EXTENDS Containers, FiniteSetTheorems, SequenceTheorems, TLAPS

\* The container was created as an array or a ring.
OneBuffer == kind \in {"array", "ring"}

Alive == Procs \ crashed
Inside == {"locked", "unlock", "free_all", "grow_free", "grow_data",
           "grow_capacity", "copy", "count"}
BufferLabels == {"idle", "lock", "create_data", "created", "drop_header"}
                \cup Inside
BufferOps == IF kind = "array" THEN {"push", "reserve", "get", "length"}
             ELSE {"use"}
Data == Values \cup {Null, 0}
Plain == [key : {Null}, val : {Null}, next : {Null}, prev : {Null},
          data : Seq(Data)]
Buffer == IF ptr.data = Null THEN {} ELSE {ptr.data}

\* Locals have their types, and a call is where its request may take it.
Shape ==
  /\ kind \in {"array", "ring"}
  /\ allocated \subseteq Cells /\ damaged \subseteq Cells
  /\ given \in [Procs -> Seq(Cells)]
  /\ hdr \in Offsets /\ ptr \in [{"data", "head", "tail"} -> Offsets]
  /\ word \in [1 .. 2 -> Nat]
  /\ mem \in [Cells -> Plain]
  /\ lock \in Procs \cup {NoProc}
  /\ pc \in [Procs -> BufferLabels]
  /\ DOMAIN req = Procs /\ DOMAIN answer = Procs
  /\ crashed \subseteq Procs
  /\ content \in Seq(Values) /\ spoiled = FALSE

Asked ==
  \A p \in Procs :
    /\ pc[p] \in {"lock"} \cup Inside =>
         /\ req[p].op \in BufferOps \cup {"destroy"}
         /\ req[p].op \in {"reserve", "get"} => req[p].arg \in Nat
         /\ req[p].op = "push" => req[p].value \in Values
    /\ pc[p] \in {"grow_free", "grow_data", "grow_capacity"} =>
         req[p].op \in {"push", "reserve"}
    /\ pc[p] \in {"copy", "count"} => req[p].op = "push"
    /\ pc[p] = "free_all" => req[p].op = "destroy"

\* The mutex keeps the living apart.
Exclusive == \A p \in Alive : pc[p] \in Inside => lock = p

\* Where the living may be at each point of the container's life; before and
\* after its use, at most one of them is at work.
Lives ==
  /\ phase \in {"none", "creating", "live", "closing", "gone"}
  /\ \A p \in Alive : pc[p] # "idle" =>
       /\ phase \in {"creating", "live", "closing"}
       /\ phase = "creating" => pc[p] \in {"create_data", "created", "drop_header"}
       /\ phase = "live" => pc[p] \in {"lock"} \cup Inside /\ req[p].op # "destroy"
       /\ phase = "closing" => \/ pc[p] = "drop_header"
                               \/ /\ pc[p] \in {"lock", "locked", "free_all", "unlock"}
                                  /\ req[p].op = "destroy"
       /\ phase # "live" => \A q \in Alive \ {p} : pc[q] = "idle"

\* The cells of the container.
Memory ==
  /\ phase = "none" => allocated = {} /\ content = <<>>
  /\ phase \in {"creating", "live", "closing"} =>
       hdr \in allocated /\ ptr.data # hdr
  /\ phase = "creating" => allocated = {hdr} \cup Buffer
  /\ phase = "live" =>
       /\ allocated \subseteq {hdr} \cup Buffer
                              \cup damaged \cup UNION {ToSet(given[p]) : p \in Procs}
       /\ ~Torn /\ (\A p \in Alive : pc[p] # "grow_data") => Buffer \subseteq allocated

\* Without a death, nothing else is allocated, from the first call to the last.
Exact == crashed = {} =>
  /\ damaged = {}
  /\ phase = "closing" => \A p \in Procs :
       /\ pc[p] \in {"lock", "locked"} => allocated = {hdr} \cup Buffer
       /\ pc[p] = "free_all" => allocated = {hdr} \cup ToSet(given[p])
       /\ pc[p] \in {"unlock", "drop_header"} => allocated = {hdr}
  /\ phase = "gone" => allocated \subseteq {hdr}

\* The buffer holds the contents, and is as large as the capacity says.
Filled(data) ==
  /\ Length = Len(content) /\ Capacity <= Len(data)
  /\ \A i \in 1 .. Length : data[i] = content[i]
Holds == kind = "array" => Length <= Capacity /\ Filled(Elements)

\* What the living have in hand ...
InHand(p) ==
  /\ pc[p] \in {"idle", "lock", "locked", "unlock", "grow_capacity", "copy",
                "count"} => given[p] = <<>>
  /\ pc[p] = "create_data" => kind = "ring" /\ ptr.data = Null
  /\ pc[p] = "drop_header" /\ phase = "creating" => ptr.data = Null
  /\ pc[p] \in {"grow_free", "grow_data"} =>
       \E c \in Cells \ {hdr} :
         /\ given[p] = <<c>>
         /\ ~Torn => c \in allocated /\ c # ptr.data
  /\ pc[p] = "grow_data" => ptr.data \notin allocated \ damaged
  /\ pc[p] = "free_all" =>
       given[p] = <<>> \/ (given[p] = <<ptr.data>> /\ ptr.data # Null)

\* ... and what they know of the array.
Knows(p) ==
  /\ pc[p] \in {"grow_free", "grow_data"} =>
       LET copy == mem[Mine(p)].data IN
       Len(copy) = Target(p) /\ Filled(copy)
  /\ pc[p] \in {"grow_free", "grow_data", "grow_capacity"} =>
       Target(p) > Capacity
  /\ pc[p] = "grow_capacity" => Len(Elements) = Target(p)
  /\ pc[p] \in {"copy", "count"} => Length < Capacity
  /\ pc[p] = "count" => Elements[Length + 1] = req[p].value
  /\ pc[p] = "unlock" =>
       /\ req[p].op = "get" => answer[p] = Lookup(req[p].arg)
       /\ req[p].op = "length" => answer[p] = Append(Done, Size)

BufferInv ==
  /\ Shape /\ Asked /\ Exclusive /\ Lives /\ Memory /\ Exact /\ Holds
  /\ \A p \in Alive : InHand(p) /\ Knows(p)

-----------------------------------------------------------------------------
(* Sequences and cells.                                                    *)

LEMMA BytesType ==
  /\ \A s \in Seq(Data) : Bytes(s) \in Plain /\ Bytes(s).data = s
  /\ Blank \in Plain /\ Blank.data = <<>>
BY DEF Bytes, Blank, Plain

LEMMA HandFacts ==
  /\ ToSet(<<>>) = {}
  /\ \A c : ToSet(<<c>>) = {c} /\ Last(<<c>>) = c /\ Front(<<c>>) = <<>>
  /\ \A s \in Seq(Cells) :
       /\ ToSet(s) \subseteq Cells
       /\ \A c \in Cells : /\ Append(s, c) \in Seq(Cells)
                           /\ ToSet(Append(s, c)) = ToSet(s) \cup {c}
  /\ \A c : Append(<<>>, c) = <<c>>
<1>1. ToSet(<<>>) = {} /\ \A c : ToSet(<<c>>) = {c}
  BY DEF ToSet
<1>2. \A c : Last(<<c>>) = c /\ Front(<<c>>) = <<>>
  BY DEF Last, Front
<1>3. \A s \in Seq(Cells) : ToSet(s) \subseteq Cells
  BY DEF ToSet
<1>4. ASSUME NEW s \in Seq(Cells), NEW c \in Cells
      PROVE  Append(s, c) \in Seq(Cells) /\ ToSet(Append(s, c)) = ToSet(s) \cup {c}
  <2>1. /\ Append(s, c) \in Seq(Cells) /\ Len(Append(s, c)) = Len(s) + 1
        /\ \A i \in 1 .. Len(s) : Append(s, c)[i] = s[i]
        /\ Append(s, c)[Len(s) + 1] = c
    BY AppendProperties
  <2>2. DOMAIN Append(s, c) = 1 .. Len(s) + 1 /\ DOMAIN s = 1 .. Len(s)
        /\ Len(s) \in Nat
    BY <2>1, LenProperties
  <2>3. QED  BY <2>1, <2>2 DEF ToSet
<1>5. \A c : Append(<<>>, c) = <<c>>
  OBVIOUS
<1>6. QED  BY <1>1, <1>2, <1>3, <1>4, <1>5

(* The element a push writes, and a new buffer with a copy of the old.     *)
LEMMA StoreType ==
  ASSUME NEW s \in Seq(Data), NEW i, NEW v \in Data
  PROVE  /\ [s EXCEPT ![i] = v] \in Seq(Data)
         /\ Len([s EXCEPT ![i] = v]) = Len(s)
<1>1. /\ DOMAIN [s EXCEPT ![i] = v] = 1 .. Len(s) /\ Len(s) \in Nat
      /\ \A j \in 1 .. Len(s) : [s EXCEPT ![i] = v][j] \in Data
  BY LenProperties, ElementOfSeq
<1>2. [s EXCEPT ![i] = v] = [j \in 1 .. Len(s) |-> [s EXCEPT ![i] = v][j]]
  BY <1>1
<1>3. PICK n \in Nat : n = Len(s)
  BY <1>1
<1>4. PICK t : t = [s EXCEPT ![i] = v]
  OBVIOUS
<1>5. t \in [1 .. n -> Data]
  BY <1>1, <1>2, <1>3, <1>4
<1>6. t \in Seq(Data) /\ Len(t) = n
  BY <1>5
<1>7. QED  BY <1>3, <1>4, <1>6

LEMMA CopyType ==
  ASSUME NEW s \in Seq(Data), NEW n \in Nat, NEW m \in Nat, m <= Len(s), NEW t,
         t = [i \in 1 .. n |-> IF i <= m THEN s[i] ELSE Null]
  PROVE  t \in Seq(Data) /\ Len(t) = n
<1>1. t \in [1 .. n -> Data]
  BY ElementOfSeq, LenProperties DEF Data
<1>2. QED  BY <1>1

-----------------------------------------------------------------------------
(* The steps of an array or a ring.                                        *)

Reply(p) == ReserveEnough(p) \/ dynarray_get(p) \/ dynarray_length(p)
Grow(p) == GrowAlloc(p) \/ GrowFreeOld(p) \/ GrowData(p) \/ GrowCapacity(p)
Push(p) == PushCopy(p) \/ PushCount(p)
Die(p) == Crash(p) \/ DieInAllocator(p)
Move(p) ==
  \/ \E r \in Requests : Call(p, r)
  \/ Create(p) \/ CallDestroy(p) \/ Lock(p) \/ Unlock(p) \/ FreeInHand(p)
  \/ DropHeader(p) \/ DestroyBuffer(p) \/ UseRing(p) \/ Grow(p) \/ Push(p)
  \/ Reply(p) \/ Die(p)

LEMMA Moves ==
  ASSUME BufferInv, Next
  PROVE  \E p \in Procs : Move(p)
<1>1. PICK p \in Procs : \/ Create(p) \/ CallDestroy(p)
                         \/ \E r \in Requests : Call(p, r)
                         \/ Step(p)
                         \/ Die(p)
  BY DEF Next, Die
<1>2. kind \in {"array", "ring"} /\ pc[p] \in BufferLabels
  BY DEF BufferInv, Shape
<1>3. pc[p] = "locked" => req[p].op \in BufferOps \cup {"destroy"}
  BY DEF BufferInv, Asked, Inside
<1>4. ~Table(p)
  <2>1. ~(hashtable_get(p) \/ hashtable_length(p) \/ DestroyTable(p))
    BY <1>2 DEF hashtable_get, hashtable_length, DestroyTable
  <2>2. ~hashtable_put(p)
    BY <1>2, <1>3 DEF hashtable_put, PutFreeOld, PutNewValue, PutReplace, PutKey,
       PutValue, PutEntry, PutLink, Insert, Locked, At, BufferOps, BufferLabels,
       Inside
  <2>3. ~hashtable_delete(p)
    BY <1>3 DEF hashtable_delete, DeleteMissing, DeleteUnlink, Locked, At, BufferOps
  <2>4. QED  BY <2>1, <2>2, <2>3 DEF Table
<1>5. ~List(p)
  <2>1. ~(dynlist_get(p) \/ dynlist_length(p) \/ DestroyList(p))
    BY <1>2 DEF dynlist_get, dynlist_length, DestroyList
  <2>2. ~dynlist_push(p)
    BY <1>2, <1>3 DEF dynlist_push, FirstNode, FirstHead, FirstTail, BackNode,
       BackLink, BackPrev, BackTail, FrontNode, FrontPrev, FrontHead, ListCount,
       NewNode, StoreNode, StorePtr, PushesOnto, Locked, At, BufferOps,
       BufferLabels, Inside
  <2>3. QED  BY <2>1, <2>2 DEF List
<1>6. QED
  BY <1>1, <1>4, <1>5
     DEF Step, Array, Move, Reply, Grow, Push, dynarray_push, dynarray_grow

(* A call under way inside an array's operation means an array.            *)
LEMMA ArrayCall ==
  ASSUME BufferInv, NEW p \in Procs, pc[p] \in Inside,
         req[p].op \in {"push", "reserve", "get", "length"}
  PROVE  kind = "array"
BY DEF BufferInv, Asked, BufferOps, Shape

LEMMA BufferInit ==
  ASSUME OneBuffer, Init
  PROVE  BufferInv
<1>1. Shape
  <2>1. /\ <<>> \in Seq(Cells) /\ <<>> \in Seq(Values)
        /\ mem \in [Cells -> Plain]
    BY BytesType DEF Init
  <2>2. word \in [1 .. 2 -> Nat]
    BY DEF Init
  <2>3. QED
    BY <2>1, <2>2 DEF OneBuffer, Init, HeapInit, Shape, NoPtr, Offsets, BufferLabels
<1>2. /\ \A p \in Procs : pc[p] = "idle" /\ given[p] = <<>>
      /\ phase = "none" /\ allocated = {} /\ damaged = {} /\ crashed = {}
      /\ ptr.data = Null /\ content = <<>> /\ word[1] = 0 /\ word[2] = 0
  BY <1>1 DEF Init, HeapInit, NoPtr, Shape
<1>3. Asked /\ Exclusive /\ Lives
  BY <1>2 DEF Asked, Exclusive, Lives, Inside, Alive
<1>4. Memory /\ Exact
  BY <1>2 DEF Memory, Exact
<1>5. Holds
  BY <1>2 DEF Holds, Filled, Length, Capacity, Elements
<1>6. \A p \in Alive : InHand(p) /\ Knows(p)
  BY <1>2 DEF Alive, InHand, Knows
<1>7. QED  BY <1>1, <1>3, <1>4, <1>5, <1>6 DEF BufferInv

(* A step of p leaves the calls of the others alone.                       *)
OthersKeep(p) ==
  /\ DOMAIN req' = DOMAIN req /\ DOMAIN answer' = DOMAIN answer
  /\ \A q \in Procs \ {p} : /\ pc'[q] = pc[q] /\ req'[q] = req[q]
                            /\ answer'[q] = answer[q] /\ given'[q] = given[q]

LEMMA MoveKeeps ==
  ASSUME Shape, NEW p \in Procs, Move(p)
  PROVE  OthersKeep(p)
<1>1. pc' = pc \/ \E l : pc' = [pc EXCEPT ![p] = l]
  BY DEF Move, Create, CreateHeader, CreateData, Created, Call, CallDestroy, Lock,
         Unlock, FreeInHand, DropHeader, DestroyBuffer, DestroyAll, UseRing, Grow,
         GrowAlloc, GrowFreeOld, GrowData, GrowCapacity, Push, PushCopy, PushCount,
         Reply, ReserveEnough, dynarray_get, dynarray_length, Finish,
         Die, Crash, DieInAllocator,
         Refused, Return, Goto
<1>2. req' = req \/ \E r : req' = [req EXCEPT ![p] = r]
  BY DEF Move, Create, CreateHeader, CreateData, Created, Call, CallDestroy, Lock,
         Unlock, FreeInHand, DropHeader, DestroyBuffer, DestroyAll, UseRing, Grow,
         GrowAlloc, GrowFreeOld, GrowData, GrowCapacity, Push, PushCopy, PushCount,
         Reply, ReserveEnough, dynarray_get, dynarray_length, Finish,
         Die, Crash, DieInAllocator, Return
<1>3. answer' = answer \/ \E a : answer' = [answer EXCEPT ![p] = a]
  BY DEF Move, Create, CreateHeader, CreateData, Created, Call, CallDestroy, Lock,
         Unlock, FreeInHand, DropHeader, DestroyBuffer, DestroyAll, UseRing, Grow,
         GrowAlloc, GrowFreeOld, GrowData, GrowCapacity, Push, PushCopy, PushCount,
         Reply, ReserveEnough, dynarray_get, dynarray_length, Finish,
         Die, Crash, DieInAllocator,
         Refused, Return, Give
<1>4. given' = given \/ \E g : given' = [given EXCEPT ![p] = g]
  BY DEF Move, Create, CreateHeader, CreateData, Created, Call, CallDestroy, Lock,
         Unlock, FreeInHand, DropHeader, DestroyBuffer, DestroyAll, UseRing, Grow,
         GrowAlloc, GrowFreeOld, GrowData, GrowCapacity, Push, PushCopy, PushCount,
         Reply, ReserveEnough, dynarray_get, dynarray_length, Finish,
         Die, Crash, DieInAllocator,
         Refused, Take, Allocate, Settle, heap
<1>5. QED  BY <1>1, <1>2, <1>3, <1>4 DEF Shape, OthersKeep

(* A container once torn stays so.                                         *)
LEMMA MoveTorn ==
  ASSUME Shape, NEW p \in Procs, Move(p)
  PROVE  crashed \subseteq crashed' /\ (Torn => Torn') /\ spoiled' = spoiled
<1>1. spoiled' = spoiled
  BY DEF Move, Create, CreateHeader, CreateData, Created, Call, CallDestroy, Lock,
         Unlock, FreeInHand, DropHeader, DestroyBuffer, DestroyAll, UseRing, Grow,
         GrowAlloc, GrowFreeOld, GrowData, GrowCapacity, Push, PushCopy, PushCount,
         Reply, ReserveEnough, dynarray_get, dynarray_length, Finish,
         Die, Crash, DieInAllocator,
         Refused, ghosts
<1>2. crashed' = crashed \/ Die(p)
  BY DEF Move, Create, CreateHeader, CreateData, Created, Call, CallDestroy, Lock,
         Unlock, FreeInHand, DropHeader, DestroyBuffer, DestroyAll, UseRing, Grow,
         GrowAlloc, GrowFreeOld, GrowData, GrowCapacity, Push, PushCopy, PushCount,
         Reply, ReserveEnough, dynarray_get, dynarray_length, Finish
<1>3. p \notin crashed
  BY DEF Move, Create, CreateHeader, CreateData, Created, Call, CallDestroy, Lock,
         Unlock, FreeInHand, DropHeader, DestroyBuffer, DestroyAll, UseRing, Grow,
         GrowAlloc, GrowFreeOld, GrowData, GrowCapacity, Push, PushCopy, PushCount,
         Reply, ReserveEnough, dynarray_get, dynarray_length, Locked, At, MustGrow,
         Die, Crash, DieInAllocator
<1>4. crashed \subseteq crashed'
  BY <1>2 DEF Die, Crash, DieInAllocator
<1>5. \A q \in crashed : pc'[q] = pc[q]
  BY <1>3, MoveKeeps DEF Shape, OthersKeep
<1>6. QED  BY <1>1, <1>4, <1>5 DEF Torn, DiedAt

-----------------------------------------------------------------------------
(* Control: where the calls are, what they were asked for, who holds the   *)
(* mutex, and how far the container's life has come.                       *)

Control == Asked /\ Exclusive /\ Lives /\ pc \in [Procs -> BufferLabels]

(* Steps inside an operation of a live container.                          *)
LEMMA WorkFacts ==
  ASSUME BufferInv, NEW p \in Procs, Grow(p) \/ Push(p) \/ Reply(p) \/ UseRing(p)
  PROVE  /\ p \in Alive /\ pc[p] \in Inside /\ lock = p /\ phase = "live"
         /\ \E l \in {"unlock", "grow_free", "grow_data", "grow_capacity", "copy",
                      "count"} : pc' = [pc EXCEPT ![p] = l]
         /\ UNCHANGED <<kind, req, lock, phase, crashed, hdr, damaged>>
<1>1. p \in Alive /\ pc[p] \in Inside /\ req[p].op # "destroy"
  BY DEF BufferInv, Asked, Grow, GrowAlloc, GrowFreeOld, GrowData, GrowCapacity,
     Push, PushCopy, PushCount, Reply, ReserveEnough, dynarray_get,
     dynarray_length, UseRing, MustGrow, Locked, At, Alive, Inside
<1>2. lock = p /\ phase = "live"
  BY <1>1 DEF BufferInv, Exclusive, Lives, Inside
<1>3. \E l \in {"unlock", "grow_free", "grow_data", "grow_capacity", "copy",
               "count"} : pc' = [pc EXCEPT ![p] = l]
  BY DEF Grow, GrowAlloc, GrowFreeOld, GrowData, GrowCapacity,
     Push, PushCopy, PushCount, Reply, ReserveEnough, dynarray_get,
     dynarray_length, UseRing, Finish, Refused, Goto
<1>4. UNCHANGED <<kind, req, lock, phase, crashed, hdr, damaged>>
  BY DEF Grow, GrowAlloc, GrowFreeOld, GrowData, GrowCapacity,
     Push, PushCopy, PushCount, Reply, ReserveEnough, dynarray_get,
     dynarray_length, UseRing, Finish, top, ghosts
<1>5. QED  BY <1>1, <1>2, <1>3, <1>4

LEMMA WorkControl ==
  ASSUME BufferInv, NEW p \in Procs, Grow(p) \/ Push(p) \/ Reply(p) \/ UseRing(p)
  PROVE  Control'
<1>1. PICK l \in {"unlock", "grow_free", "grow_data", "grow_capacity", "copy",
               "count"} : pc' = [pc EXCEPT ![p] = l]
  BY WorkFacts
<1>2. /\ p \in Alive /\ pc[p] \in Inside /\ lock = p /\ phase = "live"
      /\ UNCHANGED <<kind, req, lock, phase, crashed>>
  BY WorkFacts
<1>3. pc \in [Procs -> BufferLabels]
  BY DEF BufferInv, Shape
<1>4. /\ pc'[p] = l /\ l \in Inside /\ pc' \in [Procs -> BufferLabels]
      /\ \A q \in Procs \ {p} : pc'[q] = pc[q]
  BY <1>1, <1>3 DEF Inside, BufferLabels
<1>5. /\ l \in {"grow_free", "grow_data", "grow_capacity"} =>
           req[p].op \in {"push", "reserve"}
      /\ l \in {"copy", "count"} => req[p].op = "push"
  <2>1. CASE Grow(p)
    BY <1>3, <1>4, <2>1 DEF Grow, GrowAlloc, GrowFreeOld, GrowData, GrowCapacity,
       MustGrow, Locked, At, Goto, Refused, BufferInv, Asked
  <2>2. CASE Push(p)
    BY <1>3, <1>4, <2>2 DEF Push, PushCopy, PushCount, Locked, At, Goto, BufferInv,
       Asked
  <2>3. CASE Reply(p) \/ UseRing(p)
    BY <1>3, <1>4, <2>3 DEF Reply, ReserveEnough, dynarray_get, dynarray_length,
       Finish, UseRing, Goto
  <2>4. QED  BY <2>1, <2>2, <2>3
<1>6. Asked'
  BY <1>2, <1>4, <1>5 DEF BufferInv, Asked, BufferOps
<1>7. Exclusive'
  BY <1>2, <1>4 DEF BufferInv, Exclusive, Alive
<1>8. req[p].op # "destroy"
  BY <1>2 DEF BufferInv, Lives, Inside
<1>9. Lives'
  BY <1>2, <1>4, <1>8 DEF BufferInv, Lives, Alive
<1>10. QED  BY <1>4, <1>6, <1>7, <1>9 DEF Control

LEMMA CallControl ==
  ASSUME BufferInv, NEW p \in Procs, NEW r \in Requests, Call(p, r)
  PROVE  Control'
<1>1. /\ p \in Alive /\ pc[p] = "idle" /\ phase = "live"
      /\ pc' = [pc EXCEPT ![p] = "lock"] /\ req' = [req EXCEPT ![p] = r]
      /\ UNCHANGED <<kind, lock, phase, crashed>>
  BY DEF Call, At, Alive, Goto
<1>2. /\ pc'[p] = "lock" /\ req'[p] = r /\ pc' \in [Procs -> BufferLabels]
      /\ \A q \in Procs \ {p} : pc'[q] = pc[q] /\ req'[q] = req[q]
  BY <1>1 DEF BufferInv, Shape, BufferLabels
<1>3. /\ r.op \in BufferOps
      /\ r.op \in {"reserve", "get"} => r.arg \in Nat
      /\ r.op = "push" => r.value \in Values
  <2>1. CASE kind = "array"
    <3>1. r \in ArrayRequests
      BY <2>1 DEF Requests
    <3>2. BufferOps = {"push", "reserve", "get", "length"}
      BY <2>1 DEF BufferOps
    <3>3. Reserves \subseteq Nat
      BY SizesAssumption
    <3>4. \/ r.op = "push" /\ r.value \in Values
          \/ r.op \in {"reserve", "get"} /\ r.arg \in Nat
          \/ r.op = "length"
      <4>1. CASE r \in [op : {"push"}, arg : {0}, value : Values]
        BY <4>1
      <4>2. CASE r \in [op : {"reserve"}, arg : Reserves, value : {Null}]
        BY <3>3, <4>2
      <4>3. CASE r \in [op : {"get"}, arg : 0 .. 1, value : {Null}]
        <5>1. r.op = "get" /\ r.arg \in 0 .. 1
          BY <4>3
        <5>2. QED  BY <5>1
      <4>4. CASE r \in [op : {"length"}, arg : {0}, value : {Null}]
        BY <4>4
      <4>5. QED  BY <3>1, <4>1, <4>2, <4>3, <4>4 DEF ArrayRequests
    <3>5. QED  BY <3>2, <3>4, Zenon
  <2>2. CASE kind = "ring"
    <3>1. r \in [op : {"use"}, arg : {0}, value : {Null}]
      BY <2>2 DEF Requests
    <3>2. QED  BY <2>2, <3>1 DEF BufferOps
  <2>3. QED  BY <2>1, <2>2 DEF BufferInv, Shape
<1>4. Asked'
  BY <1>1, <1>2, <1>3 DEF BufferInv, Asked, BufferOps, Inside
<1>5. Exclusive'
  BY <1>1, <1>2 DEF BufferInv, Exclusive, Alive, Inside
<1>6. r.op # "destroy"
  BY <1>3 DEF BufferOps
<1>7. Lives'
  BY <1>1, <1>2, <1>6 DEF BufferInv, Lives, Alive
<1>8. QED  BY <1>2, <1>4, <1>5, <1>7 DEF Control

LEMMA CallDestroyControl ==
  ASSUME BufferInv, NEW p \in Procs, CallDestroy(p)
  PROVE  Control'
<1>1. PICK r : r.op = "destroy" /\ req' = [req EXCEPT ![p] = r]
  BY DEF CallDestroy, NoRequest
<1>2. /\ p \in Alive /\ phase' = "closing" /\ \A q \in Alive : pc[q] = "idle"
      /\ pc' = [pc EXCEPT ![p] = "lock"] /\ UNCHANGED <<kind, lock, crashed>>
  BY DEF CallDestroy, Alive, Goto
<1>3. /\ pc'[p] = "lock" /\ req'[p] = r /\ pc' \in [Procs -> BufferLabels]
      /\ \A q \in Procs \ {p} : pc'[q] = pc[q] /\ req'[q] = req[q]
  BY <1>1, <1>2 DEF BufferInv, Shape, BufferLabels
<1>4. Asked'
  BY <1>1, <1>2, <1>3 DEF BufferInv, Asked, BufferOps, Inside
<1>5. Exclusive'
  BY <1>2, <1>3 DEF Exclusive, Alive, Inside
<1>6. Lives'
  BY <1>1, <1>2, <1>3 DEF Lives, Alive
<1>7. QED  BY <1>3, <1>4, <1>5, <1>6 DEF Control

LEMMA CreateControl ==
  ASSUME BufferInv, NEW p \in Procs, Create(p)
  PROVE  Control'
<1>1. /\ p \in Alive /\ UNCHANGED <<kind, lock, crashed>>
      /\ phase \in {"none", "creating"}
      /\ \A q \in Alive \ {p} : pc[q] = "idle"
  BY DEF Create, CreateHeader, CreateData, Created, At, Alive, BufferInv, Lives,
         Inside, ghosts
<1>2. PICK l \in {"idle", "create_data", "created", "drop_header"} :
        /\ pc' = [pc EXCEPT ![p] = l]
        /\ l = "idle" => phase' = "live"
        /\ l # "idle" => phase' = "creating"
  BY <1>1 DEF Create, CreateHeader, CreateData, Created, Return, Goto, Refused,
     At, BufferInv, Lives, Inside, Alive
<1>3. /\ pc'[p] = l /\ pc' \in [Procs -> BufferLabels]
      /\ \A q \in Procs \ {p} : pc'[q] = pc[q]
  BY <1>2 DEF BufferInv, Shape, BufferLabels
<1>4. \A q \in Procs \ {p} : req'[q] = req[q]
  BY MoveKeeps DEF BufferInv, Move, OthersKeep
<1>5. Asked'
  BY <1>1, <1>2, <1>3, <1>4 DEF BufferInv, Asked, BufferOps, Inside
<1>6. Exclusive'
  BY <1>1, <1>2, <1>3 DEF Exclusive, Alive, Inside
<1>7. Lives'
  BY <1>1, <1>2, <1>3 DEF Lives, Alive
<1>8. QED  BY <1>3, <1>5, <1>6, <1>7 DEF Control

LEMMA LockControl ==
  ASSUME BufferInv, NEW p \in Procs, Lock(p)
  PROVE  Control'
<1>1. /\ p \in Alive /\ pc[p] = "lock" /\ lock \notin Alive /\ lock' = p
      /\ pc' = [pc EXCEPT ![p] = "locked"]
      /\ UNCHANGED <<kind, req, phase, crashed>>
  BY ProcsAssumption DEF Lock, At, Alive, Goto
<1>2. /\ pc'[p] = "locked" /\ pc' \in [Procs -> BufferLabels]
      /\ \A q \in Procs \ {p} : pc'[q] = pc[q]
  BY <1>1 DEF BufferInv, Shape, BufferLabels, Inside
<1>3. \A q \in Alive : pc[q] \notin Inside
  BY <1>1 DEF BufferInv, Exclusive
<1>4. Asked'
  BY <1>1, <1>2 DEF BufferInv, Asked, BufferOps
<1>5. Exclusive'
  BY <1>1, <1>2, <1>3 DEF Exclusive, Alive
<1>6. Lives'
  BY <1>1, <1>2 DEF BufferInv, Lives, Alive, Inside
<1>7. QED  BY <1>2, <1>4, <1>5, <1>6 DEF Control

LEMMA UnlockControl ==
  ASSUME BufferInv, NEW p \in Procs, Unlock(p)
  PROVE  Control'
<1>1. /\ p \in Alive /\ pc[p] = "unlock" /\ UNCHANGED <<kind, phase, crashed>>
      /\ pc' = [pc EXCEPT ![p] = IF req[p].op = "destroy" THEN "drop_header"
                                 ELSE "idle"]
  BY DEF Unlock, Return, At, Alive, Goto
<1>2. /\ pc'[p] \in {"idle", "drop_header"}
      /\ pc'[p] = "drop_header" <=> req[p].op = "destroy"
      /\ pc' \in [Procs -> BufferLabels]
      /\ \A q \in Procs \ {p} : pc'[q] = pc[q]
  BY <1>1 DEF BufferInv, Shape, BufferLabels
<1>3. \A q \in Alive \ {p} : pc[q] \notin Inside
  BY <1>1 DEF BufferInv, Exclusive, Inside
<1>4. \A q \in Procs \ {p} : req'[q] = req[q]
  BY MoveKeeps DEF BufferInv, Move, OthersKeep
<1>5. Asked'
  BY <1>1, <1>2, <1>4 DEF BufferInv, Asked, BufferOps, Inside
<1>6. Exclusive'
  BY <1>1, <1>2, <1>3 DEF Exclusive, Alive, Inside
<1>7. Lives'
  BY <1>1, <1>2, <1>4 DEF BufferInv, Lives, Alive
<1>8. QED  BY <1>2, <1>5, <1>6, <1>7 DEF Control

LEMMA DestroyControl ==
  ASSUME BufferInv, NEW p \in Procs,
         DestroyBuffer(p) \/ FreeInHand(p) \/ DropHeader(p)
  PROVE  Control'
<1>1. /\ p \in Alive /\ UNCHANGED <<kind, lock, crashed>>
      /\ \/ pc[p] = "locked" /\ req[p].op = "destroy"
         \/ pc[p] \in {"free_all", "drop_header"}
  BY DEF DestroyBuffer, DestroyAll, FreeInHand, DropHeader, Locked, At, Alive
<1>2. /\ phase \in {"creating", "closing"}
      /\ pc[p] # "drop_header" => phase = "closing"
      /\ \A q \in Alive \ {p} : pc[q] = "idle"
  BY <1>1 DEF BufferInv, Lives, Asked, Inside
<1>3. PICK l \in {"free_all", "unlock", "idle"} :
        /\ pc' = [pc EXCEPT ![p] = l]
        /\ l = "idle" => phase' = "gone"
        /\ l # "idle" => /\ phase' = "closing" /\ req' = req
                         /\ pc[p] \in Inside /\ req[p].op = "destroy"
  <2>1. CASE DestroyBuffer(p)
    BY <1>1, <1>2, <2>1 DEF DestroyBuffer, DestroyAll, Locked, At, Goto, Inside
  <2>2. CASE FreeInHand(p)
    <3>1. pc[p] = "free_all" /\ req[p].op = "destroy"
      BY <2>2 DEF FreeInHand, At, BufferInv, Asked
    <3>2. pc = [pc EXCEPT ![p] = "free_all"]
      BY <3>1 DEF BufferInv, Shape
    <3>3. QED  BY <1>2, <2>2, <3>1, <3>2 DEF FreeInHand, Goto, Inside
  <2>3. CASE DropHeader(p)
    BY <2>3 DEF DropHeader, Return, Goto
  <2>4. QED  BY <2>1, <2>2, <2>3
<1>4. /\ pc'[p] = l /\ pc' \in [Procs -> BufferLabels]
      /\ \A q \in Procs \ {p} : pc'[q] = pc[q]
  BY <1>3 DEF BufferInv, Shape, BufferLabels, Inside
<1>5. \A q \in Procs \ {p} : req'[q] = req[q]
  BY MoveKeeps DEF BufferInv, Move, OthersKeep
<1>6. Asked'
  <2>1. \A q \in Procs \ {p} : pc'[q] = pc[q] /\ req'[q] = req[q]
    BY <1>4, <1>5
  <2>2. l # "idle" => req'[p] = req[p] /\ req[p].op = "destroy"
    BY <1>3
  <2>3. QED  BY <1>1, <1>4, <2>1, <2>2 DEF BufferInv, Asked, BufferOps, Inside
<1>7. Exclusive'
  BY <1>1, <1>2, <1>3, <1>4 DEF BufferInv, Exclusive, Alive, Inside
<1>8. Lives'
  BY <1>1, <1>2, <1>3, <1>4 DEF Lives, Alive
<1>9. QED  BY <1>4, <1>6, <1>7, <1>8 DEF Control

LEMMA CrashControl ==
  ASSUME BufferInv, NEW p \in Procs, Die(p)
  PROVE  Control'
<1>1. /\ UNCHANGED <<kind, lock, phase, pc, req>> /\ Alive' \subseteq Alive
  BY DEF Die, Crash, DieInAllocator, Alive
<1>2. QED
  BY <1>1 DEF BufferInv, Shape, Control, Asked, BufferOps, Exclusive, Lives

LEMMA MoveControl ==
  ASSUME BufferInv, NEW p \in Procs, Move(p)
  PROVE  Control'
BY WorkControl, CallControl, CallDestroyControl, CreateControl, LockControl,
   UnlockControl, DestroyControl, CrashControl DEF Move

-----------------------------------------------------------------------------
(* Types.                                                                  *)

LEMMA Words ==
  ASSUME Shape
  PROVE  Length \in Nat /\ Capacity \in Nat
BY DEF Shape, Length, Capacity

LEMMA TargetType ==
  ASSUME BufferInv, NEW p \in Procs, pc[p] \in Inside,
         req[p].op \in {"push", "reserve"}
  PROVE  Target(p) \in Nat
BY Words, SizesAssumption DEF BufferInv, Asked, Target

LEMMA ElementsType ==
  ASSUME Shape
  PROVE  Elements \in Seq(Data) /\ Len(Elements) \in Nat
<1>1. CASE ptr.data = Null
  BY <1>1 DEF Elements
<1>2. CASE ptr.data # Null
  <2>1. ptr.data \in Cells
    BY <1>2 DEF Shape, Offsets
  <2>2. QED  BY <1>2, <2>1 DEF Shape, Elements, Plain
<1>3. QED  BY <1>1, <1>2

(* allocator_alloc gives a cell that is free.                              *)
LEMMA TakeFacts ==
  ASSUME Shape, NEW p \in Procs, NEW filled \in Plain, Take(p, filled)
  PROVE  \E c \in Cells \ allocated :
           /\ c = FirstFree /\ allocated' = allocated \cup {c}
           /\ given' = [given EXCEPT ![p] = Append(given[p], c)]
           /\ mem' = [mem EXCEPT ![c] = filled]
           /\ given' \in [Procs -> Seq(Cells)] /\ mem' \in [Cells -> Plain]
           /\ allocated' \subseteq Cells
<1>1. PICK c \in Cells \ allocated : c = FirstFree
  BY DEF Take, Allocate
<1>2. /\ allocated' = allocated \cup {c}
      /\ given' = [given EXCEPT ![p] = Append(given[p], c)]
      /\ mem' = [mem EXCEPT ![c] = filled]
  BY <1>1 DEF Take, Allocate
<1>3. Append(given[p], c) \in Seq(Cells)
  BY HandFacts DEF Shape
<1>4. QED  BY <1>1, <1>2, <1>3 DEF Shape

(* The copy that dynarray_grow makes.                                      *)
LEMMA GrowTakes ==
  ASSUME BufferInv, NEW p \in Procs, GrowAlloc(p), ~Refused(p, "unlock")
  PROVE  /\ kind = "array" /\ pc[p] = "locked" /\ pc'[p] = "grow_free"
         /\ req[p].op \in {"push", "reserve"} /\ Target(p) > Capacity
         /\ \E c \in Cells \ allocated, copy \in Seq(Data) :
              /\ copy = [i \in 1 .. Target(p) |->
                          IF i <= Length THEN Elements[i] ELSE Null]
              /\ Len(copy) = Target(p) /\ allocated' = allocated \cup {c}
              /\ given' = [given EXCEPT ![p] = <<c>>]
              /\ mem' = [mem EXCEPT ![c] = Bytes(copy)]
              /\ given' \in [Procs -> Seq(Cells)] /\ mem' \in [Cells -> Plain]
              /\ allocated' \subseteq Cells
<1>1. /\ p \in Alive /\ pc[p] = "locked" /\ req[p].op \in {"push", "reserve"}
      /\ pc'[p] = "grow_free"
  BY DEF GrowAlloc, MustGrow, Locked, At, Goto, BufferInv, Shape, Alive
<1>2. kind = "array" /\ Shape /\ given[p] = <<>>
  BY <1>1, ArrayCall DEF BufferInv, InHand, Inside
<1>3. PICK n \in Nat : n = Target(p)
  BY <1>1, TargetType DEF Inside
<1>4. PICK copy : copy = [i \in 1 .. n |-> IF i <= Length THEN Elements[i] ELSE Null]
  OBVIOUS
<1>5. /\ Length \in Nat /\ Capacity \in Nat /\ Length <= Capacity
      /\ Capacity <= Len(Elements) /\ Length <= Len(Elements)
  BY <1>2, Words, ElementsType DEF BufferInv, Holds, Filled
<1>6. copy \in Seq(Data) /\ Len(copy) = n
  <2>1. Elements \in Seq(Data)
    BY <1>2, ElementsType
  <2>2. Length \in Nat /\ Length <= Len(Elements)
    BY <1>5
  <2>3. QED  BY <1>4, <2>1, <2>2, CopyType
<1>7. n > Capacity
  <2>1. InitialCapacity \in Nat \ {0}
    BY SizesAssumption
  <2>2. QED
    BY <1>1, <1>3, <1>5, <2>1 DEF GrowAlloc, MustGrow, Locked, Target
<1>8. Take(p, Bytes(copy))
  BY <1>3, <1>4 DEF GrowAlloc
<1>9. PICK c \in Cells \ allocated :
        /\ allocated' = allocated \cup {c}
        /\ given' = [given EXCEPT ![p] = Append(given[p], c)]
        /\ mem' = [mem EXCEPT ![c] = Bytes(copy)]
        /\ given' \in [Procs -> Seq(Cells)] /\ mem' \in [Cells -> Plain]
        /\ allocated' \subseteq Cells
  <2>1. Bytes(copy) \in Plain
    BY <1>6, BytesType
  <2>2. QED  BY <1>2, <1>8, <2>1, TakeFacts
<1>10. given' = [given EXCEPT ![p] = <<c>>]
  BY <1>2, <1>9, HandFacts
<1>11. QED
  BY <1>1, <1>2, <1>3, <1>4, <1>6, <1>7, <1>9, <1>10

(* The slot that dynarray_push writes is in the buffer.                    *)
LEMMA PushWrites ==
  ASSUME BufferInv, NEW p \in Procs, PushCopy(p)
  PROVE  /\ kind = "array" /\ ptr.data \in Cells /\ Length < Capacity
         /\ pc'[p] = "count" /\ p \in Alive
         /\ \E new \in Seq(Data) :
              /\ new = [Elements EXCEPT ![Length + 1] = req[p].value]
              /\ Len(new) = Len(Elements)
              /\ mem' = [mem EXCEPT ![ptr.data] = Bytes(new)]
              /\ mem' \in [Cells -> Plain]
<1>1. /\ p \in Alive /\ pc[p] \in {"locked", "copy"} /\ req[p].op = "push"
      /\ pc'[p] = "count"
  BY DEF PushCopy, At, Locked, Goto, BufferInv, Shape, Alive, Asked
<1>2. kind = "array" /\ Shape
  BY <1>1, ArrayCall DEF BufferInv, Inside
<1>3. Length < Capacity
  <2>1. Length \in Nat /\ Capacity \in Nat /\ Length <= Capacity
    BY <1>2, Words DEF BufferInv, Holds
  <2>2. CASE pc[p] = "copy"
    BY <1>1, <2>2 DEF BufferInv, Knows
  <2>3. CASE pc[p] = "locked"
    <3>1. Length # Capacity
      BY <2>3 DEF PushCopy, At, Locked
    <3>2. QED  BY <2>1, <3>1
  <2>4. QED  BY <1>1, <2>2, <2>3
<1>4. PICK d \in Cells : d = ptr.data
  <2>1. Capacity <= Len(Elements)
    BY <1>2 DEF BufferInv, Holds, Filled
  <2>2. ptr.data # Null
    <3>1. ASSUME ptr.data = Null PROVE FALSE
      <4>1. Elements = <<>>
        BY <3>1 DEF Elements
      <4>2. Len(Elements) = 0
        BY <4>1
      <4>3. QED  BY <1>2, <1>3, <2>1, <4>2, Words
    <3>2. QED  BY <3>1
  <2>3. QED  BY <1>2, <2>2 DEF Shape, Offsets
<1>5. Elements = mem[d].data /\ mem[d] \in Plain /\ mem[d] = Bytes(mem[d].data)
  BY <1>2, <1>4, CellsAssumption DEF Elements, Shape, Plain, Bytes, Blank
<1>6. PICK v \in Values : v = req[p].value
  BY <1>1 DEF BufferInv, Asked, Inside
<1>7. PICK new : new = [Elements EXCEPT ![Length + 1] = v]
  OBVIOUS
<1>8. new \in Seq(Data) /\ Len(new) = Len(Elements)
  BY <1>2, <1>7, ElementsType, StoreType DEF Data
<1>9. mem' = [mem EXCEPT ![d] = [mem[d] EXCEPT !.data = new]]
  BY <1>4, <1>5, <1>6, <1>7 DEF PushCopy
<1>10. [mem[d] EXCEPT !.data = new] = Bytes(new)
  BY <1>5 DEF Plain, Bytes, Blank
<1>11. mem' \in [Cells -> Plain]
  BY <1>2, <1>8, <1>9, <1>10, BytesType DEF Shape
<1>12. QED  BY <1>1, <1>2, <1>3, <1>4, <1>6, <1>7, <1>8, <1>9, <1>10, <1>11

(* A process that grows the array holds exactly its copy.                  *)
LEMMA GrowHand ==
  ASSUME BufferInv, NEW p \in Alive, pc[p] \in {"grow_free", "grow_data"}
  PROVE  \E c \in Cells \ {hdr} :
           /\ given[p] = <<c>> /\ Mine(p) = c /\ ToSet(given[p]) = {c}
           /\ ~Torn => c \in allocated /\ c # ptr.data
<1>1. PICK c \in Cells \ {hdr} : /\ given[p] = <<c>>
                                 /\ ~Torn => c \in allocated /\ c # ptr.data
  BY DEF BufferInv, InHand
<1>2. QED  BY <1>1, HandFacts DEF Mine

(* What is neither the heap nor the header of the container.               *)
LEMMA FrameShape ==
  ASSUME BufferInv, NEW p \in Procs, Move(p)
  PROVE  /\ kind' = kind /\ lock' \in Procs \cup {NoProc}
         /\ pc' \in [Procs -> BufferLabels]
         /\ DOMAIN req' = Procs /\ DOMAIN answer' = Procs
         /\ crashed' \subseteq Procs /\ content' \in Seq(Values)
         /\ spoiled' = spoiled
<1>1. kind' = kind
  BY DEF Move, Create, CreateHeader, CreateData, Created, Call, CallDestroy, Lock,
         Unlock, FreeInHand, DropHeader, DestroyBuffer, DestroyAll, UseRing, Grow,
         GrowAlloc, GrowFreeOld, GrowData, GrowCapacity, Push, PushCopy, PushCount,
         Reply, ReserveEnough, dynarray_get, dynarray_length, Finish,
         Die, Crash, DieInAllocator
<1>2. lock' \in {lock, p, NoProc}
  BY DEF Move, Create, CreateHeader, CreateData, Created, Call, CallDestroy, Lock,
         Unlock, FreeInHand, DropHeader, DestroyBuffer, DestroyAll, UseRing, Grow,
         GrowAlloc, GrowFreeOld, GrowData, GrowCapacity, Push, PushCopy, PushCount,
         Reply, ReserveEnough, dynarray_get, dynarray_length, Finish,
         Die, Crash, DieInAllocator
<1>3. pc' \in [Procs -> BufferLabels]
  BY MoveControl DEF Control
<1>4. crashed' = crashed \/ crashed' = crashed \cup {p}
  BY DEF Move, Create, CreateHeader, CreateData, Created, Call, CallDestroy, Lock,
         Unlock, FreeInHand, DropHeader, DestroyBuffer, DestroyAll, UseRing, Grow,
         GrowAlloc, GrowFreeOld, GrowData, GrowCapacity, Push, PushCopy, PushCount,
         Reply, ReserveEnough, dynarray_get, dynarray_length, Finish,
         Die, Crash, DieInAllocator
<1>5. content' \in Seq(Values)
  <2>1. CASE PushCount(p)
    <3>1. pc[p] = "count" /\ content' = Append(content, req[p].value)
      BY <2>1 DEF PushCount, At
    <3>2. req[p].value \in Values
      BY <3>1 DEF BufferInv, Asked, Inside
    <3>3. QED  BY <3>1, <3>2, AppendProperties DEF BufferInv, Shape
  <2>2. CASE ~PushCount(p)
    <3>1. content' = content
      BY <2>2
         DEF Move, Create, CreateHeader, CreateData, Created, Call, CallDestroy,
             Lock, Unlock, FreeInHand, DropHeader, DestroyBuffer, DestroyAll,
             UseRing, Grow, GrowAlloc, GrowFreeOld, GrowData, GrowCapacity, Push,
             PushCopy, Reply, ReserveEnough, dynarray_get, dynarray_length, Finish,
             Die, Crash, DieInAllocator, ghosts
    <3>2. QED  BY <3>1 DEF BufferInv, Shape
  <2>3. QED  BY <2>1, <2>2
<1>6. QED
  BY <1>1, <1>2, <1>3, <1>4, <1>5, MoveKeeps, MoveTorn
     DEF BufferInv, Shape, OthersKeep

HeapShape ==
  /\ allocated \subseteq Cells /\ damaged \subseteq Cells
  /\ given \in [Procs -> Seq(Cells)]
  /\ hdr \in Offsets /\ ptr \in [{"data", "head", "tail"} -> Offsets]
  /\ word \in [1 .. 2 -> Nat]
  /\ mem \in [Cells -> Plain]

LEMMA CreateShape ==
  ASSUME BufferInv, NEW p \in Procs, Create(p)
  PROVE  HeapShape'
<1>1. Shape
  BY DEF BufferInv
<1>2. CASE CreateHeader(p)
  <2>1. Blank \in Plain /\ Take(p, Blank)
    BY <1>2, BytesType DEF CreateHeader
  <2>2. hdr' \in Cells /\ given' \in [Procs -> Seq(Cells)] /\ mem' \in [Cells -> Plain]
        /\ allocated' \subseteq Cells
    BY <1>1, <1>2, <2>1, TakeFacts DEF CreateHeader
  <2>3. word' \in [1 .. 2 -> Nat]
    <3>1. RingCapacity \in Nat
      BY SizesAssumption
    <3>2. word' = <<0, 0>> \/ word' = <<RingCapacity, 0>>
      BY <1>1, <1>2 DEF CreateHeader, FirstWords, Shape
    <3>3. QED  BY <3>1, <3>2
  <2>4. ptr' \in [{"data", "head", "tail"} -> Offsets] /\ damaged' = damaged
    BY <1>2 DEF CreateHeader, NoPtr, Offsets, ghosts
  <2>5. QED  BY <1>1, <2>2, <2>3, <2>4 DEF HeapShape, Shape, Offsets
<1>3. CASE CreateData(p)
  <2>1. hdr' = hdr /\ word' = word /\ damaged' = damaged
    BY <1>3 DEF CreateData
  <2>2. CASE Refused(p, "drop_header") /\ ptr' = ptr
    BY <1>1, <2>1, <2>2 DEF Refused, heap, HeapShape, Shape
  <2>3. CASE Take(p, Bytes(FirstData)) /\ ptr' = [ptr EXCEPT !.data = FirstFree]
    <3>1. kind = "ring"
      <4>1. pc[p] = "create_data" /\ p \in Alive
        BY <1>3 DEF CreateData, At, Alive
      <4>2. QED  BY <4>1 DEF BufferInv, InHand
    <3>2. FirstData \in Seq(Data)
      <4>1. PICK n \in Nat : n = RingCapacity
        BY SizesAssumption
      <4>2. FirstData \in [1 .. n -> Data]
        BY <3>1, <4>1 DEF FirstData, Data
      <4>3. QED  BY <4>2
    <3>3. Bytes(FirstData) \in Plain
      BY <3>2, BytesType
    <3>4. PICK c \in Cells \ allocated :
            /\ c = FirstFree /\ given' \in [Procs -> Seq(Cells)]
            /\ mem' \in [Cells -> Plain] /\ allocated' \subseteq Cells
      BY <1>1, <2>3, <3>3, TakeFacts
    <3>5. ptr' \in [{"data", "head", "tail"} -> Offsets]
      BY <1>1, <2>3, <3>4 DEF Shape, Offsets
    <3>6. QED  BY <1>1, <2>1, <3>4, <3>5 DEF HeapShape, Shape
  <2>4. QED  BY <1>3, <2>2, <2>3 DEF CreateData
<1>4. CASE Created(p)
  <2>1. UNCHANGED <<allocated, damaged, hdr, ptr, word, mem>>
    BY <1>4 DEF Created, Settle, top, ghosts
  <2>2. given' = [given EXCEPT ![p] = <<>>]
    BY <1>4 DEF Created, Settle
  <2>3. given' \in [Procs -> Seq(Cells)]
    <3>1. <<>> \in Seq(Cells)
      OBVIOUS
    <3>2. QED  BY <1>1, <2>2, <3>1 DEF Shape
  <2>4. QED  BY <1>1, <2>1, <2>3 DEF HeapShape, Shape
<1>5. QED  BY <1>2, <1>3, <1>4 DEF Create

LEMMA DestroyShape ==
  ASSUME BufferInv, NEW p \in Procs,
         DestroyBuffer(p) \/ FreeInHand(p) \/ DropHeader(p) \/ Unlock(p)
  PROVE  HeapShape'
<1>1. Shape
  BY DEF BufferInv
<1>2. UNCHANGED <<hdr, ptr, word, mem>>
  BY DEF DestroyBuffer, DestroyAll, FreeInHand, DropHeader, Unlock, top
<1>3. allocated' \subseteq allocated
  BY DEF DestroyBuffer, DestroyAll, FreeInHand, DropHeader, Unlock, Settle, Release, Free
<1>4. damaged' = damaged
  BY DEF DestroyBuffer, DestroyAll, FreeInHand, DropHeader, Unlock
<1>5. given' \in [Procs -> Seq(Cells)]
  <2>1. given' = given \/ \E g \in Seq(Cells) : given' = [given EXCEPT ![p] = g]
    <3>1. CASE DestroyBuffer(p)
      <4>1. ptr.data = Null \/ ptr.data \in Cells
        BY <1>1 DEF Shape, Offsets
      <4>2. PICK g : g = IF ptr.data = Null THEN <<>> ELSE <<ptr.data>>
        OBVIOUS
      <4>3. g \in Seq(Cells)
        BY <4>1, <4>2
      <4>4. QED  BY <3>1, <4>2, <4>3 DEF DestroyBuffer, DestroyAll
    <3>2. CASE FreeInHand(p)
      <4>1. CASE given[p] = <<>>
        BY <3>2, <4>1 DEF FreeInHand
      <4>2. CASE given[p] # <<>>
        <5>1. Front(given[p]) \in Seq(Cells)
          BY <1>1, <4>2 DEF Shape, Front
        <5>2. QED  BY <3>2, <4>2, <5>1 DEF FreeInHand
      <4>3. QED  BY <4>1, <4>2
    <3>3. CASE DropHeader(p) \/ Unlock(p)
      <4>1. <<>> \in Seq(Cells)
        OBVIOUS
      <4>2. QED  BY <3>3, <4>1 DEF DropHeader, Unlock, Settle
    <3>4. QED  BY <3>1, <3>2, <3>3
  <2>2. QED  BY <1>1, <2>1 DEF Shape
<1>6. QED  BY <1>1, <1>2, <1>3, <1>4, <1>5 DEF HeapShape, Shape

LEMMA WorkShape ==
  ASSUME BufferInv, NEW p \in Procs, Grow(p) \/ Push(p) \/ Reply(p) \/ UseRing(p)
  PROVE  HeapShape'
<1>1. Shape
  BY DEF BufferInv
<1>2. hdr' = hdr /\ damaged' = damaged
  BY WorkFacts
<1>3. CASE GrowAlloc(p)
  <2>1. ptr' = ptr /\ word' = word
    BY <1>3 DEF GrowAlloc, top
  <2>2. CASE Refused(p, "unlock")
    BY <1>1, <1>2, <2>1, <2>2 DEF Refused, heap, HeapShape, Shape
  <2>3. CASE ~Refused(p, "unlock")
    BY <1>1, <1>2, <1>3, <2>1, <2>3, GrowTakes DEF HeapShape, Shape
  <2>4. QED  BY <2>2, <2>3
<1>4. CASE GrowFreeOld(p)
  BY <1>1, <1>2, <1>4 DEF GrowFreeOld, Release, Free, top, HeapShape, Shape
<1>5. CASE GrowData(p)
  <2>1. p \in Alive /\ pc[p] = "grow_data"
    BY <1>5 DEF GrowData, At, Alive
  <2>2. PICK c \in Cells : Mine(p) = c
    BY <2>1, GrowHand
  <2>3. ptr' = [ptr EXCEPT !.data = c] /\ given' = [given EXCEPT ![p] = <<>>]
        /\ UNCHANGED <<allocated, mem, word>>
    BY <1>5, <2>2 DEF GrowData, Settle
  <2>4. <<>> \in Seq(Cells)
    OBVIOUS
  <2>5. QED  BY <1>1, <1>2, <2>3, <2>4 DEF HeapShape, Shape, Offsets
<1>6. CASE GrowCapacity(p)
  <2>1. Target(p) \in Nat
    BY <1>6, TargetType DEF GrowCapacity, At, BufferInv, Asked, Inside
  <2>2. QED  BY <1>1, <1>2, <1>6, <2>1 DEF GrowCapacity, heap, HeapShape, Shape
<1>7. CASE PushCopy(p)
  BY <1>1, <1>2, <1>7, PushWrites DEF PushCopy, top, HeapShape, Shape
<1>8. CASE PushCount(p)
  BY <1>1, <1>2, <1>8 DEF PushCount, heap, HeapShape, Shape
<1>9. CASE Reply(p)
  BY <1>1, <1>2, <1>9
     DEF Reply, ReserveEnough, dynarray_get, dynarray_length, Finish, heap, top,
         HeapShape, Shape
<1>10. CASE UseRing(p)
  <2>1. RingCapacity \in Nat
    BY SizesAssumption
  <2>2. PICK h \in 0 .. RingCapacity - 1 : word' = [word EXCEPT ![2] = h]
    BY <1>10 DEF UseRing
  <2>3. word' \in [1 .. 2 -> Nat]
    BY <1>1, <2>1, <2>2 DEF Shape
  <2>4. QED  BY <1>1, <1>2, <1>10, <2>3 DEF UseRing, heap, HeapShape, Shape
<1>11. QED
  BY <1>3, <1>4, <1>5, <1>6, <1>7, <1>8, <1>9, <1>10 DEF Grow, Push

LEMMA MoveShape ==
  ASSUME BufferInv, NEW p \in Procs, Move(p)
  PROVE  Shape'
<1>1. HeapShape'
  <2>1. CASE \/ \E r \in Requests : Call(p, r)
             \/ CallDestroy(p) \/ Lock(p)
    BY <2>1 DEF Call, CallDestroy, Lock, heap, top, ghosts, BufferInv, Shape,
       HeapShape
  <2>2. CASE Die(p)
    <3>1. damaged' \subseteq Cells
      BY <2>2, ShardsAssumption DEF Die, Crash, DieInAllocator, BufferInv, Shape
    <3>2. UNCHANGED <<allocated, given, hdr, ptr, word, mem>>
      BY <2>2 DEF Die, Crash, DieInAllocator, heap, top
    <3>3. QED  BY <3>1, <3>2 DEF BufferInv, Shape, HeapShape
  <2>3. QED  BY <2>1, <2>2, CreateShape, DestroyShape, WorkShape DEF Move
<1>2. QED  BY <1>1, FrameShape DEF BufferInv, Shape, HeapShape

-----------------------------------------------------------------------------
(* Memory and contents.                                                    *)

Sound(p) == /\ Memory /\ Exact /\ Holds
            /\ p \in Alive => InHand(p) /\ Knows(p)

(* Who waits, or is not in a call, has nothing and knows nothing.          *)
LEMMA Idlers ==
  ASSUME NEW q, pc'[q] \in {"idle", "lock"}, given'[q] = <<>>
  PROVE  InHand(q)' /\ Knows(q)'
BY DEF InHand, Knows

LEMMA OthersWait ==
  ASSUME BufferInv, NEW p \in Alive,
         \/ pc[p] \in Inside
         \/ phase # "live" /\ pc[p] # "idle"
         \/ phase = "none"
         \/ lock \notin Alive /\ pc[p] = "lock"
         \/ \A q \in Alive : pc[q] = "idle",
         NEW q \in Alive \ {p}
  PROVE  pc[q] \in {"idle", "lock"} /\ given[q] = <<>>
<1>1. pc[q] \in {"idle", "lock"}
  <2>1. CASE pc[p] \in Inside
    <3>1. pc[q] \notin Inside
      BY <2>1 DEF BufferInv, Exclusive
    <3>2. CASE phase = "live"
      BY <3>1, <3>2 DEF BufferInv, Lives
    <3>3. CASE phase # "live"
      BY <2>1, <3>3 DEF BufferInv, Lives, Inside
    <3>4. QED  BY <3>2, <3>3
  <2>2. CASE phase # "live" /\ pc[p] # "idle"
    BY <2>2 DEF BufferInv, Lives
  <2>3. CASE phase = "none"
    BY <2>3 DEF BufferInv, Lives
  <2>4. CASE lock \notin Alive /\ pc[p] = "lock"
    <3>1. pc[q] \notin Inside
      BY <2>4 DEF BufferInv, Exclusive
    <3>2. QED  BY <2>4, <3>1 DEF BufferInv, Lives
  <2>5. CASE \A r \in Alive : pc[r] = "idle"
    BY <2>5
  <2>6. QED  BY <2>1, <2>2, <2>3, <2>4, <2>5
<1>2. QED  BY <1>1 DEF BufferInv, InHand

(* The hands of all processes after a step of p.                           *)
LEMMA HandsAfter ==
  ASSUME NEW p \in Procs, OthersKeep(p)
  PROVE  UNION {ToSet(given'[q]) : q \in Procs} =
           ToSet(given'[p]) \cup UNION {ToSet(given[q]) : q \in Procs \ {p}}
<1>1. \A q \in Procs \ {p} : ToSet(given'[q]) = ToSet(given[q])
  BY DEF OthersKeep
<1>2. QED  BY <1>1

LEMMA HandsBefore ==
  ASSUME NEW p \in Procs
  PROVE  UNION {ToSet(given[q]) : q \in Procs} =
           ToSet(given[p]) \cup UNION {ToSet(given[q]) : q \in Procs \ {p}}
OBVIOUS

(* Steps that change neither memory nor contents.                          *)
LEMMA QuietMemory ==
  ASSUME BufferInv, NEW p \in Procs, Move(p),
         UNCHANGED <<allocated, given, hdr, ptr, phase>>, damaged \subseteq damaged',
         pc[p] # "grow_data" \/ Die(p)
  PROVE  Memory'
<1>1. Buffer' = Buffer
  BY DEF Buffer
<1>2. ASSUME ~Torn', \A q \in Alive' : pc'[q] # "grow_data", phase = "live"
      PROVE  Buffer \subseteq allocated
  <2>1. ~Torn
    BY <1>2, MoveTorn DEF BufferInv
  <2>2. pc[p] # "grow_data"
    <3>1. CASE Die(p)
      BY <1>2, <3>1 DEF Die, Crash, DieInAllocator, Torn, DiedAt
    <3>2. QED  BY <3>1
  <2>3. \A q \in Alive : q # p => q \in Alive' /\ pc'[q] = pc[q]
    <3>1. \A q \in Procs \ {p} : pc'[q] = pc[q]
      BY MoveKeeps DEF BufferInv, OthersKeep
    <3>2. crashed' = crashed \/ crashed' = crashed \cup {p}
      BY DEF Move, Create, CreateHeader, CreateData, Created, Call, CallDestroy,
         Lock, Unlock, FreeInHand, DropHeader, DestroyBuffer, DestroyAll, UseRing,
         Grow, GrowAlloc, GrowFreeOld, GrowData, GrowCapacity, Push, PushCopy,
         PushCount, Reply, ReserveEnough, dynarray_get, dynarray_length, Finish,
         Die, Crash, DieInAllocator
    <3>3. QED  BY <3>1, <3>2 DEF Alive
  <2>4. \A q \in Alive : pc[q] # "grow_data"
    BY <1>2, <2>2, <2>3
  <2>5. QED  BY <1>2, <2>1, <2>4 DEF BufferInv, Memory
<1>3. phase = "none" => content' = content
  <2>1. ASSUME phase = "none" PROVE ~PushCount(p)
    BY <2>1, WorkFacts DEF Push
  <2>2. ~PushCount(p) => content' = content
    BY DEF Move, Create, CreateHeader, CreateData, Created, Call, CallDestroy,
         Lock, Unlock, FreeInHand, DropHeader, DestroyBuffer, DestroyAll, UseRing,
         Grow, GrowAlloc, GrowFreeOld, GrowData, GrowCapacity, Push, PushCopy,
         Reply, ReserveEnough, dynarray_get, dynarray_length, Finish,
         Die, Crash, DieInAllocator, ghosts
  <2>3. QED  BY <2>1, <2>2
<1>4. QED  BY <1>1, <1>2, <1>3 DEF BufferInv, Memory

LEMMA SameHolds ==
  ASSUME BufferInv, UNCHANGED <<kind, word, ptr, mem, content>>
  PROVE  Holds'
BY DEF BufferInv, Holds, Filled, Elements, Length, Capacity

LEMMA CallSound ==
  ASSUME BufferInv, NEW p \in Procs, NEW r \in Requests, Call(p, r)
  PROVE  Sound(p)'
<1>1. /\ p \in Alive /\ pc[p] = "idle" /\ phase = "live"
      /\ pc' = [pc EXCEPT ![p] = "lock"]
      /\ UNCHANGED <<kind, allocated, given, mem, hdr, word, ptr, phase, crashed,
                     content, damaged>>
  BY DEF Call, At, Alive, Goto, heap, top, ghosts
<1>2. Memory'
  BY <1>1, QuietMemory DEF Move
<1>3. Exact'
  BY <1>1 DEF BufferInv, Exact
<1>4. Holds'
  BY <1>1, SameHolds
<1>5. pc'[p] = "lock" /\ given'[p] = <<>>
  BY <1>1 DEF BufferInv, Shape, InHand
<1>6. QED  BY <1>2, <1>3, <1>4, <1>5, Idlers DEF Sound

LEMMA CallDestroySound ==
  ASSUME BufferInv, NEW p \in Procs, CallDestroy(p)
  PROVE  Sound(p)'
<1>1. /\ p \in Alive /\ phase = "live" /\ phase' = "closing"
      /\ \A q \in Alive : pc[q] = "idle"
      /\ pc' = [pc EXCEPT ![p] = "lock"]
      /\ UNCHANGED <<kind, allocated, given, mem, hdr, word, ptr, crashed,
                     content, damaged>>
  BY DEF CallDestroy, Alive, Goto, heap, top, ghosts
<1>2. Memory'
  BY <1>1 DEF BufferInv, Memory
<1>3. pc'[p] = "lock" /\ given'[p] = <<>>
      /\ \A q \in Procs \ {p} : pc'[q] = pc[q]
  BY <1>1 DEF BufferInv, Shape, InHand
<1>4. ASSUME crashed = {} PROVE allocated = {hdr} \cup Buffer /\ damaged = {}
  <2>1. ~Torn /\ Alive = Procs
    BY <1>4 DEF BufferInv, Shape, Torn, DiedAt, Alive
  <2>2. \A q \in Procs : given[q] = <<>>
    BY <1>1, <2>1 DEF BufferInv, InHand
  <2>3. UNION {ToSet(given[q]) : q \in Procs} = {}
    BY <2>2, HandFacts
  <2>4. damaged = {}
    BY <1>4 DEF BufferInv, Exact
  <2>5. Buffer \subseteq allocated /\ allocated \subseteq {hdr} \cup Buffer
        /\ hdr \in allocated
    BY <1>1, <2>1, <2>3, <2>4 DEF BufferInv, Memory
  <2>6. QED  BY <2>4, <2>5
<1>5. Exact'
  <2>1. \A q \in Procs : crashed = {} => pc'[q] \in {"idle", "lock"}
    BY <1>1, <1>3 DEF Alive
  <2>2. Buffer' = Buffer
    BY <1>1 DEF Buffer
  <2>3. QED  BY <1>1, <1>4, <2>1, <2>2 DEF Exact
<1>6. Holds'
  BY <1>1, SameHolds
<1>7. QED  BY <1>2, <1>3, <1>5, <1>6, Idlers DEF Sound

LEMMA LockSound ==
  ASSUME BufferInv, NEW p \in Procs, Lock(p)
  PROVE  Sound(p)'
<1>1. /\ p \in Alive /\ pc[p] = "lock" /\ lock \notin Alive
      /\ pc' = [pc EXCEPT ![p] = "locked"]
      /\ UNCHANGED <<kind, allocated, given, mem, hdr, word, ptr, phase, crashed,
                     content, damaged>>
  BY ProcsAssumption DEF Lock, At, Alive, Goto, heap, top, ghosts
<1>2. Memory'
  BY <1>1, QuietMemory DEF Move
<1>3. pc'[p] = "locked" /\ given'[p] = <<>>
      /\ \A q \in Procs \ {p} : pc'[q] = pc[q]
  BY <1>1 DEF BufferInv, Shape, InHand
<1>4. Exact'
  <2>1. Buffer' = Buffer
    BY <1>1 DEF Buffer
  <2>2. QED  BY <1>1, <1>3, <2>1 DEF BufferInv, Exact
<1>5. Holds'
  BY <1>1, SameHolds
<1>6. InHand(p)' /\ Knows(p)'
  BY <1>3 DEF InHand, Knows
<1>7. QED  BY <1>2, <1>4, <1>5, <1>6 DEF Sound

LEMMA UnlockSound ==
  ASSUME BufferInv, NEW p \in Procs, Unlock(p)
  PROVE  Sound(p)'
<1>1. /\ p \in Alive /\ pc[p] = "unlock" /\ given[p] = <<>>
      /\ pc' = [pc EXCEPT ![p] = IF req[p].op = "destroy" THEN "drop_header"
                                 ELSE "idle"]
      /\ given' = [given EXCEPT ![p] = <<>>]
      /\ UNCHANGED <<kind, allocated, mem, hdr, word, ptr, phase, crashed,
                     content, damaged>>
  BY DEF Unlock, Settle, Return, At, Alive, Goto, top, ghosts, BufferInv, InHand
<1>2. given' = given
  BY <1>1 DEF BufferInv, Shape
<1>3. Memory'
  BY <1>1, <1>2, QuietMemory DEF Move
<1>4. /\ pc'[p] \in {"idle", "drop_header"}
      /\ \A q \in Procs \ {p} : pc'[q] = pc[q]
      /\ pc'[p] = "drop_header" => req[p].op = "destroy"
  BY <1>1 DEF BufferInv, Shape
<1>5. Exact'
  <2>1. Buffer' = Buffer
    BY <1>1 DEF Buffer
  <2>2. QED  BY <1>1, <1>2, <1>4, <2>1 DEF BufferInv, Exact
<1>6. Holds'
  BY <1>1, SameHolds
<1>7. InHand(p)' /\ Knows(p)'
  <2>1. pc'[p] = "drop_header" => phase' # "creating"
    BY <1>1, <1>4 DEF BufferInv, Lives
  <2>2. QED  BY <1>1, <1>2, <1>4, <2>1 DEF InHand, Knows
<1>8. QED  BY <1>3, <1>5, <1>6, <1>7 DEF Sound

LEMMA CrashSound ==
  ASSUME BufferInv, NEW p \in Procs, Die(p)
  PROVE  Sound(p)'
<1>1. /\ p \notin Alive'
      /\ UNCHANGED <<kind, allocated, given, mem, hdr, word, ptr, phase, pc,
                     content>>
      /\ damaged \subseteq damaged'
  BY DEF Die, Crash, DieInAllocator, Alive, heap, top, ghosts
<1>2. Memory'
  BY <1>1, QuietMemory DEF Move
<1>3. Exact'
  BY DEF Die, Crash, DieInAllocator, Exact
<1>4. Holds'
  BY <1>1, SameHolds
<1>5. QED  BY <1>1, <1>2, <1>3, <1>4 DEF Sound

LEMMA CreateHeaderSound ==
  ASSUME BufferInv, NEW p \in Procs, CreateHeader(p)
  PROVE  Sound(p)'
<1>1. /\ Shape /\ phase = "none" /\ phase' = "creating" /\ allocated = {}
      /\ content = <<>> /\ Take(p, Blank)
      /\ UNCHANGED <<kind, crashed, content, damaged>>
      /\ hdr' = FirstFree /\ word' = FirstWords /\ ptr' = NoPtr
      /\ pc' = [pc EXCEPT ![p] = IF kind \in {"table", "ring"} THEN "create_data"
                                 ELSE "created"]
  BY DEF CreateHeader, BufferInv, Memory, ghosts, Goto
<1>2. PICK c \in Cells : c = hdr' /\ allocated' = {c}
  BY <1>1, BytesType, TakeFacts
<1>3. ptr'.data = Null /\ c # Null
  BY <1>1, CellsAssumption DEF NoPtr
<1>4. Buffer' = {}
  BY <1>3 DEF Buffer
<1>5. Memory' /\ Exact'
  BY <1>1, <1>2, <1>3, <1>4 DEF BufferInv, Memory, Exact
<1>6. Holds'
  <2>1. ASSUME kind = "array"
        PROVE  /\ Length' = 0 /\ Capacity' = 0 /\ Elements' = <<>>
               /\ content' = <<>>
    BY <1>1, <1>3, <2>1 DEF FirstWords, Length, Capacity, Elements
  <2>2. Len(<<>>) = 0
    OBVIOUS
  <2>3. QED  BY <1>1, <2>1, <2>2 DEF Holds, Filled
<1>7. pc'[p] \in {"create_data", "created"} /\ (pc'[p] = "create_data" => kind' = "ring")
  BY <1>1 DEF Shape
<1>8. InHand(p)' /\ Knows(p)'
  BY <1>3, <1>7 DEF InHand, Knows
<1>9. QED  BY <1>5, <1>6, <1>8 DEF Sound

LEMMA CreateDataSound ==
  ASSUME BufferInv, NEW p \in Procs, CreateData(p)
  PROVE  Sound(p)'
<1>1. /\ Shape /\ p \in Alive /\ pc[p] = "create_data"
      /\ UNCHANGED <<kind, hdr, word, phase, crashed, content, damaged>>
  BY DEF CreateData, BufferInv, At, Alive
<1>2. kind = "ring" /\ ptr.data = Null /\ phase = "creating"
  BY <1>1 DEF BufferInv, InHand, Lives, Inside
<1>3. allocated = {hdr}
  BY <1>2 DEF BufferInv, Memory, Buffer
<1>4. Exact'
  BY <1>1, <1>2 DEF BufferInv, Exact
<1>5. Holds'
  BY <1>1, <1>2 DEF Holds
<1>6. CASE Refused(p, "drop_header") /\ ptr' = ptr
  <2>1. allocated' = allocated /\ pc'[p] = "drop_header"
    BY <1>1, <1>6 DEF Refused, heap, Goto, Shape
  <2>2. Memory'
    BY <1>1, <1>2, <1>6, <2>1 DEF BufferInv, Memory, Buffer
  <2>3. InHand(p)' /\ Knows(p)'
    BY <1>2, <1>6, <2>1 DEF InHand, Knows
  <2>4. QED  BY <1>4, <1>5, <2>2, <2>3 DEF Sound
<1>7. CASE /\ Take(p, Bytes(FirstData)) /\ Goto(p, "created")
           /\ ptr' = [ptr EXCEPT !.data = FirstFree]
  <2>1. PICK c : /\ c = FirstFree /\ c \in Cells \ allocated
                 /\ allocated' = allocated \cup {c}
    BY <1>7 DEF Take, Allocate
  <2>2. ptr'.data = c /\ c # Null /\ c # hdr /\ pc'[p] = "created"
    BY <1>1, <1>3, <1>7, <2>1, CellsAssumption DEF Shape, Goto
  <2>3. Buffer' = {c}
    BY <2>2 DEF Buffer
  <2>4. Memory'
    BY <1>1, <1>2, <1>3, <2>1, <2>2, <2>3 DEF Memory
  <2>5. InHand(p)' /\ Knows(p)'
    BY <2>2 DEF InHand, Knows
  <2>6. QED  BY <1>4, <1>5, <2>4, <2>5 DEF Sound
<1>8. QED  BY <1>6, <1>7 DEF CreateData

LEMMA CreatedSound ==
  ASSUME BufferInv, NEW p \in Procs, Created(p)
  PROVE  Sound(p)'
<1>1. /\ Shape /\ p \in Alive /\ pc[p] = "created" /\ phase' = "live"
      /\ given' = [given EXCEPT ![p] = <<>>] /\ pc' = [pc EXCEPT ![p] = "idle"]
      /\ UNCHANGED <<kind, allocated, mem, hdr, word, ptr, crashed, content, damaged>>
  BY DEF Created, BufferInv, At, Alive, Settle, Return, Goto, top, ghosts
<1>2. phase = "creating"
  BY <1>1 DEF BufferInv, Lives, Inside
<1>3. /\ allocated = {hdr} \cup Buffer /\ hdr \in allocated
      /\ ptr.data # hdr
  BY <1>2 DEF BufferInv, Memory
<1>4. Buffer' = Buffer
  BY <1>1 DEF Buffer
<1>5. Memory' /\ Exact'
  BY <1>1, <1>3, <1>4 DEF BufferInv, Memory, Exact
<1>6. Holds'
  BY <1>1, SameHolds
<1>7. pc'[p] = "idle" /\ given'[p] = <<>>
  BY <1>1 DEF Shape
<1>8. QED  BY <1>5, <1>6, <1>7, Idlers DEF Sound

LEMMA DestroyBufferSound ==
  ASSUME BufferInv, NEW p \in Procs, DestroyBuffer(p)
  PROVE  Sound(p)'
<1>1. /\ Shape /\ p \in Alive /\ pc[p] = "locked" /\ req[p].op = "destroy"
      /\ given' = [given EXCEPT ![p] = IF ptr.data = Null THEN <<>> ELSE <<ptr.data>>]
      /\ pc' = [pc EXCEPT ![p] = "free_all"] /\ damaged' = damaged
      /\ UNCHANGED <<kind, allocated, mem, hdr, word, ptr, phase, crashed, content>>
  BY DEF DestroyBuffer, DestroyAll, BufferInv, At, Alive, Locked, Goto, top, ghosts
<1>2. phase = "closing" /\ \A q \in Alive \ {p} : pc[q] = "idle"
  BY <1>1 DEF BufferInv, Lives, Inside
<1>3. /\ pc'[p] = "free_all" /\ \A q \in Procs \ {p} : pc'[q] = pc[q]
      /\ given'[p] = IF ptr.data = Null THEN <<>> ELSE <<ptr.data>>
  BY <1>1 DEF Shape
<1>4. ToSet(given'[p]) = Buffer
  BY <1>3, HandFacts DEF Buffer
<1>5. Memory'
  BY <1>1, <1>2 DEF BufferInv, Memory
<1>6. Exact'
  <2>1. \A q \in Procs \ {p} : crashed = {} => pc'[q] = "idle"
    BY <1>2, <1>3 DEF Alive
  <2>2. QED  BY <1>1, <1>2, <1>3, <1>4, <2>1 DEF BufferInv, Exact
<1>7. Holds'
  BY <1>1, SameHolds
<1>8. InHand(p)' /\ Knows(p)'
  BY <1>1, <1>3 DEF InHand, Knows
<1>9. QED  BY <1>5, <1>6, <1>7, <1>8 DEF Sound

LEMMA FreeInHandSound ==
  ASSUME BufferInv, NEW p \in Procs, FreeInHand(p)
  PROVE  Sound(p)'
<1>1. /\ Shape /\ p \in Alive /\ pc[p] = "free_all"
      /\ UNCHANGED <<kind, mem, hdr, word, ptr, phase, crashed, content, damaged>>
  BY DEF FreeInHand, BufferInv, At, Alive, top, ghosts
<1>2. phase = "closing" /\ \A q \in Alive \ {p} : pc[q] = "idle"
  BY <1>1 DEF BufferInv, Lives, Inside, Asked
<1>3. /\ hdr \in allocated /\ ptr.data # hdr
      /\ given[p] = <<>> \/ (given[p] = <<ptr.data>> /\ ptr.data # Null)
  BY <1>1, <1>2 DEF BufferInv, Memory, InHand
<1>4. Holds'
  BY <1>1, SameHolds
<1>5. CASE given[p] = <<>>
  <2>1. pc' = [pc EXCEPT ![p] = "unlock"] /\ UNCHANGED <<allocated, given>>
    BY <1>5 DEF FreeInHand, Goto
  <2>2. pc'[p] = "unlock" /\ \A q \in Procs \ {p} : pc'[q] = pc[q]
    BY <1>1, <2>1 DEF Shape
  <2>3. Memory'
    BY <1>1, <1>2, <2>1 DEF BufferInv, Memory
  <2>4. Exact'
    <3>1. \A q \in Procs \ {p} : crashed = {} => pc'[q] = "idle"
      BY <1>2, <2>2 DEF Alive
    <3>2. crashed = {} => allocated = {hdr} /\ damaged = {}
      BY <1>1, <1>2, <1>5, HandFacts DEF BufferInv, Exact
    <3>3. QED  BY <1>1, <1>2, <2>1, <2>2, <3>1, <3>2 DEF Exact
  <2>5. InHand(p)' /\ Knows(p)'
    <3>1. req'[p] = req[p] /\ req[p].op = "destroy"
      BY <1>1 DEF FreeInHand, BufferInv, Asked
    <3>2. QED  BY <1>5, <2>1, <2>2, <3>1 DEF InHand, Knows
  <2>6. QED  BY <1>4, <2>3, <2>4, <2>5 DEF Sound
<1>6. CASE given[p] = <<ptr.data>> /\ given[p] # <<>>
  <2>1. Mine(p) = ptr.data /\ Front(given[p]) = <<>> /\ ToSet(given[p]) = {ptr.data}
    BY <1>6, HandFacts DEF Mine
  <2>2. /\ allocated' = IF ptr.data \in damaged THEN allocated
                          ELSE allocated \ {ptr.data}
        /\ pc' = pc /\ given' = [given EXCEPT ![p] = <<>>]
    BY <1>6, <2>1 DEF FreeInHand, Release, Free
  <2>3. given'[p] = <<>>
    BY <1>1, <2>2 DEF Shape
  <2>4. Memory'
    BY <1>1, <1>2, <1>3, <2>2 DEF Memory
  <2>5. Exact'
    <3>1. \A q \in Procs \ {p} : crashed = {} => pc'[q] = "idle"
      BY <1>2, <2>2 DEF Alive
    <3>2. crashed = {} => allocated' = {hdr} /\ damaged = {}
      BY <1>1, <1>2, <1>3, <2>1, <2>2 DEF BufferInv, Exact
    <3>3. QED  BY <1>1, <1>2, <2>2, <2>3, <3>1, <3>2, HandFacts DEF Exact
  <2>6. InHand(p)' /\ Knows(p)'
    BY <1>1, <2>2, <2>3 DEF InHand, Knows
  <2>7. QED  BY <1>4, <2>4, <2>5, <2>6 DEF Sound
<1>7. QED
  <2>1. <<ptr.data>> # <<>>
    OBVIOUS
  <2>2. QED  BY <1>3, <1>5, <1>6, <2>1

LEMMA DropHeaderSound ==
  ASSUME BufferInv, NEW p \in Procs, DropHeader(p)
  PROVE  Sound(p)'
<1>1. /\ Shape /\ p \in Alive /\ pc[p] = "drop_header" /\ phase' = "gone"
      /\ given' = [given EXCEPT ![p] = <<>>] /\ pc' = [pc EXCEPT ![p] = "idle"]
      /\ UNCHANGED <<kind, mem, hdr, word, ptr, crashed, damaged, content>>
      /\ allocated' \in {allocated, allocated \ {hdr}}
  BY DEF DropHeader, BufferInv, At, Alive, Return, Goto, top, ghosts, Release, Free
<1>2. phase \in {"creating", "closing"}
  BY <1>1 DEF BufferInv, Lives, Inside
<1>3. crashed = {} => allocated = {hdr} /\ damaged = {}
  <2>1. CASE phase = "creating"
    BY <1>1, <2>1 DEF BufferInv, Memory, Exact, InHand, Buffer
  <2>2. CASE phase = "closing"
    BY <1>1, <2>2 DEF BufferInv, Exact
  <2>3. QED  BY <1>2, <2>1, <2>2
<1>4. Memory' /\ Exact'
  BY <1>1, <1>3 DEF Memory, Exact
<1>5. Holds'
  BY <1>1, SameHolds
<1>6. pc'[p] = "idle" /\ given'[p] = <<>>
  BY <1>1 DEF Shape
<1>7. QED  BY <1>4, <1>5, <1>6, Idlers DEF Sound

(* Steps on a live container.                                              *)
LEMMA WorkGoes ==
  ASSUME BufferInv, NEW p \in Procs, Grow(p) \/ Push(p) \/ Reply(p) \/ UseRing(p)
  PROVE  /\ OthersKeep(p) /\ Torn' = Torn /\ Exact'
         /\ \A q \in Alive \ {p} : pc'[q] = pc[q] /\ pc[q] # "grow_data"
         /\ hdr \in allocated /\ ptr.data # hdr
         /\ allocated \subseteq {hdr} \cup Buffer \cup ToSet(given[p])
                                \cup damaged \cup UNION {ToSet(given[q]) : q \in Procs \ {p}}
<1>1. /\ p \in Alive /\ pc[p] \in Inside /\ lock = p /\ phase = "live" /\ Move(p)
      /\ UNCHANGED <<kind, req, lock, phase, crashed, hdr, damaged>>
  BY WorkFacts DEF Move
<1>2. OthersKeep(p)
  BY <1>1, MoveKeeps DEF BufferInv
<1>3. Torn' = Torn
  <2>1. spoiled' = spoiled
    BY <1>1, MoveTorn DEF BufferInv
  <2>2. \A q \in crashed : pc'[q] = pc[q]
    BY <1>1, <1>2 DEF OthersKeep, BufferInv, Shape, Alive
  <2>3. QED  BY <1>1, <2>1, <2>2 DEF Torn, DiedAt
<1>4. Exact'
  BY <1>1 DEF BufferInv, Exact
<1>5. \A q \in Alive \ {p} : pc'[q] = pc[q] /\ pc[q] # "grow_data"
  <2>1. \A q \in Alive \ {p} : pc[q] \in {"idle", "lock"}
    BY <1>1, OthersWait
  <2>2. QED  BY <1>2, <2>1 DEF OthersKeep, Alive
<1>6. QED
  BY <1>1, <1>2, <1>3, <1>4, <1>5, HandsBefore DEF BufferInv, Memory

LEMMA LiveMemory ==
  ASSUME NEW p \in Procs, OthersKeep(p), phase' = "live",
         hdr' \in allocated', ptr'.data # hdr',
         allocated' \subseteq {hdr'} \cup Buffer' \cup ToSet(given'[p])
                                \cup damaged' \cup UNION {ToSet(given[q]) : q \in Procs \ {p}},
         ~Torn' /\ (\A q \in Alive' : pc'[q] # "grow_data") => Buffer' \subseteq allocated'
  PROVE  Memory'
<1>1. UNION {ToSet(given'[q]) : q \in Procs} =
        ToSet(given'[p]) \cup UNION {ToSet(given[q]) : q \in Procs \ {p}}
  BY HandsAfter
<1>2. QED  BY <1>1 DEF Memory

LEMMA GrowAllocSound ==
  ASSUME BufferInv, NEW p \in Procs, GrowAlloc(p)
  PROVE  Sound(p)'
<1>1. /\ Shape /\ p \in Alive /\ pc[p] = "locked" /\ phase = "live" /\ Grow(p)
      /\ UNCHANGED <<kind, req, phase, crashed, hdr, damaged, word, ptr, content>>
      /\ req[p].op \in {"push", "reserve"}
  BY WorkFacts DEF GrowAlloc, Grow, MustGrow, Locked, At, BufferInv, top
<1>2. Exact'
  BY <1>1, WorkGoes
<1>3. CASE Refused(p, "unlock")
  <2>1. UNCHANGED <<allocated, given, mem>> /\ pc' = [pc EXCEPT ![p] = "unlock"]
    BY <1>3 DEF Refused, heap, Goto
  <2>2. Memory'
    BY <1>1, <2>1, QuietMemory DEF Move
  <2>3. Holds'
    BY <1>1, <2>1, SameHolds
  <2>4. pc'[p] = "unlock" /\ given'[p] = <<>>
    BY <1>1, <2>1 DEF BufferInv, Shape, InHand
  <2>5. InHand(p)' /\ Knows(p)'
    BY <1>1, <2>4 DEF InHand, Knows
  <2>6. QED  BY <1>2, <2>2, <2>3, <2>5 DEF Sound
<1>4. CASE ~Refused(p, "unlock")
  <2>1. kind = "array" /\ pc'[p] = "grow_free" /\ Target(p) > Capacity
    BY <1>4, GrowTakes
  <2>2. PICK c \in Cells \ allocated, copy \in Seq(Data) :
              /\ copy = [i \in 1 .. Target(p) |->
                          IF i <= Length THEN Elements[i] ELSE Null]
              /\ Len(copy) = Target(p) /\ allocated' = allocated \cup {c}
              /\ given' = [given EXCEPT ![p] = <<c>>]
              /\ mem' = [mem EXCEPT ![c] = Bytes(copy)]
    BY <1>4, GrowTakes
  <2>3. /\ given[p] = <<>> /\ given'[p] = <<c>> /\ ToSet(given'[p]) = {c}
        /\ ToSet(given[p]) = {} /\ Last(given'[p]) = c
    BY <1>1, <2>2, HandFacts DEF BufferInv, Shape, InHand
  <2>4. mem'[c].data = copy /\ \A d \in Cells \ {c} : mem'[d] = mem[d]
    BY <1>1, <2>2, BytesType DEF Shape
  <2>5. c # hdr /\ c # Null /\ Buffer' = Buffer
    <3>1. hdr \in allocated
      BY <1>1, WorkGoes
    <3>2. QED  BY <1>1, <2>2, <3>1, CellsAssumption DEF Buffer
  <2>6. ~Torn => Buffer \subseteq allocated
    <3>1. \A q \in Alive : pc[q] # "grow_data"
      BY <1>1, WorkGoes
    <3>2. QED  BY <1>1, <3>1 DEF BufferInv, Memory
  <2>7. Memory'
    <3>1. hdr' \in allocated' /\ ptr'.data # hdr' /\ OthersKeep(p) /\ Torn' = Torn
      BY <1>1, <2>2, WorkGoes
    <3>2. allocated' \subseteq {hdr'} \cup Buffer' \cup ToSet(given'[p])
                                \cup damaged' \cup UNION {ToSet(given[q]) : q \in Procs \ {p}}
      BY <1>1, <2>2, <2>3, <2>5, WorkGoes
    <3>3. ~Torn' => Buffer' \subseteq allocated'
      BY <2>2, <2>5, <2>6, <3>1
    <3>4. phase' = "live"
      BY <1>1
    <3>5. QED  BY <3>1, <3>2, <3>3, <3>4, LiveMemory
  <2>8. /\ Target(p)' = Target(p) /\ Capacity' = Capacity /\ Length' = Length
    BY <1>1 DEF Target, Capacity, Length
  <2>9. /\ Length = Len(content) /\ Length \in Nat /\ Capacity \in Nat
        /\ Length <= Capacity /\ Target(p) \in Nat
        /\ \A i \in 1 .. Length : copy[i] = content[i]
    <3>1. /\ Length = Len(content) /\ Length \in Nat /\ Capacity \in Nat
          /\ Length <= Capacity /\ \A i \in 1 .. Length : Elements[i] = content[i]
      BY <1>1, <2>1, Words DEF BufferInv, Holds, Filled
    <3>2. PICK n \in Nat : n = Target(p)
      BY <1>1, TargetType DEF Inside
    <3>3. \A i \in 1 .. Length : i \in 1 .. n /\ i <= Length
      BY <2>1, <3>1, <3>2
    <3>4. \A i \in 1 .. Length : copy[i] = Elements[i]
      BY <2>2, <3>2, <3>3
    <3>5. QED  BY <3>1, <3>2, <3>4
  <2>10. Filled(copy)'
    <3>1. Capacity <= Len(copy)
      BY <2>1, <2>2, <2>9
    <3>2. QED  BY <1>1, <2>8, <2>9, <3>1 DEF Filled
  <2>11. Holds'
    <3>1. CASE ptr.data = c
      <4>1. Elements' = copy
        BY <1>1, <2>4, <2>5, <3>1 DEF Elements
      <4>2. QED  BY <2>8, <2>9, <2>10, <4>1 DEF Holds, Filled
    <3>2. CASE ptr.data # c
      <4>1. Elements' = Elements
        BY <1>1, <2>4, <3>2 DEF Elements, Shape, Offsets
      <4>2. QED  BY <1>1, <2>1, <2>8, <4>1 DEF BufferInv, Holds, Filled
    <3>3. QED  BY <3>1, <3>2
  <2>12. InHand(p)'
    <3>1. ~Torn' => c \in allocated' /\ c # ptr'.data
      <4>1. Torn' = Torn
        BY <1>1, WorkGoes
      <4>2. QED  BY <1>1, <2>2, <2>5, <2>6, <4>1 DEF Buffer
    <3>2. c \in Cells \ {hdr'}
      BY <1>1, <2>2, <2>5
    <3>3. QED  BY <2>1, <2>3, <3>1, <3>2 DEF InHand
  <2>13. Knows(p)'
    <3>1. mem'[Mine(p)'].data = copy
      BY <2>3, <2>4 DEF Mine
    <3>2. Len(copy) = Target(p)' /\ Filled(copy)' /\ Target(p)' > Capacity'
      BY <2>1, <2>2, <2>8, <2>10
    <3>3. (LET k == mem[Mine(p)].data IN Len(k) = Target(p) /\ Filled(k))'
      BY <3>1, <3>2 DEF Filled
    <3>4. QED  BY <2>1, <3>2, <3>3 DEF Knows
  <2>14. QED  BY <1>2, <2>7, <2>11, <2>12, <2>13 DEF Sound
<1>5. QED  BY <1>3, <1>4

LEMMA GrowFreeOldSound ==
  ASSUME BufferInv, NEW p \in Procs, GrowFreeOld(p)
  PROVE  Sound(p)'
<1>1. /\ Shape /\ p \in Alive /\ pc[p] = "grow_free" /\ phase = "live" /\ Grow(p)
      /\ UNCHANGED <<kind, given, mem, req, phase, crashed, hdr, damaged, word, ptr,
                     content>>
      /\ allocated' = IF ptr.data \in damaged THEN allocated
                      ELSE allocated \ {ptr.data}
      /\ pc' = [pc EXCEPT ![p] = "grow_data"]
  BY WorkFacts DEF GrowFreeOld, Grow, At, BufferInv, top, ghosts, Release, Free, Goto
<1>2. Exact' /\ OthersKeep(p) /\ Torn' = Torn
  BY <1>1, WorkGoes
<1>3. Holds'
  BY <1>1, SameHolds
<1>4. pc'[p] = "grow_data"
  BY <1>1 DEF Shape
<1>5. PICK c \in Cells \ {hdr} :
        given[p] = <<c>> /\ (~Torn => c \in allocated /\ c # ptr.data)
  BY <1>1, GrowHand
<1>6. Memory'
  <2>1. hdr' \in allocated' /\ ptr'.data # hdr' /\ Buffer' = Buffer /\ p \in Alive'
    BY <1>1, WorkGoes DEF Buffer, Alive
  <2>2. allocated' \subseteq {hdr'} \cup Buffer' \cup ToSet(given'[p])
                                \cup damaged' \cup UNION {ToSet(given[q]) : q \in Procs \ {p}}
    <3>1. allocated \subseteq {hdr} \cup Buffer \cup ToSet(given[p])
                                \cup damaged \cup UNION {ToSet(given[q]) : q \in Procs \ {p}}
      BY <1>1, WorkGoes
    <3>2. QED  BY <1>1, <2>1, <3>1
  <2>3. phase' = "live"
    BY <1>1
  <2>4. QED  BY <1>2, <1>4, <2>1, <2>2, <2>3, LiveMemory
<1>7. InHand(p)'
  <2>1. /\ given'[p] = <<c>> /\ c \in Cells \ {hdr'}
        /\ ptr'.data \notin allocated' \ damaged'
        /\ ~Torn' => c \in allocated' /\ c # ptr'.data
    BY <1>1, <1>2, <1>5
  <2>2. QED  BY <1>4, <2>1 DEF InHand
<1>8. Knows(p)'
  <2>1. Knows(p)
    BY <1>1 DEF BufferInv
  <2>2. /\ Target(p)' = Target(p) /\ Capacity' = Capacity /\ Length' = Length
        /\ Mine(p)' = Mine(p)
    BY <1>1 DEF Target, Capacity, Length, Mine
  <2>3. QED  BY <1>1, <1>4, <2>1, <2>2 DEF Knows, Filled
<1>9. QED  BY <1>2, <1>3, <1>6, <1>7, <1>8 DEF Sound

LEMMA GrowDataSound ==
  ASSUME BufferInv, NEW p \in Procs, GrowData(p)
  PROVE  Sound(p)'
<1>1. /\ Shape /\ p \in Alive /\ pc[p] = "grow_data" /\ phase = "live" /\ Grow(p)
      /\ UNCHANGED <<kind, allocated, mem, req, phase, crashed, hdr, damaged, word,
                     content>>
      /\ ptr' = [ptr EXCEPT !.data = Mine(p)]
      /\ given' = [given EXCEPT ![p] = <<>>]
      /\ pc' = [pc EXCEPT ![p] = "grow_capacity"]
  BY WorkFacts DEF GrowData, Grow, At, BufferInv, ghosts, Settle, Goto
<1>2. Exact' /\ OthersKeep(p) /\ Torn' = Torn
  BY <1>1, WorkGoes
<1>3. pc'[p] = "grow_capacity" /\ given'[p] = <<>>
  BY <1>1 DEF Shape
<1>4. PICK c \in Cells \ {hdr} :
        /\ Mine(p) = c /\ ToSet(given[p]) = {c}
        /\ ~Torn => c \in allocated /\ c # ptr.data
  BY <1>1, GrowHand
<1>5. ptr'.data = c /\ c # Null /\ ptr.data \notin allocated \ damaged
  BY <1>1, <1>4, CellsAssumption DEF Shape, BufferInv, InHand
<1>6. Buffer' = {c} /\ Elements' = mem[c].data
  BY <1>1, <1>5 DEF Buffer, Elements
<1>7. Memory'
  <2>1. hdr' \in allocated' /\ ptr'.data # hdr'
    BY <1>1, <1>4, <1>5, WorkGoes
  <2>2. allocated' \subseteq {hdr'} \cup Buffer' \cup ToSet(given'[p])
                                \cup damaged' \cup UNION {ToSet(given[q]) : q \in Procs \ {p}}
    <3>1. allocated \subseteq {hdr} \cup Buffer \cup ToSet(given[p])
                                \cup damaged \cup UNION {ToSet(given[q]) : q \in Procs \ {p}}
      BY <1>1, WorkGoes
    <3>2. Buffer \cap allocated \subseteq damaged
      BY <1>5 DEF Buffer
    <3>3. \A x \in allocated :
            \/ x = hdr \/ x = c \/ x \in damaged
            \/ x \in UNION {ToSet(given[q]) : q \in Procs \ {p}}
      BY <1>4, <3>1, <3>2
    <3>4. QED  BY <1>1, <1>6, <3>3
  <2>3. phase' = "live" /\ (~Torn' => Buffer' \subseteq allocated')
    BY <1>1, <1>2, <1>4, <1>6
  <2>4. QED  BY <1>2, <2>1, <2>2, <2>3, LiveMemory
<1>8. kind = "array" /\ Length <= Capacity
  <2>1. kind = "array"
    BY <1>1, ArrayCall DEF BufferInv, Asked, Inside
  <2>2. QED  BY <2>1 DEF BufferInv, Holds
<1>9. /\ Len(mem[c].data) = Target(p) /\ Filled(mem[c].data) /\ Target(p) > Capacity
  BY <1>1, <1>4 DEF BufferInv, Knows
<1>10. Target(p)' = Target(p) /\ Capacity' = Capacity /\ Length' = Length
  BY <1>1 DEF Target, Capacity, Length
<1>11. Holds'
  BY <1>1, <1>6, <1>8, <1>9, <1>10 DEF Holds, Filled
<1>12. InHand(p)' /\ Knows(p)'
  BY <1>3, <1>6, <1>9, <1>10 DEF InHand, Knows
<1>13. QED  BY <1>2, <1>7, <1>11, <1>12 DEF Sound

LEMMA GrowCapacitySound ==
  ASSUME BufferInv, NEW p \in Procs, GrowCapacity(p)
  PROVE  Sound(p)'
<1>1. /\ Shape /\ p \in Alive /\ pc[p] = "grow_capacity" /\ phase = "live" /\ Grow(p)
      /\ UNCHANGED <<kind, allocated, given, mem, req, phase, crashed, hdr, damaged,
                     ptr, content>>
      /\ word' = [word EXCEPT ![1] = Target(p)]
      /\ \/ req[p].op = "push" /\ pc' = [pc EXCEPT ![p] = "copy"]
         \/ req[p].op # "push" /\ pc' = [pc EXCEPT ![p] = "unlock"]
  BY WorkFacts DEF GrowCapacity, Grow, At, BufferInv, heap, ghosts, Goto
<1>2. req[p].op \in {"push", "reserve"}
  BY <1>1 DEF BufferInv, Asked
<1>3. kind = "array"
  BY <1>1, <1>2, ArrayCall DEF Inside
<1>4. PICK n \in Nat : n = Target(p)
  BY <1>1, <1>2, TargetType DEF Inside
<1>5. /\ Length \in Nat /\ Capacity \in Nat /\ Length <= Capacity
      /\ Capacity < n /\ Len(Elements) = n
  BY <1>1, <1>3, <1>4, Words DEF BufferInv, Holds, Knows
<1>6. Capacity' = n /\ Length' = Length /\ Elements' = Elements
  BY <1>1, <1>4 DEF Shape, Capacity, Length, Elements
<1>7. Memory' /\ Exact'
  BY <1>1, QuietMemory, WorkGoes DEF Move
<1>8. Holds'
  <2>1. Length <= n /\ n <= Len(Elements)
    BY <1>5
  <2>2. QED  BY <1>1, <1>3, <1>6, <2>1 DEF BufferInv, Holds, Filled
<1>9. /\ given'[p] = <<>> /\ pc'[p] \in {"copy", "unlock"}
      /\ pc'[p] = "unlock" => req'[p].op = "reserve"
  BY <1>1, <1>2 DEF BufferInv, InHand, Shape
<1>10. Length < n
  BY <1>5
<1>11. InHand(p)' /\ Knows(p)'
  BY <1>6, <1>9, <1>10 DEF InHand, Knows
<1>12. QED  BY <1>7, <1>8, <1>11 DEF Sound

LEMMA PushCopySound ==
  ASSUME BufferInv, NEW p \in Procs, PushCopy(p)
  PROVE  Sound(p)'
<1>1. /\ Shape /\ p \in Alive /\ pc[p] \in {"locked", "copy"} /\ phase = "live"
      /\ Push(p)
      /\ UNCHANGED <<kind, allocated, given, req, phase, crashed, hdr, damaged,
                     ptr, word, content>>
  BY WorkFacts DEF PushCopy, Push, At, Locked, BufferInv, top, ghosts
<1>2. kind = "array" /\ ptr.data \in Cells /\ Length < Capacity /\ pc'[p] = "count"
  BY PushWrites
<1>3. PICK new \in Seq(Data) :
        /\ new = [Elements EXCEPT ![Length + 1] = req[p].value]
        /\ Len(new) = Len(Elements)
        /\ mem' = [mem EXCEPT ![ptr.data] = Bytes(new)]
  BY PushWrites
<1>4. Elements' = new /\ Capacity' = Capacity /\ Length' = Length
  <2>1. ptr.data # Null
    BY <1>2, CellsAssumption
  <2>2. mem'[ptr.data].data = new
    BY <1>1, <1>2, <1>3, BytesType DEF Shape
  <2>3. QED  BY <1>1, <2>1, <2>2 DEF Elements, Capacity, Length
<1>5. /\ Length \in Nat /\ Capacity \in Nat /\ Len(Elements) \in Nat
      /\ Capacity <= Len(Elements) /\ Elements \in Seq(Data)
      /\ Length = Len(content) /\ \A i \in 1 .. Length : Elements[i] = content[i]
  BY <1>1, <1>2, Words, ElementsType DEF BufferInv, Holds, Filled
<1>6. /\ \A i \in 1 .. Length : new[i] = Elements[i]
      /\ new[Length + 1] = req[p].value
  <2>1. DOMAIN Elements = 1 .. Len(Elements)
    BY <1>5, LenProperties
  <2>2. /\ Length + 1 \in 1 .. Len(Elements)
        /\ \A i \in 1 .. Length : i \in 1 .. Len(Elements) /\ i # Length + 1
    BY <1>2, <1>5
  <2>3. QED  BY <1>3, <2>1, <2>2
<1>7. Memory' /\ Exact'
  BY <1>1, QuietMemory, WorkGoes DEF Move
<1>8. Holds'
  <2>1. Length <= Capacity
    BY <1>2, <1>5
  <2>2. QED  BY <1>1, <1>3, <1>4, <1>5, <1>6, <2>1 DEF Holds, Filled
<1>9. given'[p] = <<>>
  BY <1>1 DEF BufferInv, InHand
<1>10. InHand(p)' /\ Knows(p)'
  BY <1>1, <1>2, <1>4, <1>6, <1>9 DEF InHand, Knows
<1>11. QED  BY <1>7, <1>8, <1>10 DEF Sound

LEMMA PushCountSound ==
  ASSUME BufferInv, NEW p \in Procs, PushCount(p)
  PROVE  Sound(p)'
<1>1. /\ Shape /\ p \in Alive /\ pc[p] = "count" /\ phase = "live" /\ Push(p)
      /\ UNCHANGED <<kind, allocated, given, mem, req, phase, crashed, hdr, damaged,
                     ptr>>
      /\ word' = [word EXCEPT ![2] = @ + 1]
      /\ content' = Append(content, req[p].value)
      /\ pc' = [pc EXCEPT ![p] = "unlock"]
  BY WorkFacts DEF PushCount, Push, At, BufferInv, heap, Goto
<1>2. req[p].op = "push" /\ req[p].value \in Values
  BY <1>1 DEF BufferInv, Asked, Inside
<1>3. kind = "array"
  BY <1>1, <1>2, ArrayCall DEF Inside
<1>4. /\ Length \in Nat /\ Capacity \in Nat /\ Length < Capacity
      /\ Elements[Length + 1] = req[p].value /\ Capacity <= Len(Elements)
      /\ Length = Len(content) /\ \A i \in 1 .. Length : Elements[i] = content[i]
  BY <1>1, <1>3, Words DEF BufferInv, Holds, Knows, Filled
<1>5. Capacity' = Capacity /\ Length' = Length + 1 /\ Elements' = Elements
  BY <1>1 DEF Shape, Capacity, Length, Elements
<1>6. /\ Len(content') = Length + 1 /\ content'[Length + 1] = req[p].value
      /\ \A i \in 1 .. Length : content'[i] = content[i]
  <2>1. content \in Seq(Values)
    BY <1>1 DEF Shape
  <2>2. QED  BY <1>1, <1>2, <1>4, <2>1, AppendProperties
<1>7. Memory' /\ Exact'
  BY <1>1, QuietMemory, WorkGoes DEF Move
<1>8. Holds'
  <2>1. \A i \in 1 .. Length + 1 : Elements[i] = content'[i]
    <3>1. \A i \in 1 .. Length + 1 : i \in 1 .. Length \/ i = Length + 1
      BY <1>4
    <3>2. QED  BY <1>4, <1>6, <3>1
  <2>2. Length + 1 <= Capacity
    BY <1>4
  <2>3. QED  BY <1>4, <1>5, <1>6, <2>1, <2>2 DEF Holds, Filled
<1>9. given'[p] = <<>> /\ pc'[p] = "unlock" /\ req'[p].op = "push"
  BY <1>1, <1>2 DEF BufferInv, InHand, Shape
<1>10. InHand(p)' /\ Knows(p)'
  BY <1>9 DEF InHand, Knows
<1>11. QED  BY <1>7, <1>8, <1>10 DEF Sound

(* Answers are what the contents say.                                      *)
LEMMA ReplySound ==
  ASSUME BufferInv, NEW p \in Procs, Reply(p)
  PROVE  Sound(p)'
<1>1. /\ Shape /\ p \in Alive /\ pc[p] = "locked" /\ phase = "live" /\ Reply(p)
      /\ UNCHANGED <<kind, allocated, given, mem, req, phase, crashed, hdr, damaged,
                     ptr, word, content>>
      /\ pc' = [pc EXCEPT ![p] = "unlock"]
      /\ req[p].op \in {"reserve", "get", "length"}
  BY WorkFacts DEF Reply, ReserveEnough, dynarray_get, dynarray_length, Finish,
     At, Locked, BufferInv, heap, top, ghosts, Goto
<1>2. kind = "array"
  BY <1>1, ArrayCall DEF Inside
<1>3. /\ Length \in Nat /\ Length = Len(content)
      /\ \A i \in 1 .. Length : Elements[i] = content[i]
  BY <1>1, <1>2, Words DEF BufferInv, Holds, Filled
<1>4. Memory' /\ Exact'
  BY <1>1, QuietMemory, WorkGoes DEF Move
<1>5. Holds'
  BY <1>1, SameHolds
<1>6. given'[p] = <<>> /\ pc'[p] = "unlock"
  BY <1>1 DEF BufferInv, InHand, Shape
<1>7. req[p].op = "get" => answer'[p] = Lookup(req[p].arg)
  <2>1. SUFFICES ASSUME req[p].op = "get"
                 PROVE  answer'[p] = Lookup(req[p].arg)
    OBVIOUS
  <2>2. PICK i \in Nat : i = req[p].arg
    BY <1>1, <2>1 DEF BufferInv, Asked, Inside
  <2>3. answer'[p] = IF i >= Length THEN Failed ELSE Append(Done, Elements[i + 1])
    BY <1>1, <2>1, <2>2 DEF Reply, ReserveEnough, dynarray_get, dynarray_length,
       Finish, Give, Locked, Shape
  <2>4. ~(i >= Length) => Elements[i + 1] = content[i + 1]
    BY <1>3
  <2>5. QED  BY <1>2, <1>3, <2>2, <2>3, <2>4 DEF Lookup
<1>8. req[p].op = "length" => answer'[p] = Append(Done, Size)
  <2>1. SUFFICES ASSUME req[p].op = "length"
                 PROVE  answer'[p] = Append(Done, Size)
    OBVIOUS
  <2>2. answer'[p] = Append(Done, Length)
    BY <1>1, <2>1 DEF Reply, ReserveEnough, dynarray_get, dynarray_length,
       Finish, Give, Locked, Shape
  <2>3. QED  BY <1>2, <1>3, <2>2 DEF Size
<1>9. InHand(p)' /\ Knows(p)'
  BY <1>1, <1>2, <1>6, <1>7, <1>8 DEF InHand, Knows, Lookup, Size
<1>10. QED  BY <1>4, <1>5, <1>9 DEF Sound

LEMMA UseRingSound ==
  ASSUME BufferInv, NEW p \in Procs, UseRing(p)
  PROVE  Sound(p)'
<1>1. /\ Shape /\ p \in Alive /\ pc[p] = "locked" /\ phase = "live"
      /\ UNCHANGED <<kind, allocated, given, mem, req, phase, crashed, hdr, damaged,
                     ptr, content>>
      /\ pc' = [pc EXCEPT ![p] = "unlock"] /\ req[p].op = "use"
  BY WorkFacts DEF UseRing, At, Locked, BufferInv, heap, ghosts, Goto
<1>2. kind = "ring"
  BY <1>1 DEF BufferInv, Asked, BufferOps, Inside, Shape
<1>3. Memory' /\ Exact' /\ Holds'
  BY <1>1, <1>2, QuietMemory, WorkGoes DEF Move, Holds
<1>4. given'[p] = <<>> /\ pc'[p] = "unlock"
  BY <1>1 DEF BufferInv, InHand, Shape
<1>5. QED  BY <1>1, <1>3, <1>4 DEF Sound, InHand, Knows

LEMMA MoveSound ==
  ASSUME BufferInv, NEW p \in Procs, Move(p)
  PROVE  Sound(p)'
BY CallSound, CallDestroySound, CreateHeaderSound, CreateDataSound, CreatedSound,
   LockSound, UnlockSound, FreeInHandSound, DropHeaderSound, DestroyBufferSound,
   UseRingSound, GrowAllocSound, GrowFreeOldSound, GrowDataSound,
   GrowCapacitySound, PushCopySound, PushCountSound, ReplySound, CrashSound
   DEF Move, Create, Grow, Push

(* What the others have in hand and know is not disturbed: either they are *)
(* not at work, or nothing but p's own call changes.                       *)
LEMMA MoveOthers ==
  ASSUME BufferInv, NEW p \in Procs, Move(p), NEW q \in Alive' \ {p}
  PROVE  InHand(q)' /\ Knows(q)'
<1>1. /\ q \in Alive \ {p} /\ pc'[q] = pc[q] /\ req'[q] = req[q]
      /\ answer'[q] = answer[q] /\ given'[q] = given[q]
  BY MoveKeeps, MoveTorn DEF BufferInv, OthersKeep, Alive
<1>2. CASE (\E r \in Requests : Call(p, r)) \/ Die(p)
  <2>1. /\ UNCHANGED <<kind, allocated, mem, hdr, word, ptr, phase, content>>
        /\ damaged \subseteq damaged'
    BY <1>2 DEF Call, Die, Crash, DieInAllocator, heap, top, ghosts
  <2>2. Torn => Torn'
    BY MoveTorn DEF BufferInv
  <2>3. InHand(q) /\ Knows(q)
    BY <1>1 DEF BufferInv
  <2>4. InHand(q)'
    BY <1>1, <2>1, <2>2, <2>3 DEF InHand
  <2>5. /\ Target(q)' = Target(q) /\ Capacity' = Capacity /\ Length' = Length
        /\ Mine(q)' = Mine(q) /\ Elements' = Elements /\ Size' = Size
    BY <1>1, <2>1 DEF Target, Capacity, Length, Mine, Elements, Size
  <2>6. Knows(q)'
    BY <1>1, <2>1, <2>3, <2>5 DEF Knows, Filled, Lookup
  <2>7. QED  BY <2>4, <2>6
<1>3. CASE ~((\E r \in Requests : Call(p, r)) \/ Die(p))
  <2>1. p \in Alive
    BY <1>3 DEF Alive, Move, Create, CreateHeader, CreateData, Created,
       CallDestroy, Lock, Unlock, FreeInHand, DropHeader, DestroyBuffer,
       DestroyAll, UseRing, Grow, GrowAlloc, GrowFreeOld, GrowData, GrowCapacity,
       Push, PushCopy, PushCount, Reply, ReserveEnough, dynarray_get,
       dynarray_length, Locked, At, MustGrow
  <2>2. \/ pc[p] \in Inside
        \/ phase # "live" /\ pc[p] # "idle"
        \/ phase = "none"
        \/ lock \notin Alive /\ pc[p] = "lock"
        \/ \A r \in Alive : pc[r] = "idle"
    <3>1. CASE Grow(p) \/ Push(p) \/ Reply(p) \/ UseRing(p)
      BY <3>1, WorkFacts
    <3>2. CASE CallDestroy(p)
      BY <3>2 DEF CallDestroy, Alive
    <3>3. CASE Lock(p)
      BY <3>3, ProcsAssumption DEF Lock, At, Alive
    <3>4. CASE Create(p)
      BY <2>1, <3>4 DEF Create, CreateHeader, CreateData, Created, At, BufferInv,
         Lives, Inside
    <3>5. CASE Unlock(p) \/ FreeInHand(p) \/ DestroyBuffer(p)
      BY <3>5 DEF Unlock, FreeInHand, DestroyBuffer, DestroyAll, Locked, At, Inside
    <3>6. CASE DropHeader(p)
      BY <2>1, <3>6 DEF DropHeader, At, BufferInv, Lives, Inside
    <3>7. QED  BY <1>3, <3>1, <3>2, <3>3, <3>4, <3>5, <3>6 DEF Move
  <2>3. pc[q] \in {"idle", "lock"} /\ given[q] = <<>>
    BY <1>1, <2>1, <2>2, OthersWait
  <2>4. QED  BY <1>1, <2>3, Idlers
<1>4. QED  BY <1>2, <1>3

LEMMA MoveInv ==
  ASSUME BufferInv, NEW p \in Procs, Move(p)
  PROVE  BufferInv'
<1>1. Shape' /\ Control' /\ Sound(p)'
  BY MoveShape, MoveControl, MoveSound
<1>2. \A q \in Alive' : InHand(q)' /\ Knows(q)'
  BY <1>1, MoveOthers DEF Sound
<1>3. QED  BY <1>1, <1>2 DEF BufferInv, Control, Sound

LEMMA StutterInv ==
  ASSUME BufferInv, UNCHANGED vars
  PROVE  BufferInv'
<1>1. /\ UNCHANGED <<kind, allocated, given, mem, hdr, word, ptr, lock, phase>>
      /\ UNCHANGED <<pc, req, answer, crashed, content, damaged, spoiled>>
  BY DEF vars, heap, top, control, ghosts
<1>2. Shape' /\ Asked' /\ Exclusive' /\ Lives'
  BY <1>1 DEF BufferInv, Shape, Asked, BufferOps, Exclusive, Lives, Alive
<1>3. Torn' = Torn /\ Buffer' = Buffer
  BY <1>1 DEF Torn, DiedAt, Buffer
<1>4. Memory' /\ Exact' /\ Holds'
  BY <1>1, <1>3, SameHolds DEF BufferInv, Memory, Exact, Alive
<1>5. ASSUME NEW q \in Alive' PROVE InHand(q)' /\ Knows(q)'
  <2>1. InHand(q) /\ Knows(q)
    BY <1>1, <1>5 DEF BufferInv, Alive
  <2>2. /\ Target(q)' = Target(q) /\ Capacity' = Capacity /\ Length' = Length
        /\ Mine(q)' = Mine(q) /\ Elements' = Elements /\ Size' = Size
    BY <1>1 DEF Target, Capacity, Length, Mine, Elements, Size
  <2>3. InHand(q)'
    BY <1>1, <1>3, <2>1 DEF InHand
  <2>4. Knows(q)'
    BY <1>1, <2>1, <2>2 DEF Knows, Filled, Lookup
  <2>5. QED  BY <2>3, <2>4
<1>6. QED  BY <1>2, <1>4, <1>5 DEF BufferInv

-----------------------------------------------------------------------------
(* BufferInv holds throughout the life of an array or a ring.              *)
THEOREM BufferInvariant ==
  Spec /\ OneBuffer => []BufferInv
<1>1. Init /\ OneBuffer => BufferInv
  BY BufferInit
<1>2. BufferInv /\ [Next]_vars => BufferInv'
  BY Moves, MoveInv, StutterInv
<1>3. QED  BY <1>1, <1>2, PTL DEF Spec

(* Whatever fails or dies, the offsets of an array or a ring, of its cells *)
(* and of the calls on it are null or name cells, and sizes are numbers.   *)
THEOREM BufferTypeCorrect ==
  Spec /\ OneBuffer => []TypeOK
<1>1. BufferInv => TypeOK
  <2>1. SUFFICES ASSUME Shape PROVE TypeOK
    BY DEF BufferInv
  <2>2. \A p \in Procs : ToSet(given[p]) \subseteq Cells
    BY <2>1, HandFacts DEF Shape
  <2>3. ptr \in [DOMAIN NoPtr -> Offsets]
    BY <2>1 DEF Shape, NoPtr
  <2>4. \A c \in Cells : \A f \in {"key", "val", "next", "prev"} : mem[c][f] \in Offsets
    BY <2>1 DEF Shape, Plain, Offsets
  <2>5. pc \in [Procs -> Labels]
    BY <2>1 DEF Shape, Labels, BufferLabels, Inside
  <2>6. QED  BY <2>1, <2>2, <2>3, <2>4, <2>5 DEF Shape, TypeOK
<1>2. QED  BY <1>1, BufferInvariant, PTL

(* When no critical section is under way, the living have nothing in hand. *)
LEMMA Resting ==
  ASSUME BufferInv, AtRest
  PROVE  /\ \A p \in Alive : pc[p] \in {"idle", "lock"} /\ given[p] = <<>>
         /\ UNION {ToSet(given[p]) : p \in Procs} = Hands
<1>1. lock \notin Alive /\ phase = "live"
  BY ProcsAssumption DEF AtRest, Alive
<1>2. \A p \in Alive : pc[p] \in {"idle", "lock"}
  BY <1>1 DEF BufferInv, Exclusive, Lives
<1>3. \A p \in Alive : given[p] = <<>>
  BY <1>2 DEF BufferInv, InHand
<1>4. \A p \in Alive : ToSet(given[p]) = {}
  BY <1>3, HandFacts
<1>5. crashed \subseteq Procs /\ Procs = Alive \cup crashed
  BY DEF BufferInv, Shape, Alive
<1>6. QED  BY <1>2, <1>3, <1>4, <1>5 DEF Hands

LEMMA BufferParts ==
  ASSUME BufferInv
  PROVE  /\ Parts = IF ptr.data = Null THEN <<>> ELSE <<ptr.data>>
         /\ ToSet(Parts) = Buffer /\ Cardinality(ToSet(Parts)) = Len(Parts)
<1>1. Parts = IF ptr.data = Null THEN <<>> ELSE <<ptr.data>>
  BY DEF BufferInv, Shape, Parts
<1>2. ToSet(Parts) = Buffer
  BY <1>1, HandFacts DEF Buffer
<1>3. Cardinality(Buffer) = Len(Parts)
  <2>1. CASE ptr.data = Null
    <3>1. Len(Parts) = 0 /\ Buffer = {}
      BY <1>1, <2>1 DEF Buffer
    <3>2. QED  BY <3>1, FS_EmptySet
  <2>2. CASE ptr.data # Null
    <3>1. Len(Parts) = 1 /\ Buffer = {ptr.data}
      BY <1>1, <2>2 DEF Buffer
    <3>2. QED  BY <3>1, FS_Singleton
  <2>3. QED  BY <2>1, <2>2
<1>4. QED  BY <1>1, <1>2, <1>3

(* For any number of processes, calls and deaths, an array or a ring that  *)
(* nobody alive is changing leads to an allocated buffer other than its    *)
(* header, at least as large as its capacity says, unless somebody died    *)
(* between the free of the old buffer and the store of the new offset in   *)
(* dynarray_grow.                                                          *)
THEOREM BufferNeverDangles ==
  Spec /\ OneBuffer => []NothingDangles
<1>1. BufferInv => NothingDangles
  <2>1. SUFFICES ASSUME BufferInv, AtRest, ~Torn
                 PROVE  /\ {hdr} \cup ToSet(Parts) \subseteq allocated
                        /\ Cardinality(ToSet(Parts)) = Len(Parts)
                        /\ hdr \notin ToSet(Parts)
                        /\ kind = "array" => Length <= Capacity /\ Capacity <= Len(Elements)
                        /\ kind # "list"
    BY DEF NothingDangles
  <2>2. \A p \in Alive : pc[p] # "grow_data"
    BY <2>1, Resting
  <2>3. hdr \in allocated /\ ptr.data # hdr /\ Buffer \subseteq allocated
    BY <2>1, <2>2 DEF BufferInv, Memory, AtRest
  <2>4. hdr \notin Buffer
    BY <2>3 DEF Buffer
  <2>5. kind = "array" => Length <= Capacity /\ Capacity <= Len(Elements)
    BY <2>1 DEF BufferInv, Holds, Filled
  <2>6. kind # "list"
    BY <2>1 DEF BufferInv, Shape
  <2>7. QED  BY <2>1, <2>3, <2>4, <2>5, <2>6, BufferParts
<1>2. QED  BY <1>1, BufferInvariant, PTL

(* No call on an array or a ring, failed or not, leaves memory behind: what*)
(* is allocated at rest is the header, the buffer, was in the hands of one *)
(* who died, or lies in the shard of one who died in the allocator; and    *)
(* destroy, or a failed create, leaves at most the header behind.          *)
THEOREM BufferNeverLeaks ==
  Spec /\ OneBuffer => []NothingLeaks
<1>1. BufferInv => NothingLeaks
  <2>1. SUFFICES ASSUME BufferInv PROVE NothingLeaks
    OBVIOUS
  <2>2. AtRest => allocated \subseteq {hdr} \cup ToSet(Parts) \cup Hands \cup damaged
    BY <2>1, Resting, BufferParts DEF BufferInv, Memory, AtRest
  <2>3. kind # "list"
    BY <2>1 DEF BufferInv, Shape
  <2>4. phase = "gone" /\ crashed = {} => allocated \subseteq {hdr}
    BY <2>1 DEF BufferInv, Exact
  <2>5. QED  BY <2>2, <2>3, <2>4 DEF NothingLeaks
<1>2. QED  BY <1>1, BufferInvariant, PTL

(* An array holds exactly the elements of the pushes that were counted, in *)
(* their order, whatever failed or died in between, and dynarray_get and   *)
(* dynarray_length answer so.                                              *)
THEOREM BufferContentsRight ==
  Spec /\ OneBuffer => []ContentsRight
<1>1. BufferInv => ContentsRight
  <2>1. SUFFICES ASSUME BufferInv PROVE ContentsRight
    OBVIOUS
  <2>2. kind \in {"array", "ring"} /\ pc \in [Procs -> BufferLabels]
        /\ crashed \subseteq Procs /\ content \in Seq(Values)
    BY <2>1 DEF BufferInv, Shape
  <2>3. ~Miscounted
    BY <2>2 DEF Miscounted, DiedAt, BufferLabels, Inside
  <2>4. Stored = content
    <3>1. CASE kind = "ring"
      BY <3>1 DEF Stored
    <3>2. CASE kind = "array"
      <4>1. Stored = SubSeq(Elements, 1, Length)
        BY <3>2 DEF Stored
      <4>2. PICK n \in Nat : n = Length
        BY <2>1, Words DEF BufferInv
      <4>3. n = Len(content) /\ \A i \in 1 .. n : Elements[i] = content[i]
        BY <2>1, <3>2, <4>2 DEF BufferInv, Holds, Filled
      <4>4. content = [i \in 1 .. n |-> content[i]]
        BY <2>2, <4>3, LenProperties
      <4>5. n <= Len(Elements) /\ Len(Elements) \in Nat /\ Elements \in Seq(Data)
        <5>1. Capacity \in Nat /\ Length <= Capacity /\ Capacity <= Len(Elements)
              /\ Len(Elements) \in Nat /\ Elements \in Seq(Data)
          BY <2>1, <3>2, Words, ElementsType DEF BufferInv, Holds, Filled
        <5>2. QED  BY <4>2, <5>1
      <4>6. SubSeq(Elements, 1, n) = [i \in 1 .. n |-> Elements[i]]
        <5>1. /\ Len(SubSeq(Elements, 1, n)) = n /\ SubSeq(Elements, 1, n) \in Seq(Data)
              /\ \A i \in 1 .. n : SubSeq(Elements, 1, n)[i] = Elements[i]
          BY <4>2, <4>5, SubSeqProperties
        <5>2. QED  BY <5>1, LenProperties
      <4>7. QED  BY <4>1, <4>2, <4>3, <4>4, <4>6
    <3>3. QED  BY <2>2, <3>1, <3>2
  <2>5. \A p \in Procs : At(p, "unlock") =>
          /\ req[p].op = "get" => answer[p] = Lookup(req[p].arg)
          /\ req[p].op = "length" => answer[p] = Append(Done, Size)
    BY <2>1 DEF BufferInv, Knows, At, Alive
  <2>6. QED  BY <2>2, <2>3, <2>4, <2>5 DEF ContentsRight
<1>2. QED  BY <1>1, BufferInvariant, PTL
============================================================================
