------------------------- MODULE AllocatorHeapProofs -------------------------
(***************************************************************************)
(* Allocator implements AbstractHeap: memory is handed to one caller at a  *)
(* time, for any number of threads and shards, with racing frees of the    *)
(* same pointer and with deaths.  AllocTake is the abstract allocation,    *)
(* FreeMark the abstract free and Unlock the return; every other step      *)
(* leaves what the callers see as it was.                                  *)
(*                                                                         *)
(* The second part shows that the free lists lose no block and that a walk *)
(* passes over no block that fits.                                         *)
(***************************************************************************)
EXTENDS AllocatorProofs, Sequences, WellFoundedInduction

\* A call that has done its work but for the unlock, and perhaps for the
\* payload offset, is at a block of the shard it has locked.
Leaving == {"fill", "unlock"}
UnlockSound == \A t \in Threads : pc[t] \in Leaving =>
  current[t] \in DOMAIN block /\ block[current[t]].shard = try_shard[t]

\* What the callers see.
Taken == {b \in DOMAIN block : block[b].flags = 0}
InHand == [t \in Threads |-> IF HasTaken(t) THEN <<current[t]>> ELSE <<>>]

\* No block becomes allocated or free, and the calls that are about to leave
\* are the same ones, at the same blocks.
SameUse ==
  /\ DOMAIN block \subseteq DOMAIN block'
  /\ \A c \in DOMAIN block : /\ block'[c].flags = block[c].flags
                             /\ block'[c].shard = block[c].shard
  /\ \A c \in DOMAIN block' \ DOMAIN block : block'[c].flags = BLOCK_FREE
SameExit(u) ==
  /\ pc'[u] \in Leaving <=> pc[u] \in Leaving
  /\ pc[u] \in Leaving =>
       current'[u] = current[u] /\ try_shard'[u] = try_shard[u]

(* Such a step of the allocator is no step of the heap.                    *)
LEMMA SameView ==
  ASSUME UnlockSound, SameUse, \A u \in Threads : SameExit(u)
  PROVE  UnlockSound' /\ Taken' = Taken /\ InHand' = InHand
<1>1. UnlockSound'
  BY DEF UnlockSound, SameUse, SameExit
<1>2. Taken' = Taken
  BY DEF Taken, SameUse, BLOCK_FREE
<1>3. ASSUME NEW u \in Threads
      PROVE  HasTaken(u)' = HasTaken(u) /\ (HasTaken(u) => current'[u] = current[u])
  <2>1. CASE pc[u] \in Leaving
    BY <2>1 DEF HasTaken, UnlockSound, SameUse, SameExit, Leaving
  <2>2. CASE pc[u] \notin Leaving
    BY <2>2 DEF HasTaken, SameExit, Leaving
  <2>3. QED  BY <2>1, <2>2
<1>4. InHand' = InHand
  BY <1>3 DEF InHand
<1>5. QED  BY <1>1, <1>2, <1>4

(* The steps that change no block: calls, rejections, locks and walks.     *)
LEMMA LocalView ==
  ASSUME IInv, UnlockSound, NEW t \in Threads,
         \/ Request(t) \/ Crash(t) \/ AllocLock(t) \/ AllocBadAlignment(t)
         \/ AllocNextBlock(t) \/ AllocMiss(t) \/ AllocFail(t) \/ FreeLock(t)
         \/ FreeMismatch(t) \/ LockOwnerDead(t)
  PROVE  UnlockSound' /\ Taken' = Taken /\ InHand' = InHand
<1> USE DEF IInv, TypeOK, shared, locks, locals, ghosts, Leaving
<1>1. block' = block
  BY DEF Request, AllocReject, AllocCall, FreeReject, FreeCall, Crash,
         AllocLock, AllocBadAlignment, AllocNextBlock, AllocMiss, AllocFail,
         FreeLock, FreeMismatch, LockOwnerDead
<1>2. SameUse
  BY <1>1 DEF SameUse
<1>3. ASSUME NEW u \in Threads PROVE SameExit(u)
  <2>1. CASE Request(t)
    BY <2>1 DEF Request, AllocReject, AllocCall, FreeReject, FreeCall, Call,
                At, Goto, Return, SameExit
  <2>2. CASE Crash(t)
    BY <2>2 DEF Crash, SameExit
  <2>3. CASE AllocLock(t) \/ AllocBadAlignment(t) \/ AllocNextBlock(t)
             \/ AllocMiss(t) \/ AllocFail(t)
    BY <2>3 DEF AllocLock, AllocBadAlignment, AllocNextBlock, AllocMiss,
                AllocFail, Visiting, At, Goto, Return, SameExit
  <2>4. CASE FreeLock(t) \/ FreeMismatch(t) \/ LockOwnerDead(t)
    BY <2>4 DEF FreeLock, FreeMismatch, LockOwnerDead, At, Goto, Return,
                SameExit
  <2>5. QED  BY <2>1, <2>2, <2>3, <2>4
<1>4. QED  BY <1>2, <1>3, SameView

(* The carve: a remainder is a new free block, and nothing else is taken   *)
(* or given back before AllocTake.                                         *)
LEMMA CarveView ==
  ASSUME IInv, Acyclic, UnlockSound, NEW t \in Threads,
         AllocSplit(t) \/ AllocWhole(t)
  PROVE  UnlockSound' /\ Taken' = Taken /\ InHand' = InHand
<1>1. /\ pc[t] = "walk" /\ pc' = [pc EXCEPT ![t] = "take"]
      /\ locals' = locals
  BY DEF AllocSplit, AllocWhole, Visiting, At, Goto
<1>2. \A u \in Threads : SameExit(u)
  BY <1>1 DEF SameExit, IInv, TypeOK, locals, Leaving
<1>3. SameUse
  <2>1. CASE AllocSplit(t)
    <3>1. PICK n : PutsInPlace(t, n)
      BY <2>1, AllocSplitStep
    <3>2. QED  BY <3>1 DEF PutsInPlace, Redirects, SameUse
  <2>2. CASE AllocWhole(t)
    BY <2>2, AllocWholeStep DEF Skips, Redirects, SameUse
  <2>3. QED  BY <2>1, <2>2
<1>4. QED  BY <1>2, <1>3, SameView

(* Another call that is about to leave is at another block.                *)
LEMMA OtherExit ==
  ASSUME IInv, UnlockSound, NEW t \in Threads,
         pc[t] \in {"take", "recheck", "clear", "push"}, NEW u \in Threads,
         pc[u] \in Leaving
  PROVE  current[u] # current[t]
BY DEF IInv, UnlockSound, CallsSound, BlockSound, MutualExclusion,
       InCriticalSection, Leaving

(* AllocTake hands out a block that nobody has.                            *)
LEMMA TakeView ==
  ASSUME IInv, UnlockSound, NEW t \in Threads, AllocTake(t)
  PROVE  UnlockSound' /\ \E c \in Heap : Abstract!Allocate(t, c)
<1> USE DEF IInv
<1>1. /\ pc[t] = "take" /\ pc' = [pc EXCEPT ![t] = "fill"]
      /\ locals' = locals
  BY DEF AllocTake, At, Goto
<1>2. PICK b \in DOMAIN block : b = current[t] /\ block[b].shard = try_shard[t]
        /\ block[b].flags = BLOCK_FREE
  BY <1>1 DEF CallsSound, BlockSound, FlightSound
<1>3. b \in Heap
  BY <1>2, BlockFacts DEF HeapInv
<1>4. /\ DOMAIN block' = DOMAIN block
      /\ block'[b].flags = 0 /\ block'[b].shard = try_shard[t]
      /\ \A c \in DOMAIN block : c # b => block'[c] = block[c]
  BY <1>2 DEF AllocTake, Header, TypeOK
<1>5. UnlockSound'
  BY <1>1, <1>2, <1>4 DEF UnlockSound, TypeOK, locals, Leaving
<1>6. Taken' = Taken \cup {b} /\ b \notin Taken
  BY <1>2, <1>4 DEF Taken, BLOCK_FREE
<1>7. ~HasTaken(t) /\ HasTaken(t)' /\ current'[t] = b
  BY <1>1, <1>2, <1>4 DEF HasTaken, TypeOK, locals
<1>8. ASSUME NEW u \in Threads, u # t
      PROVE  HasTaken(u)' = HasTaken(u) /\ current'[u] = current[u]
  <2>1. CASE pc[u] \in Leaving
    BY <2>1, <1>1, <1>2, <1>4, <1>8, OtherExit
       DEF HasTaken, UnlockSound, TypeOK, locals, Leaving
  <2>2. CASE pc[u] \notin Leaving
    BY <2>2, <1>1, <1>8 DEF HasTaken, TypeOK, locals, Leaving
  <2>3. QED  BY <2>1, <2>2
<1>9. InHand' = [InHand EXCEPT ![t] = Append(@, b)]
  <2>1. InHand[t] = <<>> /\ InHand'[t] = <<b>>
    BY <1>7 DEF InHand
  <2>2. \A u \in Threads : u # t => InHand'[u] = InHand[u]
    BY <1>8 DEF InHand
  <2>3. InHand' = [InHand EXCEPT ![t] = <<b>>]
    BY <2>1, <2>2 DEF InHand
  <2>4. Append(InHand[t], b) = <<b>>
    BY <2>1
  <2>5. QED  BY <2>3, <2>4
<1>10. QED
  BY <1>2, <1>3, <1>5, <1>6, <1>9 DEF Abstract!Allocate, Taken, InHand, Heap

(* FreeMark takes the block back.                                          *)
LEMMA MarkView ==
  ASSUME IInv, UnlockSound, NEW t \in Threads, FreeMark(t)
  PROVE  /\ UnlockSound'
         /\ \E c \in Heap : Abstract!Free(c)
         /\ InHand' = InHand
<1> USE DEF IInv
<1>1. /\ pc[t] = "recheck" /\ pc' = [pc EXCEPT ![t] = "clear"]
      /\ locals' = locals
  BY DEF FreeMark, At, Goto
<1>2. PICK b \in DOMAIN block : b = current[t] /\ block[b].shard = try_shard[t]
  BY <1>1 DEF CallsSound, BlockSound
<1>3. b \in Heap
  BY <1>2, BlockFacts DEF HeapInv
<1>4. /\ DOMAIN block' = DOMAIN block
      /\ block'[b].flags = BLOCK_FREE
      /\ \A c \in DOMAIN block : c # b => block'[c] = block[c]
  BY <1>2 DEF FreeMark, TypeOK, Headers
<1>5. \A u \in Threads : /\ SameExit(u)
                         /\ pc[u] \in Leaving => current[u] # b
  BY <1>1, <1>2, OtherExit DEF SameExit, TypeOK, locals, Leaving
<1>6. UnlockSound'
  BY <1>4, <1>5 DEF UnlockSound, SameExit
<1>7. Taken' = Taken \ {b}
  BY <1>4 DEF Taken, BLOCK_FREE
<1>8. ASSUME NEW u \in Threads
      PROVE  HasTaken(u)' = HasTaken(u) /\ (HasTaken(u) => current'[u] = current[u])
  BY <1>4, <1>5 DEF HasTaken, UnlockSound, SameExit, Leaving
<1>9. InHand' = InHand
  BY <1>8 DEF InHand
<1>10. QED  BY <1>2, <1>3, <1>6, <1>7, <1>9 DEF Abstract!Free, Taken

(* AllocFill and FreeClear store no flags.                                 *)
LEMMA HeaderView ==
  ASSUME IInv, UnlockSound, NEW t \in Threads, AllocFill(t) \/ FreeClear(t)
  PROVE  UnlockSound' /\ Taken' = Taken /\ InHand' = InHand
<1>1. /\ locals' = locals
      /\ \/ pc[t] = "fill" /\ pc' = [pc EXCEPT ![t] = "unlock"]
         \/ pc[t] = "clear" /\ pc' = [pc EXCEPT ![t] = "push"]
  BY DEF AllocFill, FreeClear, At, Goto
<1>2. \A u \in Threads : SameExit(u)
  BY <1>1 DEF SameExit, IInv, TypeOK, locals, Leaving
<1>3. PICK b \in DOMAIN block : b = current[t]
  BY <1>1 DEF IInv, CallsSound, BlockSound
<1>4. block[b] \in Headers
  BY DEF IInv, TypeOK
<1>5. /\ DOMAIN block' = DOMAIN block
      /\ \A c \in DOMAIN block \ {b} : block'[c] = block[c]
      /\ block'[b].flags = block[b].flags /\ block'[b].shard = block[b].shard
  BY <1>3, <1>4 DEF AllocFill, FreeClear, IInv, TypeOK, Headers
<1>6. SameUse
  BY <1>5 DEF SameUse
<1>7. QED  BY <1>2, <1>6, SameView

(* FreePush links the block, which is free.                                *)
LEMMA PushView ==
  ASSUME IInv, UnlockSound, NEW t \in Threads, FreePush(t)
  PROVE  UnlockSound' /\ Taken' = Taken /\ InHand' = InHand
<1> USE DEF IInv
<1>1. /\ pc[t] = "push" /\ pc' = [pc EXCEPT ![t] = "unlock"]
      /\ locals' = locals /\ block' = block
  BY DEF FreePush, At, Goto
<1>2. current[t] \in DOMAIN block /\ block[current[t]].shard = try_shard[t]
      /\ block[current[t]].flags = BLOCK_FREE
  BY <1>1 DEF CallsSound, BlockSound, FlightSound
<1>3. UnlockSound'
  BY <1>1, <1>2 DEF UnlockSound, TypeOK, locals, Leaving
<1>4. Taken' = Taken
  BY <1>1 DEF Taken
<1>5. ASSUME NEW u \in Threads
      PROVE  HasTaken(u)' = HasTaken(u) /\ current'[u] = current[u]
  BY <1>1, <1>2 DEF HasTaken, TypeOK, locals, BLOCK_FREE
<1>6. InHand' = InHand
  BY <1>5 DEF InHand
<1>7. QED  BY <1>3, <1>4, <1>6

(* Unlock ends the call.                                                   *)
LEMMA UnlockView ==
  ASSUME IInv, UnlockSound, NEW t \in Threads, Unlock(t)
  PROVE  UnlockSound' /\ Abstract!Settle(t)
<1> USE DEF IInv
<1>1. /\ pc' = [pc EXCEPT ![t] = "idle"]
      /\ locals' = locals /\ block' = block
  BY DEF Unlock, Return, Goto, shared
<1>2. UnlockSound'
  BY <1>1 DEF UnlockSound, TypeOK, locals, Leaving
<1>3. Taken' = Taken
  BY <1>1 DEF Taken
<1>4. ~HasTaken(t)' /\ \A u \in Threads : u # t =>
        HasTaken(u)' = HasTaken(u) /\ current'[u] = current[u]
  BY <1>1 DEF HasTaken, TypeOK, locals
<1>5. InHand' = [InHand EXCEPT ![t] = <<>>]
  BY <1>4 DEF InHand
<1>6. QED  BY <1>2, <1>3, <1>5 DEF Abstract!Settle, Taken, InHand

(* After allocator_init no block is allocated and no call has one.         *)
LEMMA InitView ==
  ASSUME Init
  PROVE  UnlockSound /\ Abstract!HeapInit
<1>1. UnlockSound /\ \A t \in Threads : ~HasTaken(t)
  BY DEF Init, UnlockSound, HasTaken, Leaving
<1>2. \A b \in DOMAIN block : block[b].flags = BLOCK_FREE
  BY DEF Init, Header
<1>3. Taken = {}
  BY <1>2 DEF Taken, BLOCK_FREE
<1>4. InHand = [t \in Threads |-> <<>>]
  BY <1>1 DEF InHand
<1>5. QED  BY <1>1, <1>3, <1>4 DEF Abstract!HeapInit, Taken, InHand

(* Every step of the allocator is a step of the heap, or none.             *)
LEMMA StepView ==
  ASSUME IInv, Acyclic, UnlockSound, [Next]_vars
  PROVE  /\ UnlockSound'
         /\ Abstract!HeapNext \/ (Taken' = Taken /\ InHand' = InHand)
<1>1. CASE UNCHANGED vars
  BY <1>1 DEF vars, shared, locals, UnlockSound, Taken, InHand, HasTaken
<1>2. CASE Next
  <2>1. PICK t \in Threads : Request(t) \/ Step(t) \/ Crash(t)
    BY <1>2 DEF Next
  <2>2. CASE \/ Request(t) \/ Crash(t) \/ AllocLock(t) \/ AllocBadAlignment(t)
             \/ AllocNextBlock(t) \/ AllocMiss(t) \/ AllocFail(t)
             \/ FreeLock(t) \/ FreeMismatch(t) \/ LockOwnerDead(t)
    BY <2>2, LocalView
  <2>3. CASE AllocSplit(t) \/ AllocWhole(t)
    BY <2>3, CarveView
  <2>4. CASE AllocTake(t)
    BY <2>4, TakeView DEF Abstract!HeapNext, Heap
  <2>5. CASE FreeMark(t)
    BY <2>5, MarkView DEF Abstract!HeapNext, Heap, InHand
  <2>6. CASE FreePush(t)
    BY <2>6, PushView
  <2>7. CASE Unlock(t)
    BY <2>7, UnlockView DEF Abstract!HeapNext
  <2>8. CASE AllocFill(t) \/ FreeClear(t)
    BY <2>8, HeaderView
  <2>9. QED
    BY <2>1, <2>2, <2>3, <2>4, <2>5, <2>6, <2>7, <2>8
       DEF Step, AllocStep, FreeStep
<1>3. QED  BY <1>1, <1>2

(* allocator_alloc and allocator_free keep their promise to the object     *)
(* store and the containers: no block is handed to a second caller before  *)
(* it was freed, and an allocated block becomes free by a free alone.      *)
THEOREM AllocatorImplementsHeap ==
  ASSUME RequestsFit
  PROVE  Spec => ImplementsHeap
<1>1. IInv /\ Acyclic /\ UnlockSound /\ [Next]_vars =>
        /\ UnlockSound'
        /\ Abstract!HeapNext \/ (Taken' = Taken /\ InHand' = InHand)
  BY StepView
<1>2. Init => UnlockSound /\ Abstract!HeapInit
  BY InitView
<1> DEFINE seen == <<{b \in DOMAIN block : block[b].flags = 0},
                     [t \in Threads |-> IF HasTaken(t) THEN <<current[t]>>
                                        ELSE <<>>]>>
<1>3. IInv /\ Acyclic /\ UnlockSound /\ [Next]_vars => [Abstract!HeapNext]_seen
  BY <1>1 DEF Taken, InHand
<1>4. QED
  BY AllocatorInvariant, <1>1, <1>2, <1>3, PTL
     DEF Spec, ImplementsHeap, Abstract!HeapSpec
-----------------------------------------------------------------------------
(* No free block is lost, and no block that fits is passed over.           *)

\* d counts links from a head: every linked block is the head of its shard's
\* list, or a linked block that is nearer to the head links to it.
Depths(d) ==
  /\ d \in [DOMAIN block -> Nat]
  /\ \A b \in DOMAIN block : Linked(b) /\ heads[block[b].shard] # b =>
       \E c \in DOMAIN block :
         Linked(c) /\ block[c].next_free = b /\ d[c] < d[b]
AllReached == \E d : Depths(d)

(* Any nonempty set of blocks has one that is nearest to a head.           *)
LEMMA Nearest ==
  ASSUME NEW D, NEW d \in [D -> Nat], NEW S, S \subseteq D, S # {}
  PROVE  \E b \in S : \A c \in S : d[b] <= d[c]
<1>1. PICK R : R = {ss \in Nat \X Nat : ss[1] < ss[2]}
  OBVIOUS
<1>2. IsWellFoundedOn(R, Nat)
  BY <1>1, NatLessThanWellFounded DEF OpToRel
<1>3. PICK N : N = {d[b] : b \in S}
  OBVIOUS
<1>4. N \subseteq Nat /\ N # {}
  BY <1>3
<1>5. PICK i \in N : \A j \in N : ~(<<j, i>> \in R)
  BY <1>2, <1>4, WFMin
<1>6. ASSUME NEW j \in N PROVE i <= j
  <2>1. i \in Nat /\ j \in Nat
    BY <1>4
  <2>2. <<j, i>> \in Nat \X Nat /\ <<j, i>>[1] = j /\ <<j, i>>[2] = i
    BY <2>1
  <2>3. ~(<<j, i>>[1] < <<j, i>>[2])
    BY <1>1, <1>5, <2>2, Zenon
  <2>4. QED  BY <2>1, <2>2, <2>3
<1>7. QED  BY <1>3, <1>6

(* A set that the links of a shard do not lead out of, from the head to    *)
(* the end, has every block of the shard that anyone could take.           *)
LEMMA ListCovers ==
  ASSUME IInv, AllReached, NEW s \in Shards, NEW S,
         HoldsUpTo(S, s, Null), NEW b, Linked(b), block[b].shard = s
  PROVE  b \in S
<1>1. PICK d : Depths(d)
  BY DEF AllReached
<1>2. PICK U : U = {c \in DOMAIN block :
                      Linked(c) /\ block[c].shard = s /\ c \notin S}
  OBVIOUS
<1> SUFFICES ASSUME b \notin S PROVE FALSE
  OBVIOUS
<1>3. U \subseteq DOMAIN block /\ U # {}
  BY <1>2 DEF Linked
<1>4. PICK c \in U : \A e \in U : d[c] <= d[e]
  BY <1>1, <1>3, Nearest DEF Depths
<1>5. c \in DOMAIN block /\ Linked(c) /\ block[c].shard = s /\ c \notin S /\ c # Null
  BY <1>2, <1>4, BlockFacts DEF IInv, HeapInv
<1>6. heads[s] # c
  BY <1>5 DEF HoldsUpTo
<1>7. PICK e \in DOMAIN block : Linked(e) /\ block[e].next_free = c /\ d[e] < d[c]
  BY <1>1, <1>5, <1>6 DEF Depths
<1>8. block[e].shard = s
  BY <1>5, <1>7 DEF IInv, HeapInv, FreeListsSound
<1>9. e \notin S
  BY <1>5, <1>7 DEF HoldsUpTo
<1>10. e \in U /\ d[e] \in Nat /\ d[c] \in Nat
  BY <1>1, <1>2, <1>5, <1>7, <1>8, <1>9 DEF Depths
<1>11. QED  BY <1>4, <1>7, <1>10

LEMMA SameReached ==
  ASSUME AllReached, heads' = heads, DOMAIN block' = DOMAIN block,
         \A c : Linked(c)' <=> Linked(c),
         \A c : Linked(c) => block'[c] = block[c]
  PROVE  AllReached'
<1>1. PICK d : Depths(d)
  BY DEF AllReached
<1>2. Depths(d)'
  BY <1>1 DEF Depths
<1>3. QED  BY <1>2 DEF AllReached

(* A pushed block is the new head, one link in front of the old one.       *)
LEMMA PushReached ==
  ASSUME IInv, AllReached, NEW t \in Threads, FreePush(t)
  PROVE  AllReached'
<1> USE DEF IInv
<1>1. PICK b \in DOMAIN block : b = current[t] /\ block[b].shard = try_shard[t]
  BY DEF FreePush, At, CallsSound, BlockSound
<1>2. /\ block' = block /\ ~Linked(b) /\ Linked(b)'
      /\ \A c : Linked(c)' <=> (Linked(c) \/ c = b)
      /\ block[b].next_free = heads[try_shard[t]] /\ try_shard[t] \in Shards
      /\ heads' = [heads EXCEPT ![try_shard[t]] = b]
  BY <1>1, FreePushStep DEF TypeOK, FreePush
<1>3. PICK d : Depths(d)
  BY DEF AllReached
<1>4. PICK e : e = [c \in DOMAIN block |-> IF c = b THEN 0 ELSE d[c] + 1]
  OBVIOUS
<1>5. /\ e \in [DOMAIN block -> Nat] /\ e[b] = 0
      /\ \A c \in DOMAIN block \ {b} : e[c] = d[c] + 1 /\ d[c] \in Nat
  BY <1>3, <1>4 DEF Depths
<1>6. ASSUME NEW x \in DOMAIN block, Linked(x)', heads'[block[x].shard] # x
      PROVE  \E c \in DOMAIN block :
               Linked(c)' /\ block[c].next_free = x /\ e[c] < e[x]
  <2>1. x # b /\ Linked(x) /\ block[x].shard \in Shards
    BY <1>1, <1>2, <1>6 DEF TypeOK, Headers
  <2>2. CASE heads[block[x].shard] = x
    <3>1. block[x].shard = try_shard[t]
      BY <1>2, <1>6, <2>1, <2>2 DEF TypeOK
    <3>2. block[b].next_free = x /\ e[b] < e[x]
      BY <1>2, <1>5, <2>1, <2>2, <3>1
    <3>3. QED  BY <1>2, <3>2
  <2>3. CASE heads[block[x].shard] # x
    <3>1. PICK c \in DOMAIN block :
            Linked(c) /\ block[c].next_free = x /\ d[c] < d[x]
      BY <1>3, <2>1, <2>3 DEF Depths
    <3>2. c # b /\ e[c] < e[x]
      BY <1>2, <1>5, <2>1, <3>1
    <3>3. QED  BY <1>2, <3>1, <3>2
  <2>4. QED  BY <2>2, <2>3
<1>7. Depths(e)'
  BY <1>2, <1>5, <1>6 DEF Depths
<1>8. QED  BY <1>7 DEF AllReached

(* A remainder takes the place of the block it was split off.              *)
LEMMA SplitReached ==
  ASSUME IInv, Acyclic, AllReached, NEW t \in Threads, AllocSplit(t)
  PROVE  AllReached'
<1> USE DEF IInv
<1>1. pc[t] = "walk" /\ current[t] # Null
  BY DEF AllocSplit, Visiting, At
<1>2. PICK b \in DOMAIN block : b = current[t] /\ Linked(b)
                              /\ block[b].shard = try_shard[t]
  BY <1>1, WalkFacts
<1>3. PICK n : PutsInPlace(t, n)
  BY AllocSplitStep
<1>4. /\ block[b].next_free # b
      /\ link[t] = Null => heads[try_shard[t]] = b
      /\ link[t] # Null => Linked(link[t]) /\ link[t] # b
                           /\ block[link[t]].next_free = b
                           /\ \A r \in Shards : heads[r] # b
      /\ \A c : Linked(c) /\ c # link[t] => block[c].next_free # b
  BY <1>1, <1>2, WalkLink
<1>5. /\ \A c : Linked(c)' <=> (Linked(c) /\ c # b) \/ c = n
      /\ DOMAIN block' = DOMAIN block \cup {n} /\ n \notin DOMAIN block
      /\ block'[n].next_free = block[b].next_free
      /\ block'[n].shard = try_shard[t]
      /\ \A c \in DOMAIN block : block'[c].shard = block[c].shard
      /\ \A c \in DOMAIN block : block'[c].next_free =
           IF c = link[t] THEN n ELSE block[c].next_free
      /\ \A r \in Shards : heads'[r] =
           IF link[t] = Null /\ r = try_shard[t] THEN n ELSE heads[r]
      /\ try_shard[t] \in Shards /\ Null \notin DOMAIN block
  BY <1>2, <1>3, BlockFacts DEF PutsInPlace, Redirects, TypeOK, HeapInv
<1>6. PICK d : Depths(d)
  BY DEF AllReached
<1>7. PICK e : e = [c \in DOMAIN block' |-> IF c = n THEN d[b] ELSE d[c]]
  OBVIOUS
<1>8. /\ e \in [DOMAIN block' -> Nat] /\ e[n] = d[b]
      /\ \A c \in DOMAIN block : e[c] = d[c]
  BY <1>2, <1>5, <1>6, <1>7 DEF Depths
<1>9. ASSUME NEW x \in DOMAIN block', Linked(x)', heads'[block'[x].shard] # x
      PROVE  \E c \in DOMAIN block' :
               Linked(c)' /\ block'[c].next_free = x /\ e[c] < e[x]
  <2>1. CASE x = n
    <3>1. link[t] # Null
      BY <1>5, <1>9, <2>1
    <3>2. PICK c \in DOMAIN block :
            Linked(c) /\ block[c].next_free = b /\ d[c] < d[b]
      BY <1>2, <1>4, <1>5, <1>6, <3>1 DEF Depths
    <3>3. c = link[t] /\ c # b
      BY <1>4, <3>2
    <3>4. QED  BY <1>5, <1>8, <2>1, <3>2, <3>3
  <2>2. CASE x # n
    <3>1. Linked(x) /\ x # b /\ x \in DOMAIN block /\ block'[x].shard = block[x].shard
          /\ block[x].shard \in Shards
      BY <1>5, <1>9, <2>2 DEF TypeOK, Headers
    <3>2. heads[block[x].shard] # x
      BY <1>2, <1>4, <1>5, <1>9, <3>1
    <3>3. PICK c \in DOMAIN block :
            Linked(c) /\ block[c].next_free = x /\ d[c] < d[x]
      BY <1>6, <3>1, <3>2 DEF Depths
    <3>4. CASE c = b
      BY <1>5, <1>8, <3>1, <3>3, <3>4
    <3>5. CASE c # b
      <4>1. c # link[t]
        BY <1>4, <1>5, <3>1, <3>3 DEF Linked
      <4>2. QED  BY <1>5, <1>8, <3>1, <3>3, <3>5, <4>1
    <3>6. QED  BY <3>4, <3>5
  <2>3. QED  BY <2>1, <2>2
<1>10. Depths(e)'
  BY <1>8, <1>9 DEF Depths
<1>11. QED  BY <1>10 DEF AllReached

(* The block behind the one that is taken whole gets its link.             *)
LEMMA SkipReached ==
  ASSUME IInv, Acyclic, AllReached, NEW t \in Threads, AllocWhole(t)
  PROVE  AllReached'
<1> USE DEF IInv
<1>1. pc[t] = "walk" /\ current[t] # Null
  BY DEF AllocWhole, Visiting, At
<1>2. PICK b \in DOMAIN block : b = current[t] /\ Linked(b)
                              /\ block[b].shard = try_shard[t]
  BY <1>1, WalkFacts
<1>3. PICK n : n = block[b].next_free
  OBVIOUS
<1>4. /\ n # b
      /\ link[t] = Null => heads[try_shard[t]] = b
      /\ link[t] # Null => Linked(link[t]) /\ link[t] # b
                           /\ block[link[t]].next_free = b
                           /\ \A r \in Shards : heads[r] # b
      /\ \A c : Linked(c) /\ c # link[t] => block[c].next_free # b
  BY <1>1, <1>2, <1>3, WalkLink
<1>5. /\ \A c : Linked(c)' <=> Linked(c) /\ c # b
      /\ DOMAIN block' = DOMAIN block
      /\ \A c \in DOMAIN block : block'[c].shard = block[c].shard
      /\ \A c \in DOMAIN block : block'[c].next_free =
           IF c = link[t] THEN n ELSE block[c].next_free
      /\ \A r \in Shards : heads'[r] =
           IF link[t] = Null /\ r = try_shard[t] THEN n ELSE heads[r]
      /\ try_shard[t] \in Shards /\ Null \notin DOMAIN block
  BY <1>2, <1>3, AllocWholeStep, BlockFacts DEF Skips, Redirects, TypeOK, HeapInv
<1>6. PICK d : Depths(d)
  BY DEF AllReached
<1>7. ASSUME NEW x \in DOMAIN block, Linked(x)', heads'[block[x].shard] # x
      PROVE  \E c \in DOMAIN block :
               Linked(c)' /\ block'[c].next_free = x /\ d[c] < d[x]
  <2>1. Linked(x) /\ x # b /\ block[x].shard \in Shards
    BY <1>5, <1>7 DEF TypeOK, Headers
  <2>2. heads[block[x].shard] # x
    BY <1>2, <1>4, <1>5, <1>7, <2>1
  <2>3. PICK c \in DOMAIN block :
          Linked(c) /\ block[c].next_free = x /\ d[c] < d[x]
    BY <1>6, <2>1, <2>2 DEF Depths
  <2>4. CASE c = b
    <3>1. x = n /\ block[x].shard = try_shard[t]
      BY <1>2, <1>3, <1>5, <2>1, <2>3, <2>4 DEF HeapInv, FreeListsSound
    <3>2. link[t] # Null
      BY <1>5, <1>7, <3>1
    <3>3. PICK a \in DOMAIN block :
            Linked(a) /\ block[a].next_free = b /\ d[a] < d[b]
      BY <1>2, <1>4, <1>5, <1>6, <3>2 DEF Depths
    <3>4. a = link[t] /\ a # b
      BY <1>3, <1>4, <3>3
    <3>5. d[a] \in Nat /\ d[b] \in Nat /\ d[x] \in Nat
      BY <1>6 DEF Depths
    <3>6. d[a] < d[x]
      BY <2>3, <2>4, <3>3, <3>5
    <3>7. QED  BY <1>5, <3>1, <3>3, <3>4, <3>6
  <2>5. CASE c # b
    <3>1. c # link[t]
      BY <1>4, <1>5, <2>1, <2>3 DEF Linked
    <3>2. QED  BY <1>5, <2>3, <2>5, <3>1
  <2>6. QED  BY <2>4, <2>5
<1>8. Depths(d)'
  BY <1>5, <1>6, <1>7 DEF Depths
<1>9. QED  BY <1>8 DEF AllReached
(* A store of thread t leaves the lists of the other shards alone.         *)
LEMMA OtherLists ==
  ASSUME IInv, Acyclic, NEW t \in Threads,
         \/ AllocSplit(t) \/ AllocWhole(t) \/ AllocTake(t) \/ AllocFill(t)
         \/ FreeMark(t) \/ FreeClear(t) \/ FreePush(t),
         NEW c, Linked(c), block[c].shard # try_shard[t]
  PROVE  Linked(c)' /\ block'[c] = block[c]
<1> USE DEF IInv
<1>1. c \in DOMAIN block /\ Confined(t)
  BY HeapStep DEF Linked, StoresInShard
<1>2. CASE AllocSplit(t)
  <2>1. current[t] # c
    BY <1>2, WalkFacts DEF AllocSplit, Visiting, At
  <2>2. PICK n : PutsInPlace(t, n)
    BY <1>2, AllocSplitStep
  <2>3. QED  BY <1>1, <2>1, <2>2 DEF PutsInPlace, Redirects, Confined
<1>3. CASE AllocWhole(t)
  <2>1. current[t] # c
    BY <1>3, WalkFacts DEF AllocWhole, Visiting, At
  <2>2. QED  BY <1>1, <1>3, <2>1, AllocWholeStep DEF Skips, Redirects, Confined
<1>4. CASE AllocTake(t) \/ AllocFill(t)
  BY <1>4, AllocTakeStep, AllocFillStep
<1>5. CASE FreeMark(t) \/ FreeClear(t)
  BY <1>5, FreeMarkStep, FreeClearStep
<1>6. CASE FreePush(t)
  BY <1>6, FreePushStep
<1>7. QED  BY <1>2, <1>3, <1>4, <1>5, <1>6

LEMMA ReachedStep ==
  ASSUME IInv, Acyclic, AllReached, NEW t \in Threads,
         \/ AllocSplit(t) \/ AllocWhole(t) \/ AllocTake(t) \/ AllocFill(t)
         \/ FreeMark(t) \/ FreeClear(t) \/ FreePush(t)
  PROVE  AllReached'
<1>1. CASE AllocTake(t) \/ AllocFill(t)
  <2>1. heads' = heads
    BY <1>1 DEF AllocTake, AllocFill
  <2>2. QED  BY <1>1, <2>1, AllocTakeStep, AllocFillStep, SameReached
<1>2. CASE FreeMark(t) \/ FreeClear(t)
  <2>1. heads' = heads
    BY <1>2 DEF FreeMark, FreeClear
  <2>2. QED  BY <1>2, <2>1, FreeMarkStep, FreeClearStep, SameReached
<1>3. QED  BY <1>1, <1>2, SplitReached, SkipReached, PushReached

-----------------------------------------------------------------------------
\* The walk of thread t has left behind blocks that are too small, and the
\* links lead through them to the block it is at.
Scanned(t) ==
  pc[t] = "walk" => \E P \in SUBSET DOMAIN block :
    /\ HoldsUpTo(P, try_shard[t], current[t])
    /\ \A p \in P : /\ Linked(p) /\ block[p].shard = try_shard[t]
                    /\ block[p].size < RequiredSize(p, size[t], alignment[t])

LEMMA ScanKept ==
  ASSUME NEW u \in Threads, Scanned(u), SameLocals(u),
         pc[u] = "walk" => heads'[try_shard[u]] = heads[try_shard[u]],
         \A c : pc[u] = "walk" /\ Linked(c) /\ block[c].shard = try_shard[u]
                => Linked(c)' /\ block'[c] = block[c]
  PROVE  Scanned(u)'
<1> SUFFICES ASSUME pc'[u] = "walk" PROVE Scanned(u)'
  BY DEF Scanned
<1>1. pc[u] = "walk"
  BY DEF SameLocals
<1>2. PICK P \in SUBSET DOMAIN block :
        /\ HoldsUpTo(P, try_shard[u], current[u])
        /\ \A p \in P : /\ Linked(p) /\ block[p].shard = try_shard[u]
                        /\ block[p].size < RequiredSize(p, size[u], alignment[u])
  BY <1>1 DEF Scanned
<1>3. \A p \in P : Linked(p)' /\ block'[p] = block[p]
  BY <1>1, <1>2
<1>4. P \in SUBSET DOMAIN block'
  BY <1>3 DEF Linked
<1>5. HoldsUpTo(P, try_shard[u], current[u])'
  BY <1>1, <1>2, <1>3 DEF HoldsUpTo, SameLocals
<1>6. \A p \in P : /\ Linked(p)' /\ block'[p].shard = try_shard'[u]
                   /\ block'[p].size < RequiredSize(p, size'[u], alignment'[u])
  BY <1>2, <1>3 DEF SameLocals
<1>7. QED  BY <1>4, <1>5, <1>6 DEF Scanned

(* A step changes the locals of its own thread only.                       *)
LEMMA OtherLocals ==
  ASSUME TypeOK, NEW t \in Threads, Request(t) \/ Step(t) \/ Crash(t),
         NEW u \in Threads \ {t}
  PROVE  SameLocals(u)
<1> USE DEF TypeOK, SameLocals, Goto, Return, locals
<1>1. CASE Request(t)
  BY <1>1 DEF Request, AllocReject, AllocCall, FreeReject, FreeCall
<1>2. CASE Crash(t)
  BY <1>2 DEF Crash
<1>3. CASE AllocLock(t) \/ AllocBadAlignment(t) \/ AllocNextBlock(t)
           \/ AllocMiss(t) \/ AllocFail(t)
  BY <1>3 DEF AllocLock, AllocBadAlignment, AllocNextBlock, AllocMiss, AllocFail
<1>4. CASE AllocSplit(t) \/ AllocWhole(t) \/ AllocTake(t) \/ AllocFill(t)
  BY <1>4 DEF AllocSplit, AllocWhole, AllocTake, AllocFill
<1>5. CASE FreeStep(t) \/ Unlock(t) \/ LockOwnerDead(t)
  BY <1>5 DEF FreeStep, FreeLock, FreeMismatch, FreeMark, FreeClear, FreePush,
              Unlock, LockOwnerDead
<1>6. QED  BY <1>1, <1>2, <1>3, <1>4, <1>5 DEF Step, AllocStep

(* The walk starts at the head with nothing behind it, and goes on behind  *)
(* a block that is too small.                                              *)
LEMMA OwnScan ==
  ASSUME IInv, NEW t \in Threads, Scanned(t), Request(t) \/ Step(t) \/ Crash(t)
  PROVE  Scanned(t)'
<1> USE DEF TypeOK, Goto, Return, locals, shared
<1>1. TypeOK
  BY DEF IInv
<1>2. CASE AllocLock(t)
  <2>1. current'[t] = heads'[try_shard'[t]]
    BY <1>1, <1>2 DEF AllocLock
  <2>2. HoldsUpTo({}, try_shard[t], current[t])'
    BY <2>1 DEF HoldsUpTo
  <2>3. QED  BY <2>2 DEF Scanned
<1>3. CASE AllocNextBlock(t)
  <2>1. pc[t] = "walk" /\ current[t] # Null /\ ~Fits(t)
    BY <1>3 DEF AllocNextBlock, Visiting, At
  <2>2. PICK b \in DOMAIN block : b = current[t]
    BY <2>1, WalkFacts
  <2>3. PICK P \in SUBSET DOMAIN block :
          /\ HoldsUpTo(P, try_shard[t], b)
          /\ \A p \in P : /\ Linked(p) /\ block[p].shard = try_shard[t]
                          /\ block[p].size < RequiredSize(p, size[t], alignment[t])
    BY <2>1, <2>2 DEF Scanned
  <2>4. /\ Linked(b) /\ block[b].shard = try_shard[t]
        /\ block[b].size < RequiredSize(b, size[t], alignment[t])
    <3>1. Needed(t) \in Nat /\ block[b].size \in Nat
      BY <2>1, <2>2, WalkFacts DEF Headers
    <3>2. QED  BY <2>1, <2>2, <3>1, WalkFacts DEF Fits, Needed
  <2>5. /\ SameFlight /\ size' = size /\ alignment' = alignment
        /\ try_shard' = try_shard /\ current'[t] = block[b].next_free
    BY <1>1, <1>3, <2>2, AllocNextBlockStep DEF AllocNextBlock
  <2>6. \A c : Linked(c)' <=> Linked(c)
    BY <2>5, SameLinked
  <2>7. HoldsUpTo(P \cup {b}, try_shard[t], current[t])'
    BY <2>3, <2>5 DEF HoldsUpTo, SameFlight
  <2>8. P \cup {b} \in SUBSET DOMAIN block'
    BY <2>5 DEF SameFlight
  <2>9. \A p \in P \cup {b} :
          /\ Linked(p)' /\ block'[p].shard = try_shard'[t]
          /\ block'[p].size < RequiredSize(p, size'[t], alignment'[t])
    BY <2>3, <2>4, <2>5, <2>6 DEF SameFlight
  <2>10. QED  BY <2>7, <2>8, <2>9 DEF Scanned
<1>4. CASE Crash(t)
  <2>1. SameLocals(t)
    BY <1>4 DEF Crash, SameLocals
  <2>2. SameFlight
    BY <1>4, RejectStep
  <2>3. QED  BY <2>1, <2>2, SameLinked, ScanKept DEF SameFlight
<1>5. CASE Request(t)
  BY <1>1, <1>5 DEF Request, AllocReject, AllocCall, FreeReject, FreeCall, Scanned
<1>6. CASE AllocBadAlignment(t) \/ AllocMiss(t) \/ AllocFail(t)
  BY <1>1, <1>6 DEF AllocBadAlignment, AllocMiss, AllocFail, Scanned
<1>7. CASE AllocSplit(t) \/ AllocWhole(t) \/ AllocTake(t) \/ AllocFill(t)
  BY <1>1, <1>7 DEF AllocSplit, AllocWhole, AllocTake, AllocFill, Scanned
<1>8. CASE FreeStep(t) \/ Unlock(t) \/ LockOwnerDead(t)
  BY <1>1, <1>8 DEF FreeStep, FreeLock, FreeMismatch, FreeMark, FreeClear,
                    FreePush, Unlock, LockOwnerDead, Scanned
<1>9. QED
  BY <1>2, <1>3, <1>4, <1>5, <1>6, <1>7, <1>8 DEF Step, AllocStep

ListsInv == AllReached /\ \A t \in Threads : Scanned(t)

LEMMA ListsStep ==
  ASSUME IInv, Acyclic, ListsInv, RequestsFit, [Next]_vars
  PROVE  ListsInv'
<1>1. ASSUME SameFlight PROVE AllReached'
  BY <1>1, SameLinked, SameReached DEF ListsInv, SameFlight
<1>2. ASSUME SameFlight, NEW u \in Threads, SameLocals(u) PROVE Scanned(u)'
  BY <1>2, SameLinked, ScanKept DEF ListsInv, SameFlight
<1>3. CASE UNCHANGED vars
  <2>1. SameFlight
    BY <1>3, StutterStep
  <2>2. \A u \in Threads : SameLocals(u)
    BY <1>3 DEF vars, locals, SameLocals
  <2>3. QED  BY <1>1, <1>2, <2>1, <2>2 DEF ListsInv
<1>4. CASE Next
  <2>1. PICK t \in Threads : Request(t) \/ Step(t) \/ Crash(t)
    BY <1>4 DEF Next
  <2>2. Scanned(t)'
    BY <2>1, OwnScan DEF ListsInv
  <2>3. \A u \in Threads \ {t} : SameLocals(u)
    BY <2>1, OtherLocals DEF IInv
  <2>4. CASE \/ AllocSplit(t) \/ AllocWhole(t) \/ AllocTake(t) \/ AllocFill(t)
             \/ FreeMark(t) \/ FreeClear(t) \/ FreePush(t)
    <3>1. StoresInShard(t) /\ AllReached'
      BY <2>4, HeapStep, ReachedStep DEF ListsInv
    <3>2. ASSUME NEW u \in Threads \ {t} PROVE Scanned(u)'
      <4>1. pc[u] = "walk" => try_shard[u] # try_shard[t] /\ try_shard[u] \in Shards
        BY <3>1, OtherShard DEF StoresInShard, InCriticalSection, IInv, TypeOK
      <4>2. pc[u] = "walk" => heads'[try_shard[u]] = heads[try_shard[u]]
        BY <3>1, <4>1 DEF StoresInShard, Confined
      <4>3. \A c : pc[u] = "walk" /\ Linked(c) /\ block[c].shard = try_shard[u]
                   => Linked(c)' /\ block'[c] = block[c]
        BY <2>4, <4>1, OtherLists
      <4>4. QED  BY <2>3, <4>2, <4>3, ScanKept DEF ListsInv
    <3>3. QED  BY <2>2, <3>1, <3>2 DEF ListsInv
  <2>5. CASE ~(\/ AllocSplit(t) \/ AllocWhole(t) \/ AllocTake(t) \/ AllocFill(t)
               \/ FreeMark(t) \/ FreeClear(t) \/ FreePush(t))
    <3>1. SameFlight
      BY <2>1, <2>5, RejectStep, AllocCallStep, FreeCallStep, AllocLockStep,
         FreeLockStep, LockOwnerDeadStep, AllocBadAlignmentStep,
         AllocNextBlockStep, AllocMissStep, UnlockStep, FreeMismatchStep
         DEF Request, Step, AllocStep, FreeStep
    <3>2. QED  BY <1>1, <1>2, <2>2, <2>3, <3>1 DEF ListsInv
  <2>6. QED  BY <2>4, <2>5
<1>5. QED  BY <1>3, <1>4

LEMMA ListsInit ==
  ASSUME Init
  PROVE  ListsInv
<1>1. \A t \in Threads : Scanned(t)
  BY DEF Init, Scanned
<1>2. PICK d : d = [b \in DOMAIN block |-> 0]
  OBVIOUS
<1>3. ASSUME NEW b \in DOMAIN block PROVE heads[block[b].shard] = b
  <2>1. PICK s \in Shards : b = ShardStart(s)
    BY DEF Init
  <2>2. block[b].shard = CHOOSE r \in Shards : ShardStart(r) = b
    BY DEF Init, Header
  <2>3. block[b].shard \in Shards /\ ShardStart(block[b].shard) = b
    BY <2>1, <2>2
  <2>4. QED  BY <2>3 DEF Init
<1>4. Depths(d)
  BY <1>2, <1>3 DEF Depths
<1>5. QED  BY <1>1, <1>4 DEF ListsInv, AllReached

LEMMA ListsInvariant ==
  ASSUME RequestsFit
  PROVE  Spec => [](IInv /\ Acyclic /\ ListsInv)
<1>1. Init => ListsInv
  BY ListsInit
<1>2. IInv /\ Acyclic /\ ListsInv /\ [Next]_vars => ListsInv'
  BY ListsStep
<1>3. QED  BY AllocatorInvariant, <1>1, <1>2, PTL DEF Spec

(* Whatever the splits and frees, and wherever threads died in other       *)
(* shards: the list of a shard that nobody is working on reaches every     *)
(* free block of the shard, and nothing else.                              *)
THEOREM AllocatorFreeListsComplete ==
  ASSUME RequestsFit
  PROVE  Spec => []FreeListsComplete
<1>1. ASSUME IInv, ListsInv PROVE FreeListsComplete
  <2> SUFFICES ASSUME NEW s \in Shards, Quiet(s)
               PROVE  Listed(s) = {b \in DOMAIN block :
                        block[b].shard = s /\ block[b].flags = BLOCK_FREE}
    BY DEF FreeListsComplete
  <2>1. PICK F : F = {b \in DOMAIN block :
                        block[b].shard = s /\ block[b].flags = BLOCK_FREE}
    OBVIOUS
  <2>2. \A b : b \in F <=> Linked(b) /\ block[b].shard = s
    <3>1. ASSUME NEW b \in F, NEW t \in Threads, Handling(t, b) PROVE FALSE
      <4>1. InCriticalSection(t) /\ try_shard[t] = s
        BY <1>1, <2>1, <3>1
           DEF Handling, InCriticalSection, IInv, CallsSound, BlockSound
      <4>2. QED  BY <4>1 DEF Quiet
    <3>2. QED  BY <2>1, <3>1 DEF Linked, InFlight
  <2>3. F \in SUBSET DOMAIN block
    BY <2>1
  <2>4. HoldsUpTo(F, s, Null)
    <3>1. heads[s] \in F \cup {Null}
      BY <1>1, <2>2 DEF IInv, HeapInv, FreeListsSound
    <3>2. ASSUME NEW b \in F PROVE block[b].next_free \in F \cup {Null}
      BY <1>1, <2>2, <2>3 DEF IInv, HeapInv, FreeListsSound
    <3>3. QED  BY <3>1, <3>2 DEF HoldsUpTo
  <2>5. Listed(s) \subseteq F
    BY <2>3, <2>4 DEF Listed
  <2>6. ASSUME NEW b \in F PROVE b \in Listed(s)
    BY <1>1, <2>2, <2>3, ListCovers DEF Listed, ListsInv
  <2>7. QED  BY <2>1, <2>5, <2>6
<1>2. QED  BY ListsInvariant, <1>1, PTL

(* allocator_alloc gives up on a shard, and in the end reports             *)
(* OUT_OF_MEMORY, only if no free block of the shard it walked could have  *)
(* served the request.                                                     *)
THEOREM AllocatorMissMeansNoFit ==
  ASSUME RequestsFit
  PROVE  Spec => []MissMeansNoFit
<1>1. ASSUME IInv, ListsInv PROVE MissMeansNoFit
  <2> SUFFICES ASSUME NEW t \in Threads, pc[t] = "walk", current[t] = Null,
                      NEW b \in DOMAIN block, Linked(b),
                      block[b].shard = try_shard[t]
               PROVE  block[b].size < RequiredSize(b, size[t], alignment[t])
    BY DEF MissMeansNoFit
  <2>1. PICK P \in SUBSET DOMAIN block :
          /\ HoldsUpTo(P, try_shard[t], Null)
          /\ \A p \in P : block[p].size < RequiredSize(p, size[t], alignment[t])
    BY <1>1 DEF ListsInv, Scanned
  <2>2. b \in P
    BY <1>1, <2>1, ListCovers DEF ListsInv, IInv, TypeOK
  <2>3. QED  BY <2>1, <2>2
<1>2. QED  BY ListsInvariant, <1>1, PTL
=============================================================================
