----------------------- MODULE RegionLifecycleProofs -----------------------
(***************************************************************************)
(* Proofs about RegionLifecycle, for any number of processes, regions and  *)
(* shards.  The inductive invariant IInv says how far each creator has got *)
(* with its region, what each opener has already seen there, and that a    *)
(* region's parts are filled in in order, so that what an opener sees last *)
(* tells it about what it saw first.                                       *)
(***************************************************************************)
EXTENDS RegionLifecycle, TLAPS

\* What the header of a region says about its other parts.
RegionAt(r) ==
  /\ region[r].checksum => region[r].sized /\ region[r].state_flags = "READY"
  /\ region[r].allocator => region[r].checksum
  /\ \A s \in Shards : stage[r][s] > NoStore =>
       /\ region[r].allocator
       /\ \A t \in Shards : t < s => stage[r][t] = PayloadStored
  /\ r \notin created => region[r] = Fresh

RegionSound == \A r \in Regions : RegionAt(r)

Early == {"truncate", "map", "mutexes", "ready"}

\* How far a creator has got with its region.
CreatorAt(p) ==
  /\ mine[p] \in created \ published
  /\ pc[p] \in Early => ~region[mine[p]].checksum
  /\ pc[p] \notin {"truncate", "unlink"} => region[mine[p]].sized
  /\ pc[p] = "checksum" => region[mine[p]].state_flags = "READY"
  /\ pc[p] \in {"allocator", "shard_mutexes", "blocks"} => region[mine[p]].checksum
  /\ pc[p] \in {"shard_mutexes", "blocks"} => region[mine[p]].allocator
  /\ pc[p] \in Early \cup {"checksum", "allocator", "shard_mutexes"} =>
       \A s \in Shards : stage[mine[p]][s] = NoStore
  /\ pc[p] = "blocks" => \A s \in Shards :
       IF s < shard[p] THEN stage[mine[p]][s] = PayloadStored
       ELSE stage[mine[p]][s] < PayloadStored

CreatorSound == \A p \in Procs : pc[p] \in Creating => CreatorAt(p)

\* No two processes set up the same region.
CreatorsApart ==
  \A p, q \in Procs :
    pc[p] \in Creating /\ pc[q] \in Creating /\ mine[p] = mine[q] => p = q

\* What an opener has seen so far.
OpenerAt(p) ==
  /\ pc[p] \notin {"blocks", "unlink", "heap", "lists"} => shard[p] = 0
  /\ pc[p] = "heap" =>
       \A s \in Shards : s < shard[p] => stage[mine[p]][s] >= SizeStored
  /\ pc[p] = "lists" => \A s \in Shards :
       /\ stage[mine[p]][s] >= SizeStored
       /\ s < shard[p] => ListGood(stage[mine[p]][s], s)

OpenerSound == \A p \in Procs : OpenerAt(p)

\* Every store of the bootstrap has been made.
Finished(r) ==
  region[r] = Complete /\ \A s \in Shards : stage[r][s] = PayloadStored

PublishedSound == \A r \in published : r \in created /\ Finished(r)

IInv ==
  /\ TypeOK
  /\ RegionSound
  /\ CreatorSound
  /\ CreatorsApart
  /\ OpenerSound
  /\ PublishedSound
  /\ OpenedIsStored

\* With careful clients, who the name belongs to.
NameSound ==
  /\ \A p \in Procs \ crashed : pc[p] \in Creating => named = mine[p]
  /\ PublishedKeepsName

LEMMA StageType ==
  ASSUME TypeOK
  PROVE  \A r \in Regions, s \in Shards :
           stage[r][s] \in Nat /\ stage[r][s] <= PayloadStored
BY SMTT(30) DEF TypeOK, NoStore, PayloadStored

-----------------------------------------------------------------------------
(* The initial state.                                                      *)

LEMMA InitInv == Init => IInv
<1> SUFFICES ASSUME Init PROVE IInv
  OBVIOUS
<1> USE DEF Init
<1>1. TypeOK
  BY ShardsAssumption DEF TypeOK, Fresh, Headers, Codes, Rooms, Shards, NoStore, PayloadStored
<1>2. RegionSound
  BY DEF RegionSound, RegionAt, Fresh, NoStore
<1>3. CreatorSound /\ CreatorsApart
  BY DEF CreatorSound, CreatorAt, CreatorsApart, Creating
<1>4. OpenerSound
  BY DEF OpenerSound, OpenerAt
<1>5. PublishedSound /\ OpenedIsStored
  BY DEF PublishedSound, OpenedIsStored
<1> QED
  BY <1>1, <1>2, <1>3, <1>4, <1>5 DEF IInv

-----------------------------------------------------------------------------
(* Calls that begin, and calls that fail at once.                          *)

LEMMA CallStep ==
  ASSUME IInv, NEW p \in Procs,
         SystemFails(p) \/ BootstrapExists(p) \/ OpenNotFound(p)
           \/ Close(p) \/ Unlink(p)
  PROVE  IInv'
<1> USE DEF IInv
<1>1. /\ UNCHANGED <<memory, created, room, pc, mine, shard, crashed, published>>
      /\ \A q \in Procs : mapped'[q] \in {mapped[q], NoRegion}
  BY DEF SystemFails, BootstrapExists, OpenNotFound, Close, Unlink, Call, TypeOK, ghosts
<1>2. TypeOK'
  BY <1>1, BoundsAssumption DEF SystemFails, BootstrapExists, OpenNotFound, Close, Unlink, Call,
     Give, TypeOK, Codes, memory, ghosts
<1>3. RegionSound'
  BY <1>1 DEF RegionSound, RegionAt, memory
<1>4. CreatorSound' /\ CreatorsApart'
  BY <1>1 DEF CreatorSound, CreatorAt, CreatorsApart, memory
<1>5. OpenerSound'
  BY <1>1 DEF OpenerSound, OpenerAt, memory
<1>6. PublishedSound' /\ OpenedIsStored'
  BY <1>1 DEF PublishedSound, OpenedIsStored, Finished, AllButOneStored, memory
<1> QED
  BY <1>2, <1>3, <1>4, <1>5, <1>6

\* An opener allocates.
LEMMA AllocateStep ==
  ASSUME IInv, NEW p \in Procs, NEW s \in Shards, Allocate(p, s)
  PROVE  IInv'
<1> USE DEF IInv, Allocate, At, ghosts
<1>1. TypeOK'
  BY DEF TypeOK, Give, Codes
<1>2. RegionSound' /\ PublishedSound' /\ OpenedIsStored'
  BY DEF RegionSound, RegionAt, PublishedSound, OpenedIsStored, Finished, AllButOneStored
<1>3. CreatorSound' /\ CreatorsApart' /\ OpenerSound'
  BY DEF CreatorSound, CreatorAt, CreatorsApart, OpenerSound, OpenerAt
<1> QED
  BY <1>1, <1>2, <1>3

\* An open begins: what it finds under the name need not be finished.
LEMMA OpenStep ==
  ASSUME IInv, NEW p \in Procs, Open(p)
  PROVE  IInv'
<1> USE DEF IInv, Open, Call, At
<1>1. TypeOK'
  BY DEF TypeOK, Goto, memory, ghosts, Opening
<1>2. RegionSound' /\ PublishedSound' /\ OpenedIsStored'
  BY DEF RegionSound, RegionAt, PublishedSound, OpenedIsStored, Finished, AllButOneStored,
     memory, ghosts
<1>3. CreatorSound' /\ CreatorsApart'
  BY DEF CreatorSound, CreatorAt, CreatorsApart, Creating, Goto, TypeOK, memory, ghosts
<1>4. OpenerSound'
  BY DEF OpenerSound, OpenerAt, Goto, TypeOK, memory
<1> QED
  BY <1>1, <1>2, <1>3, <1>4

\* A bootstrap begins, on a region that nobody has stored to.
LEMMA BootstrapStep ==
  ASSUME IInv, NEW p \in Procs, NEW r \in Regions, NEW form \in Rooms,
         Bootstrap(p, r, form)
  PROVE  IInv'
<1> USE DEF IInv, Bootstrap, Call, At
<1>1. TypeOK'
  BY DEF TypeOK, Goto, memory, ghosts, Creating
<1>2. RegionSound' /\ PublishedSound' /\ OpenedIsStored'
  BY DEF RegionSound, RegionAt, PublishedSound, OpenedIsStored, Finished, AllButOneStored,
     memory, ghosts
<1>3. CreatorSound'
  <2>1. r \notin published /\ region[r] = Fresh
    BY DEF PublishedSound, RegionSound, RegionAt
  <2>2. \A s \in Shards : stage[r][s] = NoStore
    BY <2>1, StageType DEF RegionSound, RegionAt, Fresh, NoStore
  <2> QED
    BY <2>1, <2>2 DEF CreatorSound, CreatorAt, Creating, Early, Goto, TypeOK, memory, ghosts, Fresh
<1>4. CreatorsApart'
  BY DEF CreatorsApart, CreatorSound, CreatorAt, Creating, Goto, TypeOK
<1>5. OpenerSound'
  BY DEF OpenerSound, OpenerAt, Goto, TypeOK, memory
<1> QED
  BY <1>1, <1>2, <1>3, <1>4, <1>5

\* A process dies: the region stays as it is, and so does its place in it.
LEMMA CrashStep ==
  ASSUME IInv, NEW p \in Procs, Crash(p)
  PROVE  IInv'
<1> USE DEF IInv, Crash, memory, ghosts
<1>1. TypeOK'
  BY DEF TypeOK
<1>2. RegionSound' /\ PublishedSound' /\ OpenedIsStored'
  BY DEF RegionSound, RegionAt, PublishedSound, OpenedIsStored, Finished, AllButOneStored
<1>3. CreatorSound' /\ CreatorsApart' /\ OpenerSound'
  BY DEF CreatorSound, CreatorAt, CreatorsApart, OpenerSound, OpenerAt
<1> QED
  BY <1>1, <1>2, <1>3

-----------------------------------------------------------------------------
(* The creator.                                                            *)

\* A creator that goes on without a store.
LEMMA AdvanceStep ==
  ASSUME IInv, NEW p \in Procs, InitMutexes(p) \/ InitShardMutexes(p) \/ BootstrapFails(p)
  PROVE  IInv'
<1> USE DEF IInv, InitMutexes, InitShardMutexes, BootstrapFails, Advance, At, Goto, memory, ghosts
<1>1. TypeOK'
  BY DEF TypeOK, Creating, Give, Codes
<1>2. RegionSound' /\ PublishedSound' /\ OpenedIsStored'
  BY DEF RegionSound, RegionAt, PublishedSound, OpenedIsStored, Finished, AllButOneStored
<1>3. CreatorSound'
  <2> USE DEF CreatorSound, CreatorAt, Creating, Early, TypeOK
  <2>1. CASE InitMutexes(p)
    BY <2>1
  <2>2. CASE InitShardMutexes(p)
    <3>1. shard[p] = 0
      BY <2>2 DEF OpenerSound, OpenerAt
    <3>2. \A s \in Shards : ~(s < 0) /\ NoStore < PayloadStored
      BY ShardsAssumption DEF Shards, NoStore, PayloadStored
    <3> QED
      BY <2>2, <3>1, <3>2
  <2>3. CASE BootstrapFails(p)
    BY <2>3
  <2> QED
    BY <2>1, <2>2, <2>3
<1>4. CreatorsApart'
  BY DEF CreatorsApart, Creating, TypeOK
<1>5. OpenerSound'
  BY DEF OpenerSound, OpenerAt, TypeOK
<1> QED
  BY <1>1, <1>2, <1>3, <1>4, <1>5

\* A failed bootstrap returns.
LEMMA BootstrapUnlinksStep ==
  ASSUME IInv, NEW p \in Procs, BootstrapUnlinks(p)
  PROVE  IInv'
<1> USE DEF IInv, BootstrapUnlinks, Return, At, Goto, memory
<1>1. TypeOK'
  BY ShardsAssumption DEF TypeOK, Give
<1>2. RegionSound' /\ PublishedSound' /\ OpenedIsStored'
  BY DEF RegionSound, RegionAt, PublishedSound, OpenedIsStored, Finished, AllButOneStored, TypeOK
<1>3. CreatorSound' /\ CreatorsApart'
  BY DEF CreatorSound, CreatorAt, CreatorsApart, Creating, TypeOK
<1>4. OpenerSound'
  BY DEF OpenerSound, OpenerAt, TypeOK
<1> QED
  BY <1>1, <1>2, <1>3, <1>4

\* No region that has been finished is stored to.
LEMMA Unfinished ==
  ASSUME IInv, NEW p \in Procs,
         \/ pc[p] \in Early \cup {"checksum", "allocator"}
         \/ pc[p] = "blocks" /\ shard[p] < ShardCount
  PROVE  ~Finished(mine[p])
<1>1. 0 \in Shards /\ (shard[p] < ShardCount => shard[p] \in Shards)
  BY ShardsAssumption DEF IInv, TypeOK, Shards
<1>2. CASE pc[p] \in Early \cup {"checksum", "allocator"}
  BY <1>1, <1>2 DEF IInv, CreatorSound, CreatorAt, Creating, Early, Finished, NoStore, PayloadStored
<1>3. CASE pc[p] = "blocks" /\ shard[p] < ShardCount
  BY <1>1, <1>3 DEF IInv, TypeOK, CreatorSound, CreatorAt, Creating, Finished, PayloadStored
<1> QED
  BY <1>2, <1>3

\* What a header is after a store to one of its fields.
LEMMA HeaderFields ==
  ASSUME NEW h \in Headers
  PROVE  /\ LET g == [h EXCEPT !.sized = TRUE]
            IN /\ g \in Headers /\ g.sized /\ g.state_flags = h.state_flags
               /\ g.checksum <=> h.checksum
               /\ g.allocator <=> h.allocator
         /\ \A v \in {"INITIALIZING", "READY"} :
              LET g == [h EXCEPT !.state_flags = v]
              IN /\ g \in Headers /\ g.state_flags = v
                 /\ g.sized <=> h.sized
                 /\ g.checksum <=> h.checksum
                 /\ g.allocator <=> h.allocator
         /\ LET g == [h EXCEPT !.checksum = TRUE]
            IN /\ g \in Headers /\ g.checksum /\ g.state_flags = h.state_flags
               /\ g.sized <=> h.sized
               /\ g.allocator <=> h.allocator
         /\ LET g == [h EXCEPT !.allocator = TRUE]
            IN /\ g \in Headers /\ g.allocator /\ g.state_flags = h.state_flags
               /\ g.sized <=> h.sized
               /\ g.checksum <=> h.checksum
<1> USE DEF Headers
<1>1. LET g == [h EXCEPT !.sized = TRUE]
      IN /\ g \in Headers /\ g.sized /\ g.state_flags = h.state_flags
         /\ g.checksum <=> h.checksum
         /\ g.allocator <=> h.allocator
  OBVIOUS
<1>2. ASSUME NEW v \in {"INITIALIZING", "READY"}
      PROVE  LET g == [h EXCEPT !.state_flags = v]
             IN /\ g \in Headers /\ g.state_flags = v
                /\ g.sized <=> h.sized
                /\ g.checksum <=> h.checksum
                /\ g.allocator <=> h.allocator
  OBVIOUS
<1>3. LET g == [h EXCEPT !.checksum = TRUE]
      IN /\ g \in Headers /\ g.checksum /\ g.state_flags = h.state_flags
         /\ g.sized <=> h.sized
         /\ g.allocator <=> h.allocator
  OBVIOUS
<1>4. LET g == [h EXCEPT !.allocator = TRUE]
      IN /\ g \in Headers /\ g.allocator /\ g.state_flags = h.state_flags
         /\ g.sized <=> h.sized
         /\ g.checksum <=> h.checksum
  OBVIOUS
<1> QED
  BY <1>1, <1>2, <1>3, <1>4, Zenon

\* A store to the header takes the creator one label on, and the header stays
\* in order.
LEMMA HeaderEffect ==
  ASSUME IInv, NEW p \in Procs,
         \/ Truncate(p) \/ InitHeader(p) \/ StoreReady(p) \/ StoreChecksum(p)
         \/ InitAllocator(p)
  PROVE  LET r == mine[p]
         IN /\ r \in Regions /\ r \in created /\ region'[r] \in Headers
            /\ region' = [region EXCEPT ![r] = region'[r]]
            /\ pc[p] \in Early \cup {"checksum", "allocator"}
            /\ pc' = [pc EXCEPT ![p] = pc'[p]]
            /\ pc'[p] \in {"map", "mutexes", "checksum", "allocator", "shard_mutexes"}
            /\ pc'[p] \in Early => ~region'[r].checksum
            /\ region'[r].sized
            /\ pc'[p] = "checksum" => region'[r].state_flags = "READY"
            /\ pc'[p] \in {"allocator", "shard_mutexes"} => region'[r].checksum
            /\ region'[r].checksum => region'[r].state_flags = "READY"
            /\ region'[r].allocator => region'[r].checksum
            /\ pc'[p] = "shard_mutexes" => region'[r].allocator
            /\ UNCHANGED <<named, stage, used, room, created, mine, shard, mapped,
                           status, calls, crashed, published, unlinked>>
<1> DEFINE r == mine[p]
<1> USE DEF StoreHeader, Mine, At, Goto, ghosts
<1>1. /\ r \in Regions /\ region[r] \in Headers /\ RegionAt(r)
      /\ region \in [Regions -> Headers]
      /\ pc \in [Procs -> {"idle"} \cup Creating \cup Opening]
      /\ pc[p] \in Creating => CreatorAt(p)
  BY DEF IInv, TypeOK, RegionSound, CreatorSound, Truncate, InitHeader, StoreReady, StoreChecksum,
     InitAllocator
<1> USE DEF Creating, Early, RegionAt, CreatorAt
<1>2. CASE Truncate(p)
  <2> DEFINE g == [region[r] EXCEPT !.sized = TRUE]
  <2>1. region'[r] = g /\ pc'[p] = "map" /\ pc[p] = "truncate"
    BY <1>1, <1>2 DEF Truncate
  <2>2. /\ g \in Headers
        /\ g.sized
        /\ g.state_flags = region[r].state_flags
        /\ g.checksum <=> region[r].checksum
        /\ g.allocator <=> region[r].allocator
    BY <1>1, HeaderFields
  <2> HIDE DEF g
  <2>3. /\ region' = [region EXCEPT ![r] = region'[r]] /\ pc' = [pc EXCEPT ![p] = pc'[p]]
        /\ UNCHANGED <<named, stage, used, room, created, mine, shard, mapped,
                       status, calls, crashed, published, unlinked>>
    BY <1>1, <1>2, <2>1 DEF Truncate, g
  <2> QED
    BY <1>1, <2>1, <2>2, <2>3
<1>3. CASE InitHeader(p)
  <2> DEFINE g == [region[r] EXCEPT !.state_flags = "INITIALIZING"]
  <2>1. region'[r] = g /\ pc'[p] = "mutexes" /\ pc[p] = "map"
    BY <1>1, <1>3 DEF InitHeader
  <2>2. /\ g \in Headers
        /\ g.sized <=> region[r].sized
        /\ g.checksum <=> region[r].checksum
        /\ g.allocator <=> region[r].allocator
    BY <1>1, HeaderFields
  <2> HIDE DEF g
  <2>3. /\ region' = [region EXCEPT ![r] = region'[r]] /\ pc' = [pc EXCEPT ![p] = pc'[p]]
        /\ UNCHANGED <<named, stage, used, room, created, mine, shard, mapped,
                       status, calls, crashed, published, unlinked>>
    BY <1>1, <1>3, <2>1 DEF InitHeader, g
  <2> QED
    BY <1>1, <2>1, <2>2, <2>3
<1>4. CASE StoreReady(p)
  <2> DEFINE g == [region[r] EXCEPT !.state_flags = "READY"]
  <2>1. region'[r] = g /\ pc'[p] = "checksum" /\ pc[p] = "ready"
    BY <1>1, <1>4 DEF StoreReady
  <2>2. /\ g \in Headers
        /\ g.state_flags = "READY"
        /\ g.sized <=> region[r].sized
        /\ g.checksum <=> region[r].checksum
        /\ g.allocator <=> region[r].allocator
    BY <1>1, HeaderFields
  <2> HIDE DEF g
  <2>3. /\ region' = [region EXCEPT ![r] = region'[r]] /\ pc' = [pc EXCEPT ![p] = pc'[p]]
        /\ UNCHANGED <<named, stage, used, room, created, mine, shard, mapped,
                       status, calls, crashed, published, unlinked>>
    BY <1>1, <1>4, <2>1 DEF StoreReady, g
  <2> QED
    BY <1>1, <2>1, <2>2, <2>3
<1>5. CASE StoreChecksum(p)
  <2> DEFINE g == [region[r] EXCEPT !.checksum = TRUE]
  <2>1. region'[r] = g /\ pc'[p] = "allocator" /\ pc[p] = "checksum"
    BY <1>1, <1>5 DEF StoreChecksum
  <2>2. /\ g \in Headers
        /\ g.checksum
        /\ g.state_flags = region[r].state_flags
        /\ g.sized <=> region[r].sized
        /\ g.allocator <=> region[r].allocator
    BY <1>1, HeaderFields
  <2> HIDE DEF g
  <2>3. /\ region' = [region EXCEPT ![r] = region'[r]] /\ pc' = [pc EXCEPT ![p] = pc'[p]]
        /\ UNCHANGED <<named, stage, used, room, created, mine, shard, mapped,
                       status, calls, crashed, published, unlinked>>
    BY <1>1, <1>5, <2>1 DEF StoreChecksum, g
  <2> QED
    BY <1>1, <2>1, <2>2, <2>3
<1>6. CASE InitAllocator(p)
  <2> DEFINE g == [region[r] EXCEPT !.allocator = TRUE]
  <2>1. region'[r] = g /\ pc'[p] = "shard_mutexes" /\ pc[p] = "allocator"
    BY <1>1, <1>6 DEF InitAllocator
  <2>2. /\ g \in Headers
        /\ g.allocator
        /\ g.state_flags = region[r].state_flags
        /\ g.sized <=> region[r].sized
        /\ g.checksum <=> region[r].checksum
    BY <1>1, HeaderFields
  <2> HIDE DEF g
  <2>3. /\ region' = [region EXCEPT ![r] = region'[r]] /\ pc' = [pc EXCEPT ![p] = pc'[p]]
        /\ UNCHANGED <<named, stage, used, room, created, mine, shard, mapped,
                       status, calls, crashed, published, unlinked>>
    BY <1>1, <1>6, <2>1 DEF InitAllocator, g
  <2> QED
    BY <1>1, <2>1, <2>2, <2>3
<1> QED
  BY <1>2, <1>3, <1>4, <1>5, <1>6

\* Stores to the header of the region.
LEMMA HeaderStep ==
  ASSUME IInv, NEW p \in Procs,
         \/ Truncate(p) \/ InitHeader(p) \/ StoreReady(p) \/ StoreChecksum(p)
         \/ InitAllocator(p)
  PROVE  IInv'
<1> DEFINE r == mine[p]
<1> USE DEF IInv
<1>1. /\ r \in Regions /\ r \in created /\ region'[r] \in Headers
      /\ region' = [region EXCEPT ![r] = region'[r]]
      /\ pc[p] \in Early \cup {"checksum", "allocator"}
      /\ pc' = [pc EXCEPT ![p] = pc'[p]]
      /\ pc'[p] \in {"map", "mutexes", "checksum", "allocator", "shard_mutexes"}
      /\ pc'[p] \in Early => ~region'[r].checksum
      /\ region'[r].sized
      /\ pc'[p] = "checksum" => region'[r].state_flags = "READY"
      /\ pc'[p] \in {"allocator", "shard_mutexes"} => region'[r].checksum
      /\ region'[r].checksum => region'[r].state_flags = "READY"
      /\ region'[r].allocator => region'[r].checksum
      /\ pc'[p] = "shard_mutexes" => region'[r].allocator
      /\ UNCHANGED <<named, stage, used, room, created, mine, shard, mapped,
                     status, calls, crashed, published, unlinked>>
  BY HeaderEffect
<1>2. TypeOK'
  <2>1. region' \in [Regions -> Headers]
    BY <1>1 DEF TypeOK
  <2>2. pc' \in [Procs -> {"idle"} \cup Creating \cup Opening]
    BY <1>1 DEF TypeOK, Creating
  <2>3. \A q \in Procs : pc'[q] # "idle" => mine[q] \in Regions
    BY <1>1 DEF TypeOK
  <2> QED
    BY <1>1, <2>1, <2>2, <2>3 DEF TypeOK
<1>3. \A s \in Shards : stage[r][s] = NoStore
  BY <1>1 DEF CreatorSound, CreatorAt, Creating, Early
<1>4. RegionSound'
  <2> SUFFICES ASSUME NEW x \in Regions PROVE RegionAt(x)'
    BY DEF RegionSound
  <2>1. CASE x = r
    BY <1>1, <1>3, <2>1 DEF RegionAt, NoStore
  <2>2. CASE x # r
    BY <1>1, <2>2 DEF RegionSound, RegionAt, TypeOK
  <2> QED
    BY <2>1, <2>2
<1>5. PublishedSound' /\ OpenedIsStored'
  <2>1. ~Finished(r) /\ ~AllButOneStored(r)
    <3>1. 0 \in Shards
      BY ShardsAssumption DEF Shards
    <3> QED
      BY <1>1, <1>3, <3>1, Unfinished DEF AllButOneStored, NoStore, ShardStored
  <2>2. \A x \in Regions : /\ Finished(x) => Finished(x)'
                           /\ AllButOneStored(x) => AllButOneStored(x)'
    BY <1>1, <2>1 DEF Finished, AllButOneStored, TypeOK
  <2> QED
    BY <1>1, <2>2 DEF PublishedSound, OpenedIsStored, TypeOK
<1>6. CreatorSound'
  <2> SUFFICES ASSUME NEW q \in Procs, pc'[q] \in Creating PROVE CreatorAt(q)'
    BY DEF CreatorSound
  <2>1. CASE q = p
    BY <1>1, <1>3, <2>1 DEF CreatorSound, CreatorAt, Creating, Early
  <2>2. CASE q # p
    <3>1. pc'[q] = pc[q] /\ mine[q] # r /\ mine[q] \in Regions
      BY <1>1, <2>2 DEF CreatorsApart, TypeOK, Creating, Early
    <3>2. region'[mine[q]] = region[mine[q]]
      BY <1>1, <3>1 DEF TypeOK
    <3> QED
      BY <1>1, <3>1, <3>2 DEF CreatorSound, CreatorAt
  <2> QED
    BY <2>1, <2>2
<1>7. CreatorsApart'
  BY <1>1 DEF CreatorsApart, Creating, Early, TypeOK
<1>8. OpenerSound'
  BY <1>1 DEF OpenerSound, OpenerAt, TypeOK, Early
<1> QED
  BY <1>2, <1>4, <1>5, <1>6, <1>7, <1>8

\* A store of allocator_init to a shard.
LEMMA StoreBlockStep ==
  ASSUME IInv, NEW p \in Procs, StoreBlock(p)
  PROVE  IInv'
<1> DEFINE r == mine[p]
           k == shard[p]
<1> USE DEF IInv, StoreBlock, At
<1>1. r \in Regions /\ k \in Shards /\ stage[r][k] \in NoStore .. PayloadStored - 1
  BY ShardsAssumption DEF TypeOK, CreatorSound, CreatorAt, Creating, Shards, NoStore, PayloadStored
<1>2. /\ stage'[r][k] = stage[r][k] + 1
      /\ \A s \in Shards \ {k} : stage'[r][s] = stage[r][s]
      /\ \A x \in Regions \ {r} : stage'[x] = stage[x]
  BY <1>1 DEF TypeOK
<1>3. shard'[p] = IF stage[r][k] + 1 = PayloadStored THEN k + 1 ELSE k
  BY <1>1, <1>2 DEF TypeOK
<1>4. TypeOK'
  <2>1. stage' \in [Regions -> [Shards -> NoStore .. PayloadStored]]
    <3>1. stage \in [Regions -> [Shards -> NoStore .. PayloadStored]]
      BY DEF TypeOK
    <3>2. stage[r][k] + 1 \in NoStore .. PayloadStored
      BY <1>1 DEF NoStore, PayloadStored
    <3>3. stage' = [stage EXCEPT ![r] = [stage[r] EXCEPT ![k] = stage[r][k] + 1]]
      BY <1>1, <3>1
    <3> HIDE DEF IInv, StoreBlock, r, k
    <3>4. [stage[r] EXCEPT ![k] = stage[r][k] + 1] \in [Shards -> NoStore .. PayloadStored]
      BY <1>1, <3>1, <3>2
    <3> QED
      BY <1>1, <3>1, <3>3, <3>4
  <2>2. shard' \in [Procs -> 0 .. ShardCount]
    <3>1. shard'[p] \in 0 .. ShardCount
      BY <1>1, <1>3, ShardsAssumption DEF Shards
    <3>2. shard' = [shard EXCEPT ![p] = shard'[p]] /\ shard \in [Procs -> 0 .. ShardCount]
      BY <1>3 DEF TypeOK
    <3> QED
      BY <3>1, <3>2
  <2>3. used' \in [Regions -> SUBSET Shards]
    BY <1>1 DEF TypeOK
  <2> QED
    BY <2>1, <2>2, <2>3 DEF TypeOK, ghosts
<1>5. CreatorAt(p) /\ RegionAt(r)
  BY <1>1 DEF CreatorSound, Creating, RegionSound
<1>6. /\ region[r].allocator
      /\ \A s \in Shards : s < k => stage[r][s] = PayloadStored
      /\ \A s \in Shards : s > k => stage[r][s] = NoStore
  <2>1. region[r].allocator /\ \A s \in Shards : s < k => stage[r][s] = PayloadStored
    BY <1>5 DEF CreatorAt
  <2>2. ASSUME NEW s \in Shards, s > k PROVE stage[r][s] = NoStore
    BY <1>1, <1>5, <2>2, StageType DEF RegionAt, Shards, NoStore, PayloadStored
  <2> QED
    BY <2>1, <2>2
<1>7. RegionSound'
  <2> SUFFICES ASSUME NEW x \in Regions PROVE RegionAt(x)'
    BY DEF RegionSound
  <2>1. CASE x = r
    <3> SUFFICES ASSUME NEW s \in Shards, stage'[r][s] > NoStore, NEW t \in Shards, t < s
                 PROVE  stage'[r][t] = PayloadStored
      BY <1>5, <1>6, <2>1 DEF RegionAt
    <3>1. s <= k
      BY <1>1, <1>2, <1>6 DEF Shards, NoStore
    <3> QED
      BY <1>1, <1>2, <1>6, <3>1 DEF Shards
  <2>2. CASE x # r
    BY <1>2, <2>2 DEF RegionSound, RegionAt
  <2> QED
    BY <2>1, <2>2
<1>8. PublishedSound' /\ OpenedIsStored'
  <2>1. ~Finished(r)
    BY <1>1, Unfinished, ShardsAssumption DEF Shards
  <2>2. \A x \in Regions \ {r} :
          /\ Finished(x) => Finished(x)'
          /\ AllButOneStored(x) => AllButOneStored(x)'
    BY <1>2 DEF Finished, AllButOneStored
  <2>3. ASSUME AllButOneStored(r) PROVE AllButOneStored(r)'
    <3>1. k = ShardCount - 1
      BY <1>1, <2>3 DEF AllButOneStored, PayloadStored, NoStore
    <3> QED
      BY <1>1, <1>2, <2>3, <3>1 DEF AllButOneStored, NoStore, PayloadStored, ShardStored
  <2> QED
    BY <2>1, <2>2, <2>3 DEF PublishedSound, OpenedIsStored, TypeOK, ghosts
<1>9. CreatorSound'
  <2> SUFFICES ASSUME NEW q \in Procs, pc[q] \in Creating PROVE CreatorAt(q)'
    BY DEF CreatorSound
  <2>1. CASE q = p
    <3>1. \A s \in Shards : IF s < shard'[p] THEN stage'[r][s] = PayloadStored
                            ELSE stage'[r][s] < PayloadStored
      BY <1>1, <1>2, <1>3, <1>6 DEF Shards, NoStore, PayloadStored
    <3> QED
      BY <1>5, <2>1, <3>1 DEF CreatorAt, Early, ghosts
  <2>2. CASE q # p
    <3>1. mine[q] # r /\ mine[q] \in Regions /\ shard'[q] = shard[q]
      BY <2>2 DEF CreatorsApart, TypeOK, Creating
    <3>2. stage'[mine[q]] = stage[mine[q]]
      BY <1>2, <3>1
    <3> QED
      BY <3>1, <3>2 DEF CreatorSound, CreatorAt, ghosts
  <2> QED
    BY <2>1, <2>2
<1>10. CreatorsApart'
  BY DEF CreatorsApart
<1>11. OpenerSound'
  <2> SUFFICES ASSUME NEW q \in Procs PROVE OpenerAt(q)'
    BY DEF OpenerSound
  <2>1. CASE q = p
    BY <2>1 DEF OpenerAt
  <2>2. CASE q # p
    <3>1. shard'[q] = shard[q] /\ (pc[q] # "idle" => mine[q] \in Regions)
      BY <2>2 DEF TypeOK
    <3>2. \A x \in Regions, s \in Shards :
            /\ stage[x][s] >= SizeStored => stage'[x][s] >= SizeStored
            /\ stage[x][s] >= SizeStored /\ ListGood(stage[x][s], s) => ListGood(stage'[x][s], s)
      BY <1>1, <1>2 DEF TypeOK, NoStore, SizeStored, FlagStored, ShardStored, ListGood
    <3>3. OpenerAt(q)
      BY DEF OpenerSound
    <3> QED
      BY <3>1, <3>2, <3>3 DEF OpenerAt
  <2> QED
    BY <2>1, <2>2
<1> QED
  BY <1>4, <1>7, <1>8, <1>9, <1>10, <1>11

\* Bootstrap returns the store: its region is finished.
LEMMA BootstrapDoneStep ==
  ASSUME IInv, NEW p \in Procs, BootstrapDone(p)
  PROVE  IInv'
<1> DEFINE r == mine[p]
<1> USE DEF IInv, BootstrapDone, Return, At, Goto, memory
<1>1. r \in Regions /\ CreatorAt(p) /\ RegionAt(r) /\ region[r] \in Headers
  BY DEF TypeOK, CreatorSound, Creating, RegionSound
<1>2. Finished(r)
  <2>1. \A s \in Shards : s < ShardCount
    BY ShardsAssumption DEF Shards
  <2>2. \A s \in Shards : stage[r][s] = PayloadStored
    BY <1>1, <2>1 DEF CreatorAt
  <2>3. /\ region[r].sized = TRUE /\ region[r].state_flags = "READY"
        /\ region[r].checksum = TRUE /\ region[r].allocator = TRUE
    BY <1>1 DEF CreatorAt, RegionAt, Headers
  <2>4. region[r] = Complete
    BY <1>1, <2>3 DEF Headers, Complete
  <2> QED
    BY <2>2, <2>4 DEF Finished
<1>3. TypeOK'
  BY <1>1, ShardsAssumption DEF TypeOK, Give, Codes
<1>4. RegionSound'
  BY DEF RegionSound, RegionAt
<1>5. PublishedSound' /\ OpenedIsStored'
  <2>1. AllButOneStored(r)
    BY <1>2 DEF Finished, AllButOneStored, PayloadStored, ShardStored
  <2> QED
    BY <1>1, <1>2, <2>1
       DEF PublishedSound, OpenedIsStored, Finished, AllButOneStored, CreatorAt, TypeOK
<1>6. CreatorSound'
  <2> SUFFICES ASSUME NEW q \in Procs, pc'[q] \in Creating PROVE CreatorAt(q)'
    BY DEF CreatorSound
  <2>1. q # p /\ pc[q] = pc'[q] /\ mine'[q] = mine[q] /\ shard'[q] = shard[q]
    BY DEF TypeOK, Creating
  <2>2. mine[q] # r
    BY <2>1 DEF CreatorsApart, Creating
  <2> QED
    BY <2>1, <2>2 DEF CreatorSound, CreatorAt
<1>7. CreatorsApart'
  BY DEF CreatorsApart, Creating, TypeOK
<1>8. OpenerSound'
  BY DEF OpenerSound, OpenerAt, TypeOK
<1> QED
  BY <1>3, <1>4, <1>5, <1>6, <1>7, <1>8

-----------------------------------------------------------------------------
(* The opener.                                                             *)

\* A call that returns without a store.
LEMMA FailedOpenStep ==
  ASSUME IInv, NEW p \in Procs, NEW code \in Codes,
         pc[p] \in Opening, Return(p, code, NoRegion), UNCHANGED <<named, published>>
  PROVE  IInv'
<1> USE DEF IInv, Return, Goto, memory
<1>1. TypeOK'
  BY ShardsAssumption DEF TypeOK, Give
<1>2. RegionSound' /\ PublishedSound' /\ OpenedIsStored'
  BY DEF RegionSound, RegionAt, PublishedSound, OpenedIsStored, Finished, AllButOneStored, TypeOK
<1>3. CreatorSound' /\ CreatorsApart'
  BY DEF CreatorSound, CreatorAt, CreatorsApart, Creating, TypeOK
<1>4. OpenerSound'
  BY DEF OpenerSound, OpenerAt, TypeOK
<1> QED
  BY <1>1, <1>2, <1>3, <1>4

\* A check that succeeds takes the opener one label on.
LEMMA PassedCheckStep ==
  ASSUME IInv, NEW p \in Procs,
         NEW next \in {"header", "allocator_header", "heap"},
         pc[p] \in {"stat", "header", "allocator_header"},
         Goto(p, next),
         UNCHANGED <<named, memory, room, created, mine, shard, mapped, status,
                     calls, crashed, published, unlinked>>
  PROVE  IInv'
<1> USE DEF IInv, Goto, memory
<1>1. TypeOK'
  BY DEF TypeOK, Opening
<1>2. RegionSound' /\ PublishedSound' /\ OpenedIsStored'
  BY DEF RegionSound, RegionAt, PublishedSound, OpenedIsStored, Finished, AllButOneStored
<1>3. CreatorSound' /\ CreatorsApart'
  BY DEF CreatorSound, CreatorAt, CreatorsApart, Creating, TypeOK
<1>4. OpenerSound'
  <2> SUFFICES ASSUME NEW q \in Procs PROVE OpenerAt(q)'
    BY DEF OpenerSound
  <2>1. CASE q = p
    <3>1. shard'[p] = 0 /\ pc'[p] = next
      BY DEF OpenerSound, OpenerAt, TypeOK
    <3>2. \A s \in Shards : ~(s < 0)
      BY ShardsAssumption DEF Shards
    <3> QED
      BY <2>1, <3>1, <3>2 DEF OpenerAt
  <2>2. CASE q # p
    BY <2>2 DEF OpenerSound, OpenerAt, TypeOK
  <2> QED
    BY <2>1, <2>2
<1> QED
  BY <1>1, <1>2, <1>3, <1>4

\* The checks of shm_region_open and of the allocator's header.
LEMMA CheckStep ==
  ASSUME IInv, NEW p \in Procs,
         Stat(p) \/ StatFails(p) \/ CheckHeader(p) \/ CheckAllocator(p)
  PROVE  IInv'
<1> USE DEF Stat, StatFails, CheckHeader, CheckAllocator, Check, At
<1>1. /\ pc[p] \in {"stat", "header", "allocator_header"}
      /\ UNCHANGED <<named, published>>
      /\ \/ \E code \in Codes : Return(p, code, NoRegion)
         \/ /\ \E next \in {"header", "allocator_header", "heap"} : Goto(p, next)
            /\ UNCHANGED <<memory, room, created, mine, shard, mapped, status,
                           calls, crashed, unlinked>>
  BY DEF Codes
<1>2. CASE \E code \in Codes : Return(p, code, NoRegion)
  BY <1>1, <1>2, FailedOpenStep DEF Opening
<1>3. CASE /\ \E next \in {"header", "allocator_header", "heap"} : Goto(p, next)
           /\ UNCHANGED <<memory, room, created, mine, shard, mapped, status,
                          calls, crashed, unlinked>>
  BY <1>1, <1>3, PassedCheckStep
<1> QED
  BY <1>1, <1>2, <1>3

\* One shard of a pass of allocator_validate.
LEMMA ScanStep ==
  ASSUME IInv, NEW p \in Procs, CheckHeap(p) \/ CheckLists(p)
  PROVE  IInv'
<1> DEFINE k == shard[p]
           good == IF pc[p] = "heap" THEN HeapGood(stage[mine[p]][k])
                   ELSE ListGood(stage[mine[p]][k], k)
<1> USE DEF CheckHeap, CheckLists, Scan, At, MyStage
<1>1. pc[p] \in {"heap", "lists"} /\ k < ShardCount /\ UNCHANGED <<named, published>>
  OBVIOUS
<1>2. CASE ~good
  <2>1. Return(p, "INVALID_STATE", NoRegion)
    BY <1>1, <1>2
  <2>2. "INVALID_STATE" \in Codes /\ pc[p] \in Opening
    BY <1>1 DEF Codes, Opening
  <2> QED
    BY <1>1, <2>1, <2>2, FailedOpenStep
<1>3. CASE good
  <2> USE DEF IInv
  <2>1. /\ shard' = [shard EXCEPT ![p] = k + 1]
        /\ UNCHANGED <<named, memory, room, created, pc, mine, mapped, status,
                       calls, crashed, published, unlinked>>
    BY <1>1, <1>3
  <2>2. k \in Shards /\ k + 1 \in 0 .. ShardCount
    <3>1. k \in 0 .. ShardCount
      BY DEF TypeOK
    <3> QED
      BY <1>1, <3>1, ShardsAssumption DEF Shards
  <2>3. TypeOK'
    BY <2>1, <2>2 DEF TypeOK, memory
  <2>4. RegionSound' /\ PublishedSound' /\ OpenedIsStored' /\ CreatorsApart'
    BY <2>1 DEF RegionSound, RegionAt, PublishedSound, OpenedIsStored, CreatorsApart,
       Finished, AllButOneStored, memory
  <2>5. CreatorSound'
    BY <1>1, <2>1 DEF CreatorSound, CreatorAt, Creating, TypeOK, memory
  <2>6. OpenerSound'
    <3> SUFFICES ASSUME NEW q \in Procs PROVE OpenerAt(q)'
      BY DEF OpenerSound
    <3>1. CASE q # p
      BY <2>1, <3>1 DEF OpenerSound, OpenerAt, TypeOK, memory
    <3>2. CASE q = p
      <4>1. \A s \in Shards : s < k + 1 => s < k \/ s = k
        BY <2>2 DEF Shards
      <4>2. shard'[p] = k + 1 /\ OpenerAt(p)
        BY <2>1 DEF TypeOK, OpenerSound
      <4>3. CASE pc[p] = "heap"
        BY <1>3, <2>1, <3>2, <4>1, <4>2, <4>3 DEF OpenerAt, HeapGood, memory
      <4>4. CASE pc[p] = "lists"
        BY <1>3, <2>1, <3>2, <4>1, <4>2, <4>4 DEF OpenerAt, memory
      <4> QED
        BY <1>1, <4>3, <4>4
    <3> QED
      BY <3>1, <3>2
  <2> QED
    BY <2>3, <2>4, <2>5, <2>6
<1> QED
  BY <1>2, <1>3

\* The second pass begins once every first block has been seen.
LEMMA HeapDoneStep ==
  ASSUME IInv, NEW p \in Procs, HeapDone(p)
  PROVE  IInv'
<1> USE DEF IInv, HeapDone, At, Goto, memory, ghosts
<1>1. TypeOK'
  BY ShardsAssumption DEF TypeOK, Opening
<1>2. RegionSound' /\ PublishedSound' /\ OpenedIsStored'
  BY DEF RegionSound, RegionAt, PublishedSound, OpenedIsStored, Finished, AllButOneStored
<1>3. CreatorSound' /\ CreatorsApart'
  BY DEF CreatorSound, CreatorAt, CreatorsApart, Creating, TypeOK
<1>4. OpenerSound'
  <2>1. \A s \in Shards : s < ShardCount /\ ~(s < 0)
    BY ShardsAssumption DEF Shards
  <2> QED
    BY <2>1 DEF OpenerSound, OpenerAt, TypeOK
<1> QED
  BY <1>1, <1>2, <1>3, <1>4

\* The tail of the heap makes the opener fail.
LEMMA CheckTailStep ==
  ASSUME IInv, NEW p \in Procs, CheckTail(p)
  PROVE  IInv'
<1>1. "INVALID_STATE" \in Codes /\ pc[p] \in Opening
  BY DEF CheckTail, At, Codes, Opening
<1> QED
  BY <1>1, FailedOpenStep DEF CheckTail

\* An opener that has made every check misses at most the last store.
LEMMA OpenDoneStep ==
  ASSUME IInv, NEW p \in Procs, OpenDone(p)
  PROVE  IInv'
<1> DEFINE r == mine[p]
           last == ShardCount - 1
<1> USE DEF IInv, OpenDone, Return, At, Goto, memory
<1>1. r \in Regions /\ OpenerAt(p) /\ RegionAt(r) /\ region[r] \in Headers
  BY DEF TypeOK, OpenerSound, RegionSound
<1>2. AllButOneStored(r)
  <2>1. /\ \A s \in Shards : s < ShardCount /\ (s # last => s < last)
        /\ last \in Shards /\ 0 \in Shards /\ last # 0
    BY ShardsAssumption DEF Shards
  <2>2. \A s \in Shards : stage[r][s] >= SizeStored /\ ListGood(stage[r][s], s)
    BY <1>1, <2>1 DEF OpenerAt
  <2>3. stage[r] \in [Shards -> NoStore .. PayloadStored]
    BY <1>1 DEF TypeOK
  <2>4. stage[r][last] >= ShardStored
    <3>1. PICK x \in Nat : x = stage[r][last]
      BY <1>1, <2>1, StageType
    <3>2. x >= 2 /\ (x = 0 \/ (x >= 4 /\ (last = 0 \/ x >= 5)))
      BY <2>1, <2>2, <3>1 DEF ListGood, NoStore, SizeStored, FlagStored, ShardStored
    <3> QED
      BY <2>1, <3>1, <3>2 DEF ShardStored
  <2>5. /\ region[r].allocator
        /\ \A s \in Shards : s # last => stage[r][s] = PayloadStored
    BY <1>1, <2>1, <2>3, <2>4 DEF RegionAt, NoStore, ShardStored, PayloadStored
  <2>6. /\ region[r].sized = TRUE /\ region[r].state_flags = "READY"
        /\ region[r].checksum = TRUE /\ region[r].allocator = TRUE
    BY <1>1, <2>5 DEF RegionAt, Headers
  <2>7. region[r] = Complete
    BY <1>1, <2>6 DEF Headers, Complete
  <2> QED
    BY <2>4, <2>5, <2>7 DEF AllButOneStored, ShardStored, PayloadStored
<1>3. TypeOK'
  BY <1>1, ShardsAssumption DEF TypeOK, Give, Codes
<1>4. RegionSound' /\ PublishedSound' /\ OpenedIsStored'
  <2>1. RegionSound' /\ PublishedSound'
    BY DEF RegionSound, RegionAt, PublishedSound, Finished, AllButOneStored
  <2>2. \A x : AllButOneStored(x) => AllButOneStored(x)'
    BY DEF AllButOneStored
  <2>3. \A q \in Procs : mapped'[q] = IF q = p THEN r ELSE mapped[q]
    BY DEF TypeOK
  <2> QED
    BY <1>2, <2>1, <2>2, <2>3 DEF OpenedIsStored
<1>5. CreatorSound' /\ CreatorsApart'
  BY DEF CreatorSound, CreatorAt, CreatorsApart, Creating, TypeOK
<1>6. OpenerSound'
  BY DEF OpenerSound, OpenerAt, TypeOK
<1> QED
  BY <1>3, <1>4, <1>5, <1>6

-----------------------------------------------------------------------------
\* Every step keeps the invariant.
LEMMA NextInv == IInv /\ [Next]_vars => IInv'
<1> SUFFICES ASSUME IInv, [Next]_vars PROVE IInv'
  OBVIOUS
<1>1. CASE UNCHANGED vars
  <2> USE <1>1 DEF IInv, vars, memory, ghosts
  <2>1. TypeOK' /\ RegionSound' /\ PublishedSound' /\ OpenedIsStored'
    BY DEF TypeOK, RegionSound, RegionAt, PublishedSound, OpenedIsStored, Finished, AllButOneStored
  <2>2. CreatorSound' /\ CreatorsApart' /\ OpenerSound'
    BY DEF CreatorSound, CreatorAt, CreatorsApart, OpenerSound, OpenerAt
  <2> QED
    BY <2>1, <2>2
<1>2. ASSUME NEW p \in Procs, Create(p) PROVE IInv'
  BY <1>2, AdvanceStep, BootstrapUnlinksStep, HeaderStep, StoreBlockStep, BootstrapDoneStep
     DEF Create
<1>3. ASSUME NEW p \in Procs, Attach(p) PROVE IInv'
  BY <1>3, CheckStep, ScanStep, HeapDoneStep, CheckTailStep, OpenDoneStep DEF Attach
<1>4. ASSUME NEW p \in Procs, NEW r \in Regions, NEW form \in Rooms, Bootstrap(p, r, form)
      PROVE  IInv'
  BY <1>4, BootstrapStep
<1>5. ASSUME NEW p \in Procs,
             BootstrapExists(p) \/ OpenNotFound(p) \/ Close(p) \/ Unlink(p) \/ SystemFails(p)
      PROVE  IInv'
  BY <1>5, CallStep
<1>6. ASSUME NEW p \in Procs, Open(p) \/ Crash(p) PROVE IInv'
  BY <1>6, OpenStep, CrashStep
<1>7. ASSUME NEW p \in Procs, NEW s \in Shards, Allocate(p, s) PROVE IInv'
  BY <1>7, AllocateStep
<1> QED
  BY <1>1, <1>2, <1>3, <1>4, <1>5, <1>6, <1>7 DEF Next

\* The inductive invariant holds in every reachable state.
THEOREM LifecycleInvariant == Spec => []IInv
<1> QED
  BY InitInv, NextInv, PTL DEF Spec

(* The types hold for any number of processes, regions and shards.         *)
THEOREM LifecycleTypeCorrect == Spec => []TypeOK
<1>1. IInv => TypeOK
  BY DEF IInv
<1> QED
  BY <1>1, LifecycleInvariant, PTL

(* A store that offset_store_open_existing or offset_store_bootstrap has   *)
(* returned has all that allocator_init stores except, while its creator   *)
(* is still at it or after it died there, the very last store: payload_    *)
(* offset of the last shard's block.  The checks of the opener, in their   *)
(* order, tell it from any region that lacks more.                         *)
THEOREM LifecycleOpenedIsStored == Spec => []OpenedIsStored
<1>1. IInv => OpenedIsStored
  BY DEF IInv
<1> QED
  BY <1>1, LifecycleInvariant, PTL

-----------------------------------------------------------------------------
(* What a step does to the labels, and the action properties.              *)

\* Nobody moves another process.
LEMMA OthersStay ==
  ASSUME TypeOK, NEW p \in Procs, NEW q \in Procs \ {p},
         \/ \E r \in Regions, form \in Rooms : Bootstrap(p, r, form)
         \/ \E s \in Shards : Allocate(p, s)
         \/ BootstrapExists(p) \/ OpenNotFound(p) \/ Open(p)
         \/ Close(p) \/ Unlink(p) \/ SystemFails(p) \/ Crash(p)
         \/ Create(p) \/ Attach(p)
  PROVE  pc'[q] = pc[q]
<1> USE DEF TypeOK, Goto
<1>1. CASE \/ \E r \in Regions, form \in Rooms : Bootstrap(p, r, form)
           \/ \E s \in Shards : Allocate(p, s)
           \/ BootstrapExists(p) \/ OpenNotFound(p) \/ Open(p)
           \/ Close(p) \/ Unlink(p) \/ SystemFails(p) \/ Crash(p)
  BY <1>1 DEF Allocate, Bootstrap, BootstrapExists, OpenNotFound, Open, Close, Unlink,
     SystemFails, Crash
<1>2. CASE Create(p)
  BY <1>2 DEF Create, Truncate, InitHeader, InitMutexes, StoreReady, StoreChecksum, InitAllocator,
     InitShardMutexes, StoreBlock, BootstrapDone, BootstrapFails, BootstrapUnlinks, StoreHeader,
     Advance, Return
<1>3. CASE Attach(p)
  BY <1>3 DEF Attach, Stat, StatFails, CheckHeader, CheckAllocator, CheckHeap, HeapDone, CheckTail,
     CheckLists, OpenDone, Check, Scan, Return
<1> QED
  BY <1>1, <1>2, <1>3

\* A call that is under way returns by a step of the creator or the opener.
LEMMA ReturnSteps ==
  ASSUME TypeOK, Next, NEW p \in Procs, pc[p] # "idle", pc'[p] = "idle"
  PROVE  \/ pc[p] \in Creating /\ Create(p)
         \/ pc[p] \in Opening /\ Attach(p)
<1>1. PICK q \in Procs :
        \/ \E r \in Regions, form \in Rooms : Bootstrap(q, r, form)
        \/ \E s \in Shards : Allocate(q, s)
        \/ BootstrapExists(q) \/ OpenNotFound(q) \/ Open(q)
        \/ Close(q) \/ Unlink(q) \/ SystemFails(q) \/ Crash(q)
        \/ Create(q) \/ Attach(q)
  BY DEF Next
<1>2. q = p
  BY <1>1, OthersStay
<1>3. Create(p) \/ Attach(p)
  BY <1>1, <1>2 DEF Allocate, Bootstrap, BootstrapExists, OpenNotFound, Open, Close, Unlink,
     SystemFails, Crash, Call, At
<1>4. Create(p) => pc[p] \in Creating
  BY DEF Creating, At, Create, Truncate, InitHeader, InitMutexes, StoreReady, StoreChecksum,
     InitAllocator, InitShardMutexes, StoreBlock, BootstrapDone, BootstrapFails, BootstrapUnlinks,
     StoreHeader, Advance
<1>5. Attach(p) => pc[p] \in Opening
  BY DEF Opening, At, Attach, Stat, StatFails, CheckHeader, CheckAllocator, CheckHeap,
     HeapDone, CheckTail, CheckLists, OpenDone, Check, Scan
<1> QED
  BY <1>3, <1>4, <1>5

(* offset_store_open_existing never returns INVALID_STATE for a store that *)
(* bootstrap has returned, unless the heap of the store has a tail that    *)
(* belongs to no shard: no order of the opener's checks and the creator's  *)
(* stores makes it read a finished store as a broken one.                  *)
THEOREM LifecycleOpenAcceptsPublished == Spec => OpenAcceptsPublished
<1> DEFINE Accepts == \A p \in Procs :
      pc[p] \in Opening /\ status'[p] = "INVALID_STATE" /\ pc'[p] = "idle" =>
        mine[p] \notin published \/ room[mine[p]] = "tail"
<1>1. ASSUME IInv, [Next]_vars PROVE [Accepts]_vars
  <2> SUFFICES ASSUME Next, NEW p \in Procs,
                      pc[p] \in Opening, status'[p] = "INVALID_STATE", pc'[p] = "idle",
                      mine[p] \in published, room[mine[p]] # "tail"
               PROVE  FALSE
    BY <1>1
  <2>1. Attach(p)
    BY <1>1, ReturnSteps DEF IInv, Opening, Creating
  <2>2. /\ HeaderValid(p) /\ Mine(p).allocator
        /\ \A s \in Shards : stage[mine[p]][s] = PayloadStored
    BY <1>1 DEF IInv, PublishedSound, Finished, Complete, HeaderValid, Mine
  <2>3. shard[p] < ShardCount => HeapGood(MyStage(p)) /\ ListGood(MyStage(p), shard[p])
    <3>1. shard[p] < ShardCount => shard[p] \in Shards
      BY <1>1, ShardsAssumption DEF IInv, TypeOK, Shards
    <3> QED
      BY <2>2, <3>1 DEF HeapGood, ListGood, MyStage, SizeStored, FlagStored, ShardStored,
         PayloadStored
  <2> USE DEF Goto, Give, Return
  <2>4. status \in [Procs -> Codes] /\ pc \in [Procs -> {"idle"} \cup Creating \cup Opening]
    BY <1>1 DEF IInv, TypeOK
  <2>5. ~Stat(p) /\ ~StatFails(p)
    BY <2>4 DEF Stat, StatFails, Check
  <2>6. ~CheckHeader(p) /\ ~CheckAllocator(p)
    BY <2>2, <2>4 DEF CheckHeader, CheckAllocator, Check
  <2>7. ~CheckHeap(p) /\ ~CheckLists(p)
    BY <2>3, <2>4 DEF CheckHeap, CheckLists, Scan, Opening
  <2>8. ~HeapDone(p) /\ ~CheckTail(p) /\ ~OpenDone(p)
    BY <2>4 DEF HeapDone, CheckTail, OpenDone
  <2> QED
    BY <2>1, <2>5, <2>6, <2>7, <2>8 DEF Attach
<1>2. Spec => [][Accepts]_vars
  BY <1>1, LifecycleInvariant, PTL DEF Spec
<1> QED
  BY <1>2 DEF OpenAcceptsPublished

(* A bootstrap that returns an error has removed the name of the region it *)
(* made, at whichever system call it failed.                               *)
THEOREM LifecycleFailureLeavesNoName == Spec => FailureLeavesNoName
<1> DEFINE NoName == \A p \in Procs :
      pc[p] \in Creating /\ pc'[p] = "idle" /\ status'[p] # "OK" => named' # mine[p]
<1>1. ASSUME IInv, [Next]_vars PROVE [NoName]_vars
  <2> SUFFICES ASSUME Next, NEW p \in Procs,
                      pc[p] \in Creating, pc'[p] = "idle", status'[p] # "OK"
               PROVE  named' # mine[p]
    BY <1>1
  <2>1. Create(p)
    BY <1>1, ReturnSteps DEF IInv, Opening, Creating
  <2>2. /\ status \in [Procs -> Codes] /\ mine[p] \in Regions
        /\ pc \in [Procs -> {"idle"} \cup Creating \cup Opening]
    BY <1>1 DEF IInv, TypeOK, Creating
  <2>3. BootstrapUnlinks(p)
    BY <2>1, <2>2 DEF Creating, Goto, Give, Create, Truncate, InitHeader, InitMutexes, StoreReady,
       StoreChecksum, InitAllocator, InitShardMutexes, StoreBlock, BootstrapDone, BootstrapFails,
       StoreHeader, Advance, Return
  <2> QED
    BY <2>2, <2>3, RegionsAssumption DEF BootstrapUnlinks
<1>2. Spec => [][NoName]_vars
  BY <1>1, LifecycleInvariant, PTL DEF Spec
<1> QED
  BY <1>2 DEF FailureLeavesNoName

-----------------------------------------------------------------------------
(* The name, when clients are careful.                                     *)

\* A step that leaves the name, and brings no new creator.
LEMMA NameKept ==
  ASSUME NameSound, named' = named, published' = published, unlinked' = unlinked,
         crashed \subseteq crashed',
         \A q \in Procs : pc'[q] \in Creating => pc[q] \in Creating /\ mine'[q] = mine[q]
  PROVE  NameSound'
BY DEF NameSound, PublishedKeepsName

\* Every step keeps what NameSound says.
LEMMA NextName ==
  ASSUME CarefulUnlinks, IInv, NameSound, [Next]_vars
  PROVE  NameSound'
<1> USE DEF IInv
<1>1. CASE UNCHANGED vars
  BY <1>1, NameKept DEF vars, ghosts
<1>2. ASSUME NEW p \in Procs, NEW r \in Regions, NEW form \in Rooms, Bootstrap(p, r, form)
      PROVE  NameSound'
  <2>1. \A q \in Procs \ crashed : pc[q] \notin Creating
    BY <1>2, RegionsAssumption DEF NameSound, Bootstrap, TypeOK, Creating
  <2>2. published \ unlinked = {}
    BY <1>2, RegionsAssumption DEF NameSound, PublishedKeepsName, Bootstrap, TypeOK
  <2> QED
    BY <1>2, <2>1, <2>2 DEF NameSound, PublishedKeepsName, Bootstrap, Call, Goto, TypeOK, ghosts
<1>3. ASSUME NEW p \in Procs, Unlink(p) PROVE NameSound'
  BY <1>3, BoundsAssumption
     DEF NameSound, PublishedKeepsName, Unlink, Quiet, Call, TypeOK
<1>4. ASSUME NEW p \in Procs, BootstrapUnlinks(p) PROVE NameSound'
  <2>1. named = mine[p] /\ mine[p] \notin published /\ pc[p] = "unlink" /\ p \notin crashed
    BY <1>4 DEF NameSound, BootstrapUnlinks, At, Creating, CreatorSound, CreatorAt
  <2>2. published \ unlinked = {}
    BY <2>1 DEF NameSound, PublishedKeepsName
  <2>3. \A q \in Procs \ crashed : q # p => pc[q] \notin Creating
    BY <2>1 DEF NameSound, CreatorsApart, Creating
  <2>4. \A q \in Procs \ crashed : pc'[q] \notin Creating
    BY <1>4, <2>3 DEF BootstrapUnlinks, Return, Goto, TypeOK, Creating
  <2> QED
    BY <1>4, <2>2, <2>4 DEF NameSound, PublishedKeepsName, BootstrapUnlinks, Return
<1>5. ASSUME NEW p \in Procs, BootstrapDone(p) PROVE NameSound'
  <2>1. named = mine[p]
    BY <1>5 DEF NameSound, BootstrapDone, At, Creating
  <2>2. \A q \in Procs : pc'[q] \in Creating => pc'[q] = pc[q] /\ mine'[q] = mine[q]
    BY <1>5 DEF BootstrapDone, Return, Goto, TypeOK, Creating
  <2> QED
    BY <1>5, <2>1, <2>2 DEF NameSound, PublishedKeepsName, BootstrapDone, Return
<1>6. ASSUME NEW p \in Procs,
             \/ BootstrapExists(p) \/ OpenNotFound(p) \/ Open(p)
             \/ Close(p) \/ SystemFails(p) \/ Crash(p)
      PROVE  NameSound'
  BY <1>6, NameKept DEF BootstrapExists, OpenNotFound, Open, Close, SystemFails, Crash, Call,
     Goto, TypeOK, Creating, ghosts
<1>7. ASSUME NEW p \in Procs,
             \/ Truncate(p) \/ InitHeader(p) \/ InitMutexes(p) \/ StoreReady(p)
             \/ StoreChecksum(p) \/ InitAllocator(p) \/ InitShardMutexes(p)
             \/ StoreBlock(p) \/ BootstrapFails(p)
      PROVE  NameSound'
  BY <1>7, NameKept DEF Truncate, InitHeader, InitMutexes, StoreReady, StoreChecksum,
     InitAllocator, InitShardMutexes, StoreBlock, BootstrapFails, StoreHeader, Advance, At, Goto,
     TypeOK, Creating, ghosts
<1>8. ASSUME NEW p \in Procs, Attach(p) PROVE NameSound'
  BY <1>8, NameKept DEF Attach, Stat, StatFails, CheckHeader, CheckAllocator, CheckHeap,
     HeapDone, CheckTail, CheckLists, OpenDone, Check, Scan, Return, At, Goto, TypeOK,
     Creating, ghosts
<1>9. ASSUME NEW p \in Procs, NEW s \in Shards, Allocate(p, s) PROVE NameSound'
  BY <1>9, NameKept DEF Allocate, ghosts
<1> QED
  BY <1>1, <1>2, <1>3, <1>4, <1>5, <1>6, <1>7, <1>8, <1>9 DEF Next, Create

(* If no client unlinks the name while a bootstrap is under way, a store   *)
(* that bootstrap has returned is found under its name until a client      *)
(* unlinks it: no failed bootstrap removes it.                             *)
THEOREM LifecyclePublishedKeepsName ==
  ASSUME CarefulUnlinks
  PROVE  Spec => []PublishedKeepsName
<1>1. Init => NameSound
  BY DEF Init, NameSound, PublishedKeepsName, Creating
<1>2. IInv /\ NameSound /\ [Next]_vars => NameSound'
  BY NextName
<1>3. NameSound => PublishedKeepsName
  BY DEF NameSound
<1> QED
  BY <1>1, <1>2, <1>3, LifecycleInvariant, PTL DEF Spec

-----------------------------------------------------------------------------
(* Once bootstrap has returned a store, nothing of the set-up touches it   *)
(* any more: what processes allocate in it stays allocated.                *)
THEOREM LifecyclePublishedKeepsAllocations ==
  Spec => [][\A r \in published : used[r] \subseteq used'[r]]_vars
<1> DEFINE Keeps == \A r \in published : used[r] \subseteq used'[r]
<1>1. ASSUME IInv, [Next]_vars PROVE [Keeps]_vars
  <2> SUFFICES ASSUME Next, NEW r \in published PROVE used[r] \subseteq used'[r]
    BY <1>1
  <2>1. r \in Regions /\ used \in [Regions -> SUBSET Shards]
    BY <1>1 DEF IInv, TypeOK
  <2>2. PICK p \in Procs :
          \/ \E x \in Regions, form \in Rooms : Bootstrap(p, x, form)
          \/ \E s \in Shards : Allocate(p, s)
          \/ BootstrapExists(p) \/ OpenNotFound(p) \/ Open(p)
          \/ Close(p) \/ Unlink(p) \/ SystemFails(p) \/ Crash(p)
          \/ Create(p) \/ Attach(p)
    BY DEF Next
  <2>3. CASE \E s \in Shards : Allocate(p, s)
    BY <2>1, <2>3 DEF Allocate
  <2>4. CASE StoreBlock(p)
    <3>1. mine[p] # r
      BY <1>1, <2>4 DEF StoreBlock, At, IInv, CreatorSound, CreatorAt, Creating
    <3> QED
      BY <2>1, <2>4, <3>1 DEF StoreBlock
  <2>5. CASE \/ \E x \in Regions, form \in Rooms : Bootstrap(p, x, form)
             \/ BootstrapExists(p) \/ OpenNotFound(p) \/ Open(p)
             \/ Close(p) \/ Unlink(p) \/ SystemFails(p) \/ Crash(p)
    BY <2>5 DEF Bootstrap, BootstrapExists, OpenNotFound, Open, Close, Unlink,
       SystemFails, Crash, Call, memory
  <2>6. CASE Create(p) /\ ~StoreBlock(p)
    BY <2>6 DEF Create, Truncate, InitHeader, InitMutexes, StoreReady, StoreChecksum,
       InitAllocator, InitShardMutexes, BootstrapDone, BootstrapFails, BootstrapUnlinks,
       StoreHeader, Advance, Return, memory
  <2>7. CASE Attach(p)
    BY <2>7 DEF Attach, Stat, StatFails, CheckHeader, CheckAllocator, CheckHeap, HeapDone,
       CheckTail, CheckLists, OpenDone, Check, Scan, Return, memory
  <2> QED
    BY <2>2, <2>3, <2>4, <2>5, <2>6, <2>7
<1> QED
  BY <1>1, LifecycleInvariant, PTL DEF Spec
============================================================================
