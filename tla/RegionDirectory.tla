-------------------------- MODULE RegionDirectory --------------------------
(***************************************************************************)
(* The root table and the index of src/core/shm_region.c: set, get, remove *)
(* and contains, the header checksum that every update refreshes, and the  *)
(* two paths that check it, shm_region_open and shm_region_validate.       *)
(*                                                                         *)
(* Each table has a reader-writer lock, but the checksum covers both       *)
(* tables and is computed under the lock of one of them; the checking      *)
(* paths take no lock to read it.  An update is therefore modelled store   *)
(* by store and a checksum table by table.  The checksum of two tables is  *)
(* the pair of their contents (FNV-1a collisions are left out).            *)
(***************************************************************************)
EXTENDS Integers, FiniteSets

CONSTANTS
  Procs, NoProc,
  Names, NoName,            \* NoName is the empty string
  Objects, NoObject,        \* NoObject is offset_ptr_null()
  RootCapacity,             \* OFFSET_STORE_ROOT_CAPACITY
  IndexCapacity,            \* OFFSET_STORE_INDEX_CAPACITY
  Ops,                      \* operations the processes call
  MaxCalls,                 \* bound: calls of each process
  MaxCrashes                \* bound: processes that die

Tables == {"roots", "index"}
Capacity(tb) == IF tb = "roots" THEN RootCapacity ELSE IndexCapacity
Slots(tb) == 1 .. Capacity(tb)

ASSUME ProcsAssumption == NoProc \notin Procs
ASSUME NamesAssumption == NoName \notin Names /\ NoObject \notin Objects
ASSUME CapacityAssumption == RootCapacity \in Nat /\ IndexCapacity \in Nat
ASSUME OpsAssumption ==
  Ops \subseteq {"put", "get", "remove", "contains", "open", "validate"}
ASSUME BoundsAssumption == MaxCalls \in [Procs -> Nat] /\ MaxCrashes \in Nat

VARIABLES
  table,            \* header->roots and header->index
  header_checksum,
  writer, readers,  \* holders of roots_rwlock and index_rwlock
  pc, req,          \* where each call is, and what it was asked for
  slot,             \* entry found by a put or remove
  seen,             \* what a checksum computation has read so far
  sum,              \* header_checksum as a validation read it, if it has
  answer,           \* what the call is going to return
  calls, crashed,
  overlapped        \* ghost: the last update met another one under way

locks == <<writer, readers>>
locals == <<req, slot, seen, sum>>
vars == <<table, header_checksum, locks, pc, locals, answer, calls, crashed,
          overlapped>>

Entry(u, n, o) == [in_use |-> u, name |-> n, object |-> o]
Unused == Entry(0, NoName, NoObject)

\* shm_region_is_root_name_valid and its twin, offset_ptr_is_null.
Valid(r) == r.name # NoName /\ (r.op = "put" => r.object # NoObject)

Requests ==
  {r \in [op : Ops, table : Tables, name : Names \cup {NoName},
          object : Objects \cup {NoObject}] :
     /\ r.op # "put" => r.object = NoObject
     /\ r.op = "contains" => r.table = "index"
     /\ r.op \in {"open", "validate"} =>
          r.table = "roots" /\ r.name = NoName}
NoRequest == [op |-> "none", table |-> "roots", name |-> NoName,
              object |-> NoObject]
NoAnswer == <<"none">>

\* shm_region_create leaves empty tables and their checksum.
Empty == [tb \in Tables |-> [i \in Slots(tb) |-> Unused]]

Init ==
  /\ table = Empty
  /\ header_checksum = table
  /\ writer = [tb \in Tables |-> NoProc]
  /\ readers = [tb \in Tables |-> {}]
  /\ pc = [p \in Procs |-> "idle"]
  /\ req = [p \in Procs |-> NoRequest]
  /\ slot = [p \in Procs |-> 0]
  /\ seen = [p \in Procs |-> Empty]
  /\ sum = [p \in Procs |-> {}]
  /\ answer = [p \in Procs |-> NoAnswer]
  /\ calls = [p \in Procs |-> 0]
  /\ crashed = {}
  /\ overlapped = FALSE

-----------------------------------------------------------------------------
At(p, label) == p \notin crashed /\ pc[p] = label
Goto(p, label) == pc' = [pc EXCEPT ![p] = label]
Give(p, a) == answer' = [answer EXCEPT ![p] = a]

\* The call returns and its locals are gone.
Return(p) ==
  /\ Goto(p, "idle")
  /\ req' = [req EXCEPT ![p] = NoRequest]
  /\ slot' = [slot EXCEPT ![p] = 0]
  /\ seen' = [seen EXCEPT ![p] = Empty]
  /\ sum' = [sum EXCEPT ![p] = {}]

Call(p) ==
  /\ At(p, "idle") /\ calls[p] < MaxCalls[p]
  /\ calls' = [calls EXCEPT ![p] = @ + 1]

Reject(p, r) ==
  /\ Call(p)
  /\ r.op \notin {"open", "validate"} /\ ~Valid(r)
  /\ Give(p, <<"INVALID_ARGUMENT">>)
  /\ UNCHANGED <<table, header_checksum, locks, pc, locals, crashed, overlapped>>

Start(p, r) ==
  /\ Call(p)
  /\ req' = [req EXCEPT ![p] = r]
  /\ r.op \in {"open", "validate"} \/ Valid(r)
  /\ Goto(p, CASE r.op \in {"put", "remove"}      -> "wrlock"
               [] r.op \in {"get", "contains"}    -> "rdlock"
               [] r.op \in {"open", "validate"}   -> "check")
  /\ Give(p, NoAnswer)
  /\ UNCHANGED <<table, header_checksum, locks, slot, seen, sum, crashed,
                 overlapped>>

\* pthread_rwlock_wrlock and pthread_rwlock_rdlock.
Free(tb) == writer[tb] = NoProc /\ readers[tb] = {}

\* Mutant: a reader does not wait for the writer.
ReadDuringWrite(p) ==
  /\ At(p, "rdlock")
  /\ readers' = [readers EXCEPT ![req[p].table] = @ \cup {p}]
  /\ Goto(p, "read")
  /\ UNCHANGED <<table, header_checksum, writer, locals, answer, calls,
                 crashed, overlapped>>

WriteLock(p) ==
  /\ At(p, "wrlock")
  /\ Free(req[p].table)
  /\ writer' = [writer EXCEPT ![req[p].table] = p]
  /\ Goto(p, "find")
  /\ UNCHANGED <<table, header_checksum, readers, locals, answer, calls,
                 crashed, overlapped>>

ReadLock(p) ==
  /\ At(p, "rdlock")
  /\ writer[req[p].table] = NoProc
  /\ readers' = [readers EXCEPT ![req[p].table] = @ \cup {p}]
  /\ Goto(p, "read")
  /\ UNCHANGED <<table, header_checksum, writer, locals, answer, calls,
                 crashed, overlapped>>

\* The caller takes the answer with it.
Unlock(p) ==
  /\ At(p, "unlock")
  /\ writer' = [writer EXCEPT ![req[p].table] = IF @ = p THEN NoProc ELSE @]
  /\ readers' = [readers EXCEPT ![req[p].table] = @ \ {p}]
  /\ Give(p, NoAnswer)
  /\ Return(p)
  /\ UNCHANGED <<table, header_checksum, calls, crashed, overlapped>>

-----------------------------------------------------------------------------
(* shm_region_set_root, shm_region_index_put and the two removals.         *)

Named(tb, n) ==
  {i \in Slots(tb) : table[tb][i].in_use = 1 /\ table[tb][i].name = n}
\* Mutant: the search for a free slot runs one slot too far.
FreeSlotsPastEnd(tb) ==
  {i \in 1 .. Capacity(tb) + 1 : i \in Slots(tb) => table[tb][i].in_use = 0}
FreeSlots(tb) == {i \in Slots(tb) : table[tb][i].in_use = 0}
First(S) == CHOOSE i \in S : \A j \in S : i <= j

\* Mutant: a put does not look for the name first.
CandidatesBlind(r) ==
  IF r.op = "remove" THEN Named(r.table, r.name) ELSE FreeSlots(r.table)
\* The entry an update writes: the named one, else for a put a free one.
Candidates(r) ==
  IF Named(r.table, r.name) # {} \/ r.op = "remove"
  THEN Named(r.table, r.name) ELSE FreeSlots(r.table)

\* The call is storing its entry, and then refreshing the checksum.
Storing(p) == pc[p] \in {"in_use", "name", "object"}
Updating(p) == Storing(p) \/ pc[p] \in {"sum_roots", "sum_index", "sum_store"}

\* Mutant: the early return forgets the unlock.
FindFailsKeepsLock(p) ==
  /\ At(p, "find")
  /\ Candidates(req[p]) = {}
  /\ Give(p, IF req[p].op = "put" THEN <<"OUT_OF_MEMORY">> ELSE <<"NOT_FOUND">>)
  /\ Return(p)
  /\ UNCHANGED <<table, header_checksum, locks, calls, crashed, overlapped>>

FindFails(p) ==
  /\ At(p, "find")
  /\ Candidates(req[p]) = {}
  /\ Give(p, IF req[p].op = "put" THEN <<"OUT_OF_MEMORY">> ELSE <<"NOT_FOUND">>)
  /\ Goto(p, "unlock")
  /\ UNCHANGED <<table, header_checksum, locks, locals, calls, crashed,
                 overlapped>>

Find(p) ==
  /\ At(p, "find")
  /\ Candidates(req[p]) # {}
  /\ slot' = [slot EXCEPT ![p] = First(Candidates(req[p]))]
  /\ Give(p, <<"OK">>)
  /\ Goto(p, "in_use")
  /\ overlapped' = \E q \in Procs : Updating(q)
  /\ UNCHANGED <<table, header_checksum, locks, req, seen, sum, calls, crashed>>

Target(p) ==
  IF req[p].op = "put" THEN Entry(1, req[p].name, req[p].object) ELSE Unused

\* entry->in_use, entry->name and entry->object, in this order.
StoreField(p, field, next) ==
  /\ At(p, field)
  /\ table' = [table EXCEPT
                 ![req[p].table][slot[p]][field] = Target(p)[field]]
  /\ Goto(p, next)
  /\ UNCHANGED <<header_checksum, locks, locals, answer, calls, crashed,
                 overlapped>>

Store(p) ==
  \/ StoreField(p, "in_use", "name")
  \/ StoreField(p, "name", "object")
  \/ StoreField(p, "object", "sum_roots")

\* shm_region_refresh_header_checksum: read both tables, store the checksum.
SumTable(p, label, tb, next) ==
  /\ At(p, label)
  /\ seen' = [seen EXCEPT ![p][tb] = table[tb]]
  /\ Goto(p, next)
  /\ UNCHANGED <<table, header_checksum, locks, req, slot, sum, answer, calls,
                 crashed, overlapped>>

\* Mutant: the checksum leaves the index table out.
SumRootsOnly(p) == SumTable(p, "sum_roots", "roots", "sum_store")

SumTables(p) ==
  \/ SumTable(p, "sum_roots", "roots", "sum_index")
  \/ SumTable(p, "sum_index", "index", "sum_store")

SumStore(p) ==
  /\ At(p, "sum_store")
  /\ header_checksum' = seen[p]
  /\ Goto(p, "unlock")
  /\ UNCHANGED <<table, locks, locals, answer, calls, crashed, overlapped>>

-----------------------------------------------------------------------------
(* shm_region_get_root, shm_region_index_get, shm_region_index_contains.   *)

Found(tb, n) == table[tb][First(Named(tb, n))].object

Read(p) ==
  /\ At(p, "read")
  /\ LET r == req[p]
         known == Named(r.table, r.name) # {}
     IN Give(p, IF r.op = "contains" THEN <<"OK", known>>
                ELSE IF known THEN <<"OK", Found(r.table, r.name)>>
                ELSE <<"NOT_FOUND">>)
  /\ Goto(p, "unlock")
  /\ UNCHANGED <<table, header_checksum, locks, locals, calls, crashed,
                 overlapped>>

-----------------------------------------------------------------------------
(* shm_region_validate_header, the check behind open and validate.  In     *)
(* header_checksum == compute(header) the operands have no order: the      *)
(* stored checksum may be read first or last.                              *)

CheckStart(p) ==
  /\ At(p, "check")
  /\ \E first \in {{}, {header_checksum}} : sum' = [sum EXCEPT ![p] = first]
  /\ Goto(p, "check_roots")
  /\ UNCHANGED <<table, header_checksum, locks, req, slot, seen, answer, calls,
                 crashed, overlapped>>

CheckTables(p) ==
  \/ SumTable(p, "check_roots", "roots", "check_index")
  \/ SumTable(p, "check_index", "index", "compare")

Matches(p) == seen[p] \in (IF sum[p] = {} THEN {header_checksum} ELSE sum[p])

Compare(p) ==
  /\ At(p, "compare")
  /\ Give(p, IF Matches(p) THEN <<"OK">> ELSE <<"INVALID_STATE">>)
  /\ IF Matches(p) /\ req[p].op = "validate"
     THEN Goto(p, "try") /\ UNCHANGED locals ELSE Return(p)
  /\ UNCHANGED <<table, header_checksum, locks, calls, crashed, overlapped>>

\* shm_region_validate_rwlock: trywrlock and unlock, or EBUSY.
\* The roots lock is tried before the index lock.
TryNext(p) ==
  IF req[p].table = "roots"
  THEN /\ Goto(p, "try")
       /\ req' = [req EXCEPT ![p].table = "index"]
       /\ UNCHANGED <<slot, seen, sum>>
  ELSE Return(p)

TryLock(p) ==
  /\ At(p, "try")
  /\ Free(req[p].table)
  /\ writer' = [writer EXCEPT ![req[p].table] = p]
  /\ Goto(p, "tried")
  /\ UNCHANGED <<table, header_checksum, readers, locals, answer, calls,
                 crashed, overlapped>>

TryBusy(p) ==
  /\ At(p, "try")
  /\ ~Free(req[p].table)
  /\ TryNext(p)
  /\ UNCHANGED <<table, header_checksum, locks, answer, calls, crashed,
                 overlapped>>

TryUnlock(p) ==
  /\ At(p, "tried")
  /\ writer' = [writer EXCEPT ![req[p].table] = NoProc]
  /\ TryNext(p)
  /\ UNCHANGED <<table, header_checksum, readers, answer, calls, crashed,
                 overlapped>>

-----------------------------------------------------------------------------
\* The rwlocks are not robust: what a dead process holds stays held.
Crash(p) ==
  /\ p \notin crashed /\ pc[p] # "idle"
  /\ Cardinality(crashed) < MaxCrashes
  /\ crashed' = crashed \cup {p}
  /\ UNCHANGED <<table, header_checksum, locks, pc, locals, answer, calls,
                 overlapped>>

Update(p) == Find(p) \/ FindFails(p) \/ Store(p) \/ SumTables(p) \/ SumStore(p)
Check(p) == \/ CheckStart(p) \/ CheckTables(p) \/ Compare(p)
            \/ TryLock(p) \/ TryBusy(p) \/ TryUnlock(p)
Step(p) == \/ WriteLock(p) \/ ReadLock(p) \/ Unlock(p)
           \/ Update(p) \/ Read(p) \/ Check(p)

Next == \E p \in Procs :
  \/ \E r \in Requests : Reject(p, r) \/ Start(p, r)
  \/ Step(p)
  \/ Crash(p)

Spec == Init /\ [][Next]_vars

\* A process that is not blocked goes on; the locks themselves promise no
\* order, a waiter gets in because the others make finitely many calls.
FairSpec == Spec /\ \A p \in Procs : WF_vars(Step(p))

-----------------------------------------------------------------------------
Labels == {"idle", "wrlock", "rdlock", "find", "in_use", "name", "object",
           "sum_roots", "sum_index", "sum_store", "read", "unlock",
           "check", "check_roots", "check_index", "compare", "try", "tried"}
Entries == [in_use : {0, 1}, name : Names \cup {NoName},
            object : Objects \cup {NoObject}]
AnyRequest == [op : Ops \cup {"none"}, table : Tables,
               name : Names \cup {NoName}, object : Objects \cup {NoObject}]
Contents ==
  {c \in [Tables -> UNION {[Slots(tb) -> Entries] : tb \in Tables}] :
     \A tb \in Tables : c[tb] \in [Slots(tb) -> Entries]}

(* Tables, locks and the locals of every call have their types.            *)
TypeOK ==
  /\ table \in Contents /\ header_checksum \in Contents
  /\ writer \in [Tables -> Procs \cup {NoProc}]
  /\ readers \in [Tables -> SUBSET Procs]
  /\ pc \in [Procs -> Labels]
  /\ req \in [Procs -> AnyRequest]
  /\ slot \in [Procs -> Nat]
  /\ \A p \in Procs : Storing(p) => slot[p] \in Slots(req[p].table)
  /\ seen \in [Procs -> Contents]
  /\ sum \in [Procs -> SUBSET Contents]
  /\ calls \in [Procs -> Nat]
  /\ crashed \subseteq Procs
  /\ overlapped \in BOOLEAN

-----------------------------------------------------------------------------
(* Safety.                                                                 *)

(* No name is bound by two entries of a table, at any store of any update: *)
(* otherwise a removal would uncover a stale binding that shm_region_      *)
(* get_root would then resolve.                                            *)
NamesUnique ==
  \A tb \in Tables : \A i, j \in Slots(tb) :
    /\ table[tb][i].in_use = 1 /\ table[tb][j].in_use = 1
    /\ table[tb][i].name = table[tb][j].name
    => i = j

(* The stored checksum can be stale only while an update is under way or   *)
(* if the last update met one of the other table: an update that had the   *)
(* header to itself leaves the checksum right, whatever it was before.     *)
ChecksumFresh ==
  ~overlapped /\ (\A p \in Procs : ~Updating(p)) => header_checksum = table

(* The region is sound whenever no call is under way, as the contention    *)
(* stress test of the store expects of offset_store_validate.              *)
ChecksumCurrent ==
  (\A p \in Procs : pc[p] = "idle") => header_checksum = table

(* Every call returns, as long as no process dies in a call: no early      *)
(* return keeps a lock, and no two calls wait for each other.              *)
EveryCallReturns ==
  \A p \in Procs : pc[p] # "idle" ~> (pc[p] = "idle" \/ crashed # {})

-----------------------------------------------------------------------------
(* The directory the clients see.  An update takes effect when its entry   *)
(* has been found; from then until its last store the tables are read as   *)
(* if the entry had been written.                                          *)

Writes(p, tb, i) == Storing(p) /\ req[p].table = tb /\ slot[p] = i

Writers(tb, i) == {p \in Procs : Writes(p, tb, i)}

Effective(tb, i) ==
  IF Writers(tb, i) = {} THEN table[tb][i]
  ELSE Target(CHOOSE p \in Writers(tb, i) : TRUE)

Lookup(tb, n) ==
  LET hits == {i \in Slots(tb) : /\ Effective(tb, i).in_use = 1
                                 /\ Effective(tb, i).name = n}
  IN IF hits = {} THEN NoObject ELSE Effective(tb, First(hits)).object

Waiting(p) == pc[p] \in {"wrlock", "rdlock", "find", "read"}
Answered(p) == Updating(p) \/ pc[p] = "unlock"

Bindings == [tb \in Tables |-> [n \in Names |-> Lookup(tb, n)]]
Asked == [p \in Procs |-> IF Waiting(p) \/ Answered(p) THEN req[p]
                          ELSE [op |-> "none"]]
Told == [p \in Procs |-> IF Answered(p) THEN answer[p] ELSE NoAnswer]

Abstract == INSTANCE Directory WITH
  dir <- Bindings, request <- Asked, answer <- Told

(* Every call of set, get, remove and contains, on both tables, takes      *)
(* effect at one instant between call and return: the tables, their locks  *)
(* and their store-by-store updates implement two bounded maps.            *)
Linearizable == Abstract!Spec

-----------------------------------------------------------------------------
(* The inductive invariants behind NamesUnique and ChecksumFresh.          *)

\* A process that updates a table, or only tries its lock, holds the lock.
LockSound ==
  \A p \in Procs : Updating(p) \/ pc[p] \in {"find", "tried"} =>
    writer[req[p].table] = p

RequestSound ==
  \A p \in Procs : Updating(p) \/ pc[p] \in {"wrlock", "find"} =>
    req[p].op \in {"put", "remove"} /\ Valid(req[p])

\* What an update knows of the entry it is storing, field by field, and of
\* the other entries of its table.
SlotSound ==
  \A p \in Procs : Storing(p) =>
    LET tb == req[p].table
        e == table[tb][slot[p]]
    IN /\ pc[p] \in {"name", "object"} => e.in_use = Target(p).in_use
       /\ pc[p] = "object" => e.name = Target(p).name
       /\ req[p].op = "put" =>
            /\ e.name \in {NoName, req[p].name}
            /\ \A j \in Slots(tb) \ {slot[p]} :
                 table[tb][j].in_use = 1 => table[tb][j].name # req[p].name

\* Entries nobody is storing are whole.
EntrySound ==
  \A tb \in Tables : \A i \in Slots(tb) :
    (\A p \in Procs : ~Writes(p, tb, i)) =>
      (table[tb][i].in_use = 1 <=> table[tb][i].name # NoName)

NamesInv == TypeOK /\ LockSound /\ RequestSound /\ SlotSound /\ EntrySound
            /\ NamesUnique

\* An update that met no other is alone, and what it has read is current.
Alone ==
  ~overlapped => \A p, q \in Procs : Updating(p) /\ Updating(q) => p = q
SumSound ==
  ~overlapped => \A p \in Procs :
    /\ pc[p] = "sum_index" => seen[p]["roots"] = table["roots"]
    /\ pc[p] = "sum_store" => seen[p] = table
ChecksumInv == TypeOK /\ Alone /\ SumSound /\ ChecksumFresh
============================================================================
