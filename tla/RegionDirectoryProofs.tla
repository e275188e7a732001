----------------------- MODULE RegionDirectoryProofs -----------------------
(***************************************************************************)
(* Proofs about the root table and the index, for any number of processes, *)
(* names, handles, slots, calls and crashes.                               *)
(***************************************************************************)
EXTENDS RegionDirectory, FiniteSetTheorems, WellFoundedInduction, TLAPS

LEMMA ContentsFacts ==
  /\ \A c \in Contents : /\ c = [tb \in Tables |-> c[tb]]
                         /\ \A tb \in Tables : c[tb] \in [Slots(tb) -> Entries]
  /\ \A c : c = [tb \in Tables |-> c[tb]]
            /\ (\A tb \in Tables : c[tb] \in [Slots(tb) -> Entries])
            => c \in Contents
BY DEF Contents

LEMMA FirstFacts ==
  ASSUME NEW S, S \subseteq Nat, S # {}
  PROVE  First(S) \in S /\ \A j \in S : First(S) <= j
<1>1. PICK R : R = {ss \in Nat \X Nat : ss[1] < ss[2]}
  OBVIOUS
<1>2. IsWellFoundedOn(R, Nat)
  BY <1>1, NatLessThanWellFounded DEF OpToRel
<1>3. PICK i \in S : \A j \in S : ~(<<j, i>> \in R)
  BY <1>2, WFMin
<1>4. ASSUME NEW j \in S PROVE i <= j
  <2>1. i \in Nat /\ j \in Nat
    OBVIOUS
  <2>2. <<j, i>> \in Nat \X Nat /\ <<j, i>>[1] = j /\ <<j, i>>[2] = i
    BY <2>1
  <2>3. ~(<<j, i>>[1] < <<j, i>>[2])
    BY <1>1, <1>3, <2>2, Zenon
  <2>4. QED  BY <2>1, <2>2, <2>3
<1>5. QED  BY <1>4 DEF First

-----------------------------------------------------------------------------
(* Type correctness.                                                       *)

LEMMA EmptyContents == Empty \in Contents
<1>1. Unused \in Entries
  BY DEF Unused, Entry, Entries
<1>2. QED  BY <1>1, ContentsFacts DEF Empty

LEMMA TargetType ==
  ASSUME TypeOK, NEW p \in Procs
  PROVE  Target(p) \in Entries
BY DEF TypeOK, Target, Entries, Entry, Unused, AnyRequest

LEMMA TypeInit == Init => TypeOK
<1> SUFFICES ASSUME Init PROVE TypeOK
  OBVIOUS
<1>1. table \in Contents /\ header_checksum \in Contents
      /\ seen \in [Procs -> Contents]
  BY EmptyContents DEF Init
<1>2. req \in [Procs -> AnyRequest]
  BY DEF Init, NoRequest, Tables, AnyRequest
<1>3. QED  BY <1>1, <1>2 DEF Init, TypeOK, Labels, Storing

LEMMA ReturnType ==
  ASSUME TypeOK, NEW p \in Procs, Return(p)
  PROVE  /\ pc' \in [Procs -> Labels]
         /\ req' \in [Procs -> AnyRequest]
         /\ slot' \in [Procs -> Nat]
         /\ \A q \in Procs : Storing(q)' => slot'[q] \in Slots(req'[q].table)
         /\ seen' \in [Procs -> Contents]
         /\ sum' \in [Procs -> SUBSET Contents]
<1>1. req' \in [Procs -> AnyRequest]
  BY DEF TypeOK, Return, NoRequest, Tables, AnyRequest
<1>2. \A q \in Procs : Storing(q)' => slot'[q] \in Slots(req'[q].table)
  BY DEF TypeOK, Return, Goto, Storing
<1>3. seen' \in [Procs -> Contents] /\ sum' \in [Procs -> SUBSET Contents]
  BY EmptyContents DEF TypeOK, Return
<1>4. QED  BY <1>1, <1>2, <1>3 DEF TypeOK, Return, Goto, Labels

LEMMA CallType ==
  ASSUME TypeOK, NEW p \in Procs, NEW r \in Requests, Reject(p, r) \/ Start(p, r)
  PROVE  TypeOK'
<1>1. CASE Reject(p, r)
  BY <1>1 DEF TypeOK, Reject, Call, locks, locals, Storing
<1>2. CASE Start(p, r)
  <2>1. r.op \in {"put", "remove", "get", "contains", "open", "validate"}
    BY OpsAssumption DEF Requests
  <2>2. pc' \in [Procs -> Labels] /\ ~Storing(p)'
    BY <1>2, <2>1 DEF TypeOK, Start, Goto, Labels, Storing
  <2>3. \A q \in Procs : Storing(q)' => slot'[q] \in Slots(req'[q].table)
    BY <1>2, <2>2 DEF TypeOK, Start, Goto, Storing
  <2>4. r \in AnyRequest
    BY DEF Requests, AnyRequest
  <2>5. req' \in [Procs -> AnyRequest] /\ calls' \in [Procs -> Nat]
    BY <1>2, <2>4 DEF TypeOK, Start, Call
  <2>6. QED
    BY <1>2, <2>2, <2>3, <2>5 DEF TypeOK, Start, locks
<1>3. QED  BY <1>1, <1>2

LEMMA LockType ==
  ASSUME TypeOK, NEW p \in Procs,
         WriteLock(p) \/ ReadLock(p) \/ Unlock(p) \/ TryLock(p)
  PROVE  TypeOK'
<1>1. CASE WriteLock(p) \/ ReadLock(p) \/ TryLock(p)
  <2>1. pc' \in [Procs -> Labels]
        /\ \A q \in Procs : Storing(q)' => Storing(q)
    BY <1>1 DEF TypeOK, WriteLock, ReadLock, TryLock, Goto, Labels, Storing
  <2>2. writer' \in [Tables -> Procs \cup {NoProc}]
        /\ readers' \in [Tables -> SUBSET Procs]
    BY <1>1 DEF TypeOK, WriteLock, ReadLock, TryLock
  <2>3. QED
    BY <1>1, <2>1, <2>2 DEF TypeOK, WriteLock, ReadLock, TryLock, locals
<1>2. CASE Unlock(p)
  <2>1. PICK tb \in Tables : tb = req[p].table
    BY DEF TypeOK, AnyRequest
  <2>2. writer' \in [Tables -> Procs \cup {NoProc}]
    BY <1>2, <2>1 DEF TypeOK, Unlock
  <2>3. readers' \in [Tables -> SUBSET Procs]
    <3>1. readers' = [readers EXCEPT ![tb] = readers[tb] \ {p}]
      BY <1>2, <2>1 DEF Unlock
    <3>2. readers[tb] \ {p} \in SUBSET Procs
      BY DEF TypeOK
    <3>3. QED  BY <3>1, <3>2 DEF TypeOK
  <2>4. QED  BY <1>2, <2>2, <2>3, ReturnType DEF TypeOK, Unlock
<1>3. QED  BY <1>1, <1>2

LEMMA FindType ==
  ASSUME TypeOK, NEW p \in Procs, Find(p)
  PROVE  /\ TypeOK'
         /\ slot'[p] \in Candidates(req[p])
         /\ slot'[p] \in Slots(req[p].table)
         /\ \A q \in Procs \ {p} : slot'[q] = slot[q] /\ pc'[q] = pc[q]
         /\ pc[p] = "find" /\ pc'[p] = "in_use"
<1>1. Candidates(req[p]) \subseteq Slots(req[p].table)
      /\ Slots(req[p].table) \subseteq Nat
  BY DEF Candidates, Named, FreeSlots, Slots
<1>2. First(Candidates(req[p])) \in Candidates(req[p])
  BY <1>1, FirstFacts DEF Find
<1>3. slot' = [slot EXCEPT ![p] = First(Candidates(req[p]))] /\ req' = req
      /\ pc' = [pc EXCEPT ![p] = "in_use"] /\ pc[p] = "find"
  BY DEF Find, Goto, At
<1>4. /\ slot'[p] \in Candidates(req[p])
      /\ \A q \in Procs \ {p} : slot'[q] = slot[q] /\ pc'[q] = pc[q]
      /\ pc'[p] = "in_use"
      /\ slot' \in [Procs -> Nat]
      /\ pc' \in [Procs -> Labels]
  BY <1>1, <1>2, <1>3 DEF TypeOK, Labels
<1>5. \A q \in Procs : Storing(q)' => slot'[q] \in Slots(req'[q].table)
  BY <1>1, <1>3, <1>4 DEF TypeOK, Storing
<1>6. QED  BY <1>1, <1>3, <1>4, <1>5 DEF TypeOK, Find, locks

LEMMA StoreType ==
  ASSUME TypeOK, NEW p \in Procs, NEW f \in {"in_use", "name", "object"},
         NEW next \in {"name", "object", "sum_roots"}, StoreField(p, f, next)
  PROVE  TypeOK'
<1>1. Target(p)[f] \in CASE f = "in_use" -> {0, 1}
                         [] f = "name" -> Names \cup {NoName}
                         [] f = "object" -> Objects \cup {NoObject}
  BY TargetType DEF Entries
<1>2. table' \in Contents
  <2>1. PICK tb \in Tables : tb = req[p].table
    BY DEF TypeOK, AnyRequest
  <2>2. table[tb] \in [Slots(tb) -> Entries]
    BY ContentsFacts DEF TypeOK
  <2>3. slot[p] \in Slots(tb)
    BY <2>1 DEF TypeOK, StoreField, At, Storing
  <2>4. [table[tb][slot[p]] EXCEPT ![f] = Target(p)[f]] \in Entries
    BY <2>2, <2>3, TargetType DEF Entries
  <2>5. table' = [table EXCEPT ![tb] = [table[tb] EXCEPT ![slot[p]] =
                    [table[tb][slot[p]] EXCEPT ![f] = Target(p)[f]]]]
    BY <2>1 DEF StoreField
  <2>6. QED  BY <2>2, <2>3, <2>4, <2>5, ContentsFacts DEF TypeOK
<1>3. pc' \in [Procs -> Labels] /\ \A q \in Procs : Storing(q)' => Storing(q)
  BY DEF TypeOK, StoreField, Goto, Labels, Storing, At
<1>4. QED  BY <1>2, <1>3 DEF TypeOK, StoreField, locks, locals

LEMMA SumType ==
  ASSUME TypeOK, NEW p \in Procs, NEW label, NEW tb \in Tables,
         NEW next \in {"sum_index", "sum_store", "check_index", "compare"},
         SumTable(p, label, tb, next)
  PROVE  TypeOK'
<1>1. pc' \in [Procs -> Labels] /\ \A q \in Procs : Storing(q)' => Storing(q)
  BY DEF TypeOK, SumTable, Goto, Labels, Storing
<1>2. [seen[p] EXCEPT ![tb] = table[tb]] \in Contents
  <2>1. PICK c : c = [seen[p] EXCEPT ![tb] = table[tb]]
    OBVIOUS
  <2>2. seen[p] \in Contents /\ table \in Contents
    BY DEF TypeOK
  <2>3. c = [t \in Tables |-> IF t = tb THEN table[tb] ELSE seen[p][t]]
    BY <2>1, <2>2, ContentsFacts
  <2>4. \A t \in Tables : c[t] \in [Slots(t) -> Entries]
    BY <2>2, <2>3, ContentsFacts
  <2>5. QED  BY <2>1, <2>3, <2>4, ContentsFacts
<1>3. seen' \in [Procs -> Contents]
  BY <1>2 DEF TypeOK, SumTable
<1>4. QED  BY <1>1, <1>3 DEF TypeOK, SumTable, locks

LEMMA PlainType ==
  ASSUME TypeOK, NEW p \in Procs,
         FindFails(p) \/ SumStore(p) \/ Read(p) \/ CheckStart(p) \/ Crash(p)
  PROVE  TypeOK'
<1>1. CASE FindFails(p) \/ SumStore(p) \/ Read(p) \/ CheckStart(p)
  <2>1. pc' \in [Procs -> Labels]
        /\ \A q \in Procs : Storing(q)' => Storing(q)
    <3>1. PICK l \in {"unlock", "check_roots"} : pc' = [pc EXCEPT ![p] = l]
      BY <1>1 DEF FindFails, SumStore, Read, CheckStart, Goto
    <3>2. QED  BY <3>1 DEF TypeOK, Labels, Storing
  <2>2. header_checksum' \in Contents /\ sum' \in [Procs -> SUBSET Contents]
    BY <1>1 DEF TypeOK, FindFails, SumStore, Read, CheckStart, locals
  <2>3. QED
    BY <1>1, <2>1, <2>2
       DEF TypeOK, FindFails, SumStore, Read, CheckStart, locks, locals
<1>2. CASE Crash(p)
  BY <1>2 DEF TypeOK, Crash, locks, locals, Storing
<1>3. QED  BY <1>1, <1>2

LEMMA CheckEndType ==
  ASSUME TypeOK, NEW p \in Procs, Compare(p) \/ TryBusy(p) \/ TryUnlock(p)
  PROVE  TypeOK'
<1>1. writer' \in [Tables -> Procs \cup {NoProc}]
      /\ readers' \in [Tables -> SUBSET Procs]
  BY DEF TypeOK, Compare, TryBusy, TryUnlock, locks
<1>2. CASE Return(p)
  BY <1>1, <1>2, ReturnType DEF TypeOK, Compare, TryBusy, TryUnlock
<1>3. CASE ~Return(p)
  <2>1. /\ pc' = [pc EXCEPT ![p] = "try"] /\ UNCHANGED <<slot, seen, sum>>
        /\ req' = req \/ req' = [req EXCEPT ![p].table = "index"]
    BY <1>3 DEF Compare, TryBusy, TryUnlock, TryNext, Goto, locals
  <2>2. pc' \in [Procs -> Labels] /\ ~Storing(p)'
        /\ \A q \in Procs : Storing(q)' => Storing(q)
    BY <2>1 DEF TypeOK, Labels, Storing
  <2>3. /\ req' \in [Procs -> AnyRequest]
        /\ \A q \in Procs \ {p} : req'[q] = req[q]
    <3>1. [req[p] EXCEPT !.table = "index"] \in AnyRequest
      <4>1. req[p] \in AnyRequest
        BY DEF TypeOK
      <4>2. QED  BY ONLY <4>1 DEF AnyRequest, Tables
    <3>2. QED  BY <2>1, <3>1 DEF TypeOK
  <2>4. QED
    BY <1>1, <2>1, <2>2, <2>3 DEF TypeOK, Compare, TryBusy, TryUnlock
<1>4. QED  BY <1>2, <1>3

LEMMA TypeStep ==
  ASSUME TypeOK, Next
  PROVE  TypeOK'
<1>1. PICK p \in Procs : \/ \E r \in Requests : Reject(p, r) \/ Start(p, r)
                         \/ Step(p)
                         \/ Crash(p)
  BY DEF Next
<1>2. CASE \E r \in Requests : Reject(p, r) \/ Start(p, r)
  BY <1>2, CallType
<1>3. CASE WriteLock(p) \/ ReadLock(p) \/ Unlock(p) \/ TryLock(p)
  BY <1>3, LockType
<1>4. CASE Store(p)
  BY <1>4, StoreType DEF Store
<1>5. CASE SumTables(p) \/ CheckTables(p)
  BY <1>5, SumType DEF SumTables, CheckTables, Tables
<1>6. CASE FindFails(p) \/ SumStore(p) \/ Read(p) \/ CheckStart(p) \/ Crash(p)
  BY <1>6, PlainType
<1>7. CASE Compare(p) \/ TryBusy(p) \/ TryUnlock(p)
  BY <1>7, CheckEndType
<1>8. CASE Find(p)
  BY <1>8, FindType
<1>9. QED
  BY <1>1, <1>2, <1>3, <1>4, <1>5, <1>6, <1>7, <1>8 DEF Step, Update, Check

-----------------------------------------------------------------------------
(* The checksum.  Only an update stores into the tables or the checksum,   *)
(* and only Find starts one.                                               *)

(* Steps of a process that is not updating, and stays so.                  *)
Bystander(p) ==
  /\ table' = table /\ header_checksum' = header_checksum
  /\ overlapped' = overlapped
  /\ ~Updating(p) /\ ~Updating(p)'
  /\ \A q \in Procs \ {p} : pc'[q] = pc[q] /\ seen'[q] = seen[q]

LEMMA BystanderChecksum ==
  ASSUME ChecksumInv, NEW p \in Procs, Bystander(p), TypeOK'
  PROVE  ChecksumInv'
<1>1. \A q \in Procs : Updating(q)' <=> Updating(q)
  BY DEF Bystander, Updating, Storing
<1>2. Alone'
  BY <1>1 DEF ChecksumInv, Alone, Bystander
<1>3. SumSound'
  BY DEF ChecksumInv, SumSound, Bystander, Updating
<1>4. ChecksumFresh'
  BY <1>1 DEF ChecksumInv, ChecksumFresh, Bystander
<1>5. QED  BY <1>2, <1>3, <1>4 DEF ChecksumInv

LEMMA BystanderSteps ==
  ASSUME TypeOK, NEW p \in Procs,
         \/ \E r \in Requests : Reject(p, r) \/ Start(p, r)
         \/ WriteLock(p) \/ ReadLock(p) \/ Unlock(p) \/ FindFails(p) \/ Read(p)
         \/ Check(p)
  PROVE  Bystander(p)
<1>1. CASE \E r \in Requests : Reject(p, r) \/ Start(p, r)
  <2>1. PICK r \in Requests : Reject(p, r) \/ Start(p, r)
    BY <1>1
  <2>2. r.op \in {"put", "remove", "get", "contains", "open", "validate"}
    BY OpsAssumption DEF Requests
  <2>3. pc[p] = "idle" /\ \E l \in {"idle", "wrlock", "rdlock", "check"} :
                            pc' = [pc EXCEPT ![p] = l]
    BY <2>1, <2>2 DEF TypeOK, Reject, Start, Call, At, Goto
  <2>4. QED
    BY <2>1, <2>3 DEF TypeOK, Bystander, Updating, Storing, Reject, Start, locals
<1>2. CASE WriteLock(p) \/ ReadLock(p) \/ FindFails(p) \/ Read(p)
  <2>1. pc[p] \in {"wrlock", "rdlock", "find", "read"}
        /\ \E l \in {"find", "read", "unlock"} : pc' = [pc EXCEPT ![p] = l]
    BY <1>2 DEF WriteLock, ReadLock, FindFails, Read, At, Goto
  <2>2. QED
    BY <1>2, <2>1 DEF TypeOK, Bystander, Updating, Storing,
                      WriteLock, ReadLock, FindFails, Read, locals
<1>3. CASE Unlock(p)
  BY <1>3 DEF TypeOK, Bystander, Updating, Storing, Unlock, Return, Goto, At
<1>4. CASE CheckStart(p) \/ CheckTables(p) \/ TryLock(p)
  <2>1. pc[p] \in {"check", "check_roots", "check_index", "try"}
        /\ \E l \in {"check_roots", "check_index", "compare", "tried"} :
             pc' = [pc EXCEPT ![p] = l]
    BY <1>4 DEF CheckStart, CheckTables, SumTable, TryLock, At, Goto
  <2>2. \A q \in Procs \ {p} : seen'[q] = seen[q]
    BY <1>4 DEF TypeOK, CheckStart, CheckTables, SumTable, TryLock, locals
  <2>3. QED
    BY <1>4, <2>1, <2>2 DEF TypeOK, Bystander, Updating, Storing,
                            CheckStart, CheckTables, SumTable, TryLock
<1>5. CASE Compare(p) \/ TryBusy(p) \/ TryUnlock(p)
  <2>1. pc[p] \in {"compare", "try", "tried"}
        /\ \E l \in {"try", "idle"} : pc' = [pc EXCEPT ![p] = l]
    BY <1>5 DEF Compare, TryBusy, TryUnlock, TryNext, Return, At, Goto
  <2>2. \A q \in Procs \ {p} : seen'[q] = seen[q]
    BY <1>5 DEF TypeOK, Compare, TryBusy, TryUnlock, TryNext, Return, locals
  <2>3. QED
    BY <1>5, <2>1, <2>2 DEF TypeOK, Bystander, Updating, Storing,
                            Compare, TryBusy, TryUnlock
<1>6. QED  BY <1>1, <1>2, <1>3, <1>4, <1>5 DEF Check

LEMMA CrashChecksum ==
  ASSUME ChecksumInv, NEW p \in Procs, Crash(p), TypeOK'
  PROVE  ChecksumInv'
BY DEF Crash, ChecksumInv, Alone, SumSound, ChecksumFresh, Updating, Storing, locals

LEMMA FindChecksum ==
  ASSUME ChecksumInv, NEW p \in Procs, Find(p)
  PROVE  ChecksumInv'
<1>1. /\ TypeOK' /\ pc[p] = "find" /\ pc'[p] = "in_use"
      /\ \A q \in Procs \ {p} : pc'[q] = pc[q]
      /\ table' = table /\ seen' = seen
      /\ overlapped' <=> \E q \in Procs : Updating(q)
  BY FindType DEF ChecksumInv, Find
<1>2. Updating(p)' /\ ~Updating(p)
      /\ \A q \in Procs \ {p} : Updating(q)' <=> Updating(q)
  BY <1>1 DEF Updating, Storing
<1>3. Alone' /\ SumSound'
  BY <1>1, <1>2 DEF Alone, SumSound, Updating
<1>4. ChecksumFresh'
  BY <1>2 DEF ChecksumFresh
<1>5. QED  BY <1>1, <1>3, <1>4 DEF ChecksumInv

LEMMA StoreChecksum ==
  ASSUME ChecksumInv, NEW p \in Procs, Store(p), TypeOK'
  PROVE  ChecksumInv'
<1>1. /\ pc[p] \in {"in_use", "name", "object"}
      /\ \E l \in {"name", "object", "sum_roots"} : pc' = [pc EXCEPT ![p] = l]
      /\ seen' = seen /\ overlapped' = overlapped
  BY DEF Store, StoreField, At, Goto, locals
<1>2. /\ pc'[p] \in {"name", "object", "sum_roots"}
      /\ \A q \in Procs \ {p} : pc'[q] = pc[q]
      /\ \A q \in Procs : Updating(q)' <=> Updating(q)
      /\ Updating(p)
  BY <1>1 DEF ChecksumInv, TypeOK, Updating, Storing
<1>3. Alone'
  BY <1>1, <1>2 DEF ChecksumInv, Alone
<1>4. SumSound'
  BY <1>1, <1>2 DEF ChecksumInv, Alone, SumSound, Updating
<1>5. ChecksumFresh'
  BY <1>2 DEF ChecksumFresh
<1>6. QED  BY <1>3, <1>4, <1>5 DEF ChecksumInv

LEMMA SumTablesChecksum ==
  ASSUME ChecksumInv, NEW p \in Procs, SumTables(p), TypeOK'
  PROVE  ChecksumInv'
<1>1. /\ table' = table /\ overlapped' = overlapped /\ Updating(p)
      /\ \A q \in Procs \ {p} : pc'[q] = pc[q] /\ seen'[q] = seen[q]
  BY DEF ChecksumInv, TypeOK, SumTables, SumTable, At, Goto, Updating
<1>2. \/ /\ pc'[p] = "sum_index"
         /\ seen'[p]["roots"] = table["roots"]
      \/ /\ pc[p] = "sum_index" /\ pc'[p] = "sum_store"
         /\ seen'[p]["index"] = table["index"]
         /\ seen'[p]["roots"] = seen[p]["roots"]
  BY ContentsFacts
     DEF ChecksumInv, TypeOK, SumTables, SumTable, At, Goto, Tables
<1>3. \A q \in Procs : Updating(q)' <=> Updating(q)
  BY <1>1, <1>2 DEF Updating, Storing
<1>4. Alone' /\ ChecksumFresh'
  BY <1>1, <1>3 DEF ChecksumInv, Alone, ChecksumFresh
<1>5. ASSUME ~overlapped, pc'[p] = "sum_store"
      PROVE  seen'[p] = table
  <2>1. seen[p]["roots"] = table["roots"]
    BY <1>2, <1>5 DEF ChecksumInv, SumSound
  <2>2. \A tb \in Tables : seen'[p][tb] = table[tb]
    BY <1>2, <1>5, <2>1 DEF Tables
  <2>3. seen'[p] \in Contents /\ table \in Contents
    BY DEF ChecksumInv, TypeOK
  <2>4. QED  BY <2>2, <2>3, ContentsFacts
<1>6. SumSound'
  BY <1>1, <1>2, <1>5 DEF ChecksumInv, SumSound
<1>7. QED  BY <1>4, <1>6 DEF ChecksumInv

LEMMA SumStoreChecksum ==
  ASSUME ChecksumInv, NEW p \in Procs, SumStore(p), TypeOK'
  PROVE  ChecksumInv'
<1>1. /\ table' = table /\ seen' = seen /\ overlapped' = overlapped
      /\ pc[p] = "sum_store" /\ header_checksum' = seen[p]
      /\ pc'[p] = "unlock" /\ \A q \in Procs \ {p} : pc'[q] = pc[q]
  BY DEF ChecksumInv, TypeOK, SumStore, At, Goto, locals
<1>2. ~Updating(p)' /\ \A q \in Procs \ {p} : Updating(q)' <=> Updating(q)
  BY <1>1 DEF Updating, Storing
<1>3. Alone' /\ SumSound'
  BY <1>1, <1>2 DEF ChecksumInv, Alone, SumSound
<1>4. ChecksumFresh'
  BY <1>1 DEF ChecksumInv, SumSound, ChecksumFresh
<1>5. QED  BY <1>3, <1>4 DEF ChecksumInv

(* Every variable of the region directory keeps its type, and the slot an  *)
(* update stores to lies in its table.                                     *)
THEOREM DirectoryTypeCorrect == Spec => []TypeOK
<1>1. TypeOK /\ UNCHANGED vars => TypeOK'
  BY DEF TypeOK, vars, locks, locals, Storing
<1>2. TypeOK /\ [Next]_vars => TypeOK'
  BY <1>1, TypeStep
<1>3. QED  BY TypeInit, <1>2, PTL DEF Spec

(* An update of a table that meets no update of the other table leaves the *)
(* header checksum equal to the tables, whatever happened before it.       *)
THEOREM DirectoryChecksumFresh == Spec => []ChecksumFresh
<1>1. Init => ChecksumInv
  BY TypeInit
     DEF Init, ChecksumInv, Alone, SumSound, ChecksumFresh, Updating, Storing
<1>2. ASSUME ChecksumInv, Next
      PROVE  ChecksumInv'
  <2>1. TypeOK /\ TypeOK'
    BY <1>2, TypeStep DEF ChecksumInv
  <2>2. PICK p \in Procs : \/ \E r \in Requests : Reject(p, r) \/ Start(p, r)
                           \/ Step(p)
                           \/ Crash(p)
    BY <1>2 DEF Next
  <2>3. CASE Find(p) \/ Store(p) \/ SumTables(p) \/ SumStore(p) \/ Crash(p)
    BY <1>2, <2>1, <2>3, FindChecksum, StoreChecksum, SumTablesChecksum,
       SumStoreChecksum, CrashChecksum
  <2>4. CASE \/ \E r \in Requests : Reject(p, r) \/ Start(p, r)
             \/ WriteLock(p) \/ ReadLock(p) \/ Unlock(p) \/ FindFails(p)
             \/ Read(p) \/ Check(p)
    BY <1>2, <2>1, <2>4, BystanderSteps, BystanderChecksum
  <2>5. QED  BY <2>2, <2>3, <2>4 DEF Step, Update
<1>3. ASSUME ChecksumInv, UNCHANGED vars
      PROVE  ChecksumInv'
  BY <1>3 DEF vars, locks, locals, ChecksumInv, TypeOK, Alone, SumSound,
              ChecksumFresh, Updating, Storing
<1>4. ChecksumInv /\ [Next]_vars => ChecksumInv'
  BY <1>2, <1>3
<1>5. ChecksumInv => ChecksumFresh
  BY DEF ChecksumInv
<1>6. QED  BY <1>1, <1>4, <1>5, PTL DEF Spec

-----------------------------------------------------------------------------
(* Names.  The lock of a table is what lets an update rely on the entries  *)
(* it has looked at.                                                       *)

Locked(p) == Updating(p) \/ pc[p] \in {"find", "tried"}
Posed(p) == Updating(p) \/ pc[p] \in {"wrlock", "find"}
OthersStay(p) ==
  \A q \in Procs \ {p} : pc'[q] = pc[q] /\ req'[q] = req[q] /\ slot'[q] = slot[q]

(* A step of p that stores into no table.                                  *)
LEMMA NoStoreNames ==
  ASSUME NamesInv, NEW p \in Procs, TypeOK', OthersStay(p), table' = table,
         ~Storing(p), ~Storing(p)',
         Posed(p)' => req'[p].op \in {"put", "remove"} /\ Valid(req'[p]),
         \A q \in Procs : Locked(q)' => writer'[req'[q].table] = q
  PROVE  NamesInv'
<1>1. LockSound'
  BY DEF LockSound, Locked
<1>2. RequestSound'
  BY DEF NamesInv, RequestSound, Posed, OthersStay, Updating, Storing, Valid
<1>3. \A q \in Procs : /\ Storing(q)' <=> Storing(q)
                       /\ Storing(q) => q # p
  BY DEF OthersStay, Storing
<1>4. SlotSound'
  BY <1>3 DEF NamesInv, SlotSound, OthersStay, Target
<1>5. EntrySound'
  BY <1>3 DEF NamesInv, EntrySound, OthersStay, Writes
<1>6. NamesUnique'
  BY DEF NamesInv, NamesUnique
<1>7. QED  BY <1>1, <1>2, <1>4, <1>5, <1>6 DEF NamesInv

(* Steps that take and release no write lock.                              *)
LEMMA KeepLockNames ==
  ASSUME NamesInv, NEW p \in Procs, TypeOK',
         \/ \E r \in Requests : Reject(p, r) \/ Start(p, r)
         \/ ReadLock(p) \/ FindFails(p) \/ Read(p) \/ CheckStart(p)
         \/ CheckTables(p) \/ Compare(p) \/ TryBusy(p) \/ SumTables(p)
         \/ SumStore(p)
  PROVE  NamesInv'
<1>1. CASE \E r \in Requests : Reject(p, r) \/ Start(p, r)
  <2>1. PICK r \in Requests : Reject(p, r) \/ Start(p, r)
    BY <1>1
  <2>2. r.op \in {"put", "remove", "get", "contains", "open", "validate"}
    BY OpsAssumption DEF Requests
  <2>3. /\ pc[p] = "idle" /\ pc'[p] \in {"idle", "wrlock", "rdlock", "check"}
        /\ pc'[p] = "wrlock" => /\ r.op \in {"put", "remove"} /\ Valid(r)
                                /\ req'[p] = r
    BY <2>1, <2>2 DEF NamesInv, TypeOK, Reject, Start, Call, At, Goto
  <2>4. OthersStay(p) /\ table' = table /\ writer' = writer
    BY <2>1 DEF NamesInv, TypeOK, OthersStay, Reject, Start, Goto, locks, locals
  <2>5. \A q \in Procs : Locked(q)' => writer'[req'[q].table] = q
    BY <2>3, <2>4 DEF NamesInv, LockSound, Locked, Updating, Storing, OthersStay
  <2>6. Posed(p)' => req'[p].op \in {"put", "remove"} /\ Valid(req'[p])
    BY <2>3 DEF Posed, Updating, Storing
  <2>7. QED  BY <2>3, <2>4, <2>5, <2>6, NoStoreNames DEF Storing
<1>2. CASE \/ ReadLock(p) \/ FindFails(p) \/ Read(p) \/ CheckStart(p)
           \/ CheckTables(p) \/ SumTables(p) \/ SumStore(p)
  <2>1. /\ pc' = [pc EXCEPT ![p] = pc'[p]] /\ ~Storing(p) /\ ~Storing(p)'
        /\ Posed(p)' => Posed(p)
        /\ Locked(p)' => Locked(p)
    BY <1>2 DEF NamesInv, TypeOK, ReadLock, FindFails, Read, CheckStart,
                CheckTables, SumTables, SumTable, SumStore, At, Goto, Posed,
                Locked, Updating, Storing
  <2>2. req' = req /\ slot' = slot /\ table' = table /\ writer' = writer
    BY <1>2 DEF ReadLock, FindFails, Read, CheckStart, CheckTables, SumTables,
                SumTable, SumStore, locals, locks
  <2>3. OthersStay(p)
    BY <2>1, <2>2 DEF NamesInv, TypeOK, OthersStay
  <2>4. \A q \in Procs : Locked(q)' => writer'[req'[q].table] = q
    BY <2>1, <2>2, <2>3
       DEF NamesInv, LockSound, Locked, Updating, Storing, OthersStay
  <2>5. Posed(p)' => req'[p].op \in {"put", "remove"} /\ Valid(req'[p])
    BY <2>1, <2>2 DEF NamesInv, RequestSound, Posed
  <2>6. QED  BY <2>1, <2>2, <2>3, <2>4, <2>5, NoStoreNames
<1>3. CASE Compare(p) \/ TryBusy(p)
  <2>1. /\ pc[p] \in {"compare", "try"}
        /\ \E l \in {"try", "idle"} : pc' = [pc EXCEPT ![p] = l]
    BY <1>3 DEF Compare, TryBusy, TryNext, Return, At, Goto
  <2>2. pc'[p] \in {"try", "idle"} /\ OthersStay(p)
    BY <1>3, <2>1 DEF NamesInv, TypeOK, OthersStay, Compare, TryBusy, TryNext,
                      Return, Goto, locals
  <2>3. table' = table /\ writer' = writer
    BY <1>3 DEF Compare, TryBusy, locks
  <2>4. \A q \in Procs : Locked(q)' => writer'[req'[q].table] = q
    BY <2>2, <2>3
       DEF NamesInv, LockSound, Locked, Updating, Storing, OthersStay
  <2>5. QED
    BY <2>1, <2>2, <2>3, <2>4, NoStoreNames DEF Posed, Updating, Storing
<1>4. QED  BY <1>1, <1>2, <1>3

LEMMA LockNames ==
  ASSUME NamesInv, NEW p \in Procs, TypeOK', WriteLock(p) \/ TryLock(p)
  PROVE  NamesInv'
<1>1. /\ pc[p] \in {"wrlock", "try"} /\ pc'[p] \in {"find", "tried"}
      /\ pc'[p] = "find" => pc[p] = "wrlock"
      /\ req' = req /\ slot' = slot /\ table' = table
      /\ \A q \in Procs \ {p} : pc'[q] = pc[q]
  BY DEF NamesInv, TypeOK, WriteLock, TryLock, At, Goto, locals
<1>2. PICK tb \in Tables : tb = req[p].table
  BY DEF NamesInv, TypeOK, AnyRequest
<1>3. writer[tb] = NoProc /\ writer' = [writer EXCEPT ![tb] = p]
  BY <1>2 DEF WriteLock, TryLock, Free
<1>4. ASSUME NEW q \in Procs, Locked(q)'
      PROVE  writer'[req'[q].table] = q
  <2>1. CASE q = p
    BY <1>1, <1>2, <1>3, <2>1 DEF NamesInv, TypeOK
  <2>2. CASE q # p
    <3>1. writer[req[q].table] = q
      BY <1>1, <1>4, <2>2 DEF NamesInv, LockSound, Locked, Updating, Storing
    <3>2. req[q].table # tb
      BY <1>3, <3>1, ProcsAssumption
    <3>3. QED  BY <1>1, <1>3, <3>1, <3>2 DEF NamesInv, TypeOK
  <2>3. QED  BY <2>1, <2>2
<1>5. Posed(p)' => req'[p].op \in {"put", "remove"} /\ Valid(req'[p])
  BY <1>1 DEF NamesInv, RequestSound, Posed, Updating, Storing
<1>6. QED  BY <1>1, <1>4, <1>5, NoStoreNames DEF OthersStay, Storing

LEMMA UnlockNames ==
  ASSUME NamesInv, NEW p \in Procs, TypeOK', Unlock(p) \/ TryUnlock(p)
  PROVE  NamesInv'
<1>1. /\ pc[p] \in {"unlock", "tried"}
      /\ \E l \in {"try", "idle"} : pc' = [pc EXCEPT ![p] = l]
      /\ table' = table
  BY DEF Unlock, TryUnlock, TryNext, Return, At, Goto
<1>2. pc'[p] \in {"try", "idle"} /\ OthersStay(p)
  BY <1>1 DEF NamesInv, TypeOK, OthersStay, Unlock, TryUnlock, TryNext, Return
<1>3. PICK tb \in Tables : tb = req[p].table
  BY DEF NamesInv, TypeOK, AnyRequest
<1>4. \A t \in Tables : writer'[t] = writer[t] \/ writer[t] = p
  <2>1. CASE Unlock(p)
    BY <2>1, <1>3 DEF NamesInv, TypeOK, Unlock
  <2>2. CASE TryUnlock(p)
    <3>1. writer[tb] = p
      BY <1>3, <2>2 DEF NamesInv, LockSound, TryUnlock, At
    <3>2. QED  BY <2>2, <1>3, <3>1 DEF NamesInv, TypeOK, TryUnlock
  <2>3. QED  BY <2>1, <2>2
<1>5. ASSUME NEW q \in Procs, Locked(q)'
      PROVE  writer'[req'[q].table] = q
  <2>1. q # p
    BY <1>2, <1>5 DEF Locked, Updating, Storing
  <2>2. writer[req[q].table] = q /\ req'[q] = req[q] /\ req[q].table \in Tables
    BY <1>2, <1>5, <2>1 DEF NamesInv, LockSound, Locked, Updating, Storing,
                            OthersStay, TypeOK, AnyRequest
  <2>3. QED  BY <1>4, <2>1, <2>2
<1>6. QED
  BY <1>1, <1>2, <1>5, NoStoreNames DEF Posed, Updating, Storing

(* Nobody but the holder of its write lock is storing into a table.        *)
LEMMA SoleWriter ==
  ASSUME NamesInv, NEW p \in Procs, Locked(p), NEW q \in Procs, Storing(q),
         req[q].table = req[p].table
  PROVE  q = p
BY DEF NamesInv, LockSound, Locked, Updating

LEMMA FindNames ==
  ASSUME NamesInv, NEW p \in Procs, Find(p)
  PROVE  NamesInv'
<1>1. /\ TypeOK' /\ slot'[p] \in Candidates(req[p])
      /\ slot'[p] \in Slots(req[p].table)
      /\ \A q \in Procs \ {p} : slot'[q] = slot[q] /\ pc'[q] = pc[q]
      /\ pc[p] = "find" /\ pc'[p] = "in_use"
      /\ req' = req /\ table' = table /\ writer' = writer
  BY FindType DEF NamesInv, Find, locks
<1>2. /\ ~Storing(p) /\ Storing(p)' /\ Locked(p) /\ Posed(p)
      /\ \A q \in Procs \ {p} : Storing(q)' <=> Storing(q)
      /\ \A q \in Procs : Updating(q)' => Updating(q) \/ q = p
  BY <1>1 DEF Storing, Locked, Posed, Updating
<1>3. LockSound' /\ RequestSound'
  BY <1>1, <1>2 DEF NamesInv, LockSound, RequestSound, Locked, Posed, Valid
<1>4. PICK tb \in Tables : tb = req[p].table
  BY DEF NamesInv, TypeOK, AnyRequest
<1>5. PICK k \in Slots(tb) : k = slot'[p] /\ k \in Candidates(req[p])
  BY <1>1, <1>4
<1>6. \A q \in Procs, i \in Slots(tb) : ~Writes(q, tb, i)
  BY <1>2, <1>4, SoleWriter DEF Writes
<1>7. req[p].op = "put" =>
        /\ table[tb][k].name \in {NoName, req[p].name}
        /\ \A j \in Slots(tb) \ {k} :
             table[tb][j].in_use = 1 => table[tb][j].name # req[p].name
  <2>1. CASE Named(tb, req[p].name) # {}
    <3>1. table[tb][k].in_use = 1 /\ table[tb][k].name = req[p].name
      BY <1>4, <1>5, <2>1 DEF Candidates, Named
    <3>2. QED  BY <3>1, <1>5 DEF NamesInv, NamesUnique
  <2>2. CASE Named(tb, req[p].name) = {} /\ req[p].op = "put"
    <3>1. table[tb][k].in_use = 0
      BY <1>4, <1>5, <2>2 DEF Candidates, FreeSlots
    <3>2. table[tb][k].name = NoName
      BY <3>1, <1>5, <1>6 DEF NamesInv, EntrySound
    <3>3. QED  BY <3>2, <2>2 DEF Named
  <2>3. QED  BY <2>1, <2>2
<1>8. SlotSound'
  <2> SUFFICES ASSUME NEW q \in Procs, Storing(q)'
               PROVE  LET t == req[q].table
                          e == table[t][slot'[q]]
                      IN /\ pc'[q] \in {"name", "object"} =>
                              e.in_use = Target(q).in_use
                         /\ pc'[q] = "object" => e.name = Target(q).name
                         /\ req[q].op = "put" =>
                              /\ e.name \in {NoName, req[q].name}
                              /\ \A j \in Slots(t) \ {slot'[q]} :
                                   table[t][j].in_use = 1 =>
                                     table[t][j].name # req[q].name
    BY <1>1 DEF SlotSound, Target
  <2>1. CASE q = p
    BY <2>1, <1>1, <1>4, <1>5, <1>7
  <2>2. CASE q # p
    BY <2>2, <1>1, <1>2 DEF NamesInv, SlotSound
  <2>3. QED  BY <2>1, <2>2
<1>9. EntrySound'
  <2> SUFFICES ASSUME NEW t \in Tables, NEW i \in Slots(t),
                      \A q \in Procs : ~Writes(q, t, i)'
               PROVE  table[t][i].in_use = 1 <=> table[t][i].name # NoName
    BY <1>1 DEF EntrySound
  <2>1. \A q \in Procs : ~Writes(q, t, i)
    BY <1>1, <1>2 DEF Writes
  <2>2. QED  BY <2>1 DEF NamesInv, EntrySound
<1>10. NamesUnique'
  BY <1>1 DEF NamesInv, NamesUnique
<1>11. QED  BY <1>1, <1>3, <1>8, <1>9, <1>10 DEF NamesInv

LEMMA StoreNames ==
  ASSUME NamesInv, NEW p \in Procs, TypeOK', Store(p)
  PROVE  NamesInv'
<1>1. PICK tb \in Tables : tb = req[p].table
  BY DEF NamesInv, TypeOK, AnyRequest
<1>2. PICK f \in {"in_use", "name", "object"} :
        \E next \in {"name", "object", "sum_roots"} : StoreField(p, f, next)
  BY DEF Store
<1>3. Storing(p) /\ Locked(p) /\ Posed(p) /\ slot[p] \in Slots(tb)
  BY <1>1, <1>2 DEF NamesInv, TypeOK, StoreField, At, Storing, Updating,
                    Locked, Posed
<1>4. PICK k \in Slots(tb) : k = slot[p]
  BY <1>3
<1>5. req' = req /\ slot' = slot /\ writer' = writer
      /\ \A q \in Procs \ {p} : pc'[q] = pc[q]
  BY <1>2 DEF NamesInv, TypeOK, StoreField, Goto, locals, locks
<1>6. \/ pc[p] = "in_use" /\ pc'[p] = "name" /\ f = "in_use"
      \/ pc[p] = "name" /\ pc'[p] = "object" /\ f = "name"
      \/ pc[p] = "object" /\ pc'[p] = "sum_roots" /\ f = "object"
  BY <1>2 DEF NamesInv, TypeOK, StoreField, Store, Goto, At
<1>7. /\ \A q \in Procs : Updating(q)' <=> Updating(q)
      /\ \A q \in Procs \ {p} : Storing(q)' <=> Storing(q)
  BY <1>5, <1>6 DEF Updating, Storing
<1>8. LockSound' /\ RequestSound'
  BY <1>5, <1>6, <1>7, <1>3 DEF NamesInv, LockSound, RequestSound, Locked, Posed, Valid
<1>9. /\ \A t \in Tables : \A i \in Slots(t) : ~(t = tb /\ i = k) =>
           table'[t][i] = table[t][i]
      /\ table[tb][k] \in Entries
      /\ table'[tb][k] = [table[tb][k] EXCEPT ![f] = Target(p)[f]]
  <2>1. PICK v : v = [table[tb][k] EXCEPT ![f] = Target(p)[f]]
    OBVIOUS
  <2>2. PICK c : c = [table[tb] EXCEPT ![k] = v]
    OBVIOUS
  <2>3. table' = [table EXCEPT ![tb] = c]
    BY <1>1, <1>2, <1>4, <2>1, <2>2 DEF StoreField
  <2>4. table = [t \in Tables |-> table[t]]
        /\ table[tb] \in [Slots(tb) -> Entries]
    BY ContentsFacts DEF NamesInv, TypeOK
  <2>5. table'[tb] = c /\ \A t \in Tables : t # tb => table'[t] = table[t]
    BY <2>3, <2>4
  <2>6. c[k] = v /\ \A i \in Slots(tb) : i # k => c[i] = table[tb][i]
    BY <2>2, <2>4
  <2>7. QED  BY <2>1, <2>4, <2>5, <2>6
<1>10. PICK e \in Entries : e = table[tb][k]
  BY <1>9
<1>11. PICK d \in Entries : d = table'[tb][k]
  BY ContentsFacts DEF TypeOK
<1>12. /\ d.in_use = IF f = "in_use" THEN Target(p).in_use ELSE e.in_use
       /\ d.name = IF f = "name" THEN Target(p).name ELSE e.name
  BY <1>9, <1>10, <1>11 DEF Entries
<1>13. /\ req[p].op \in {"put", "remove"} /\ req[p].name # NoName
       /\ req[p].op = "put" => /\ Target(p).in_use = 1
                               /\ Target(p).name = req[p].name
       /\ req[p].op = "remove" => /\ Target(p).in_use = 0
                                  /\ Target(p).name = NoName
  BY <1>3 DEF NamesInv, RequestSound, Posed, Valid, Target, Entry, Unused
<1>14. /\ pc[p] \in {"name", "object"} => e.in_use = Target(p).in_use
       /\ pc[p] = "object" => e.name = Target(p).name
       /\ req[p].op = "put" =>
            /\ e.name \in {NoName, req[p].name}
            /\ \A j \in Slots(tb) \ {k} :
                 table[tb][j].in_use = 1 => table[tb][j].name # req[p].name
  BY <1>1, <1>3, <1>4, <1>10 DEF NamesInv, SlotSound
<1>15. SlotSound'
  <2> SUFFICES ASSUME NEW q \in Procs, Storing(q)'
               PROVE  LET t == req[q].table
                      IN /\ pc'[q] \in {"name", "object"} =>
                              table'[t][slot[q]].in_use = Target(q).in_use
                         /\ pc'[q] = "object" =>
                              table'[t][slot[q]].name = Target(q).name
                         /\ req[q].op = "put" =>
                              /\ table'[t][slot[q]].name \in {NoName, req[q].name}
                              /\ \A j \in Slots(t) \ {slot[q]} :
                                   table'[t][j].in_use = 1 =>
                                     table'[t][j].name # req[q].name
    BY <1>5 DEF SlotSound, Target
  <2>1. CASE q = p
    <3>1. /\ pc'[p] \in {"name", "object"} => d.in_use = Target(p).in_use
          /\ pc'[p] = "object" => d.name = Target(p).name
          /\ req[p].op = "put" => d.name \in {NoName, req[p].name}
      BY <1>6, <1>12, <1>13, <1>14
    <3>2. req[p].op = "put" =>
            \A j \in Slots(tb) \ {k} :
              table'[tb][j].in_use = 1 => table'[tb][j].name # req[p].name
      BY <1>9, <1>14
    <3>3. QED  BY <2>1, <3>1, <3>2, <1>1, <1>4, <1>11
  <2>2. CASE q # p
    <3>1. Storing(q) /\ req[q].table \in Tables /\ req[q].table # tb
          /\ slot[q] \in Slots(req[q].table)
      BY <2>2, <1>1, <1>3, <1>7, SoleWriter DEF NamesInv, TypeOK, AnyRequest
    <3>2. \A i \in Slots(req[q].table) :
            table'[req[q].table][i] = table[req[q].table][i]
      BY <3>1, <1>9
    <3>3. QED  BY <2>2, <3>1, <3>2, <1>5 DEF NamesInv, SlotSound
  <2>3. QED  BY <2>1, <2>2
<1>16. \A q \in Procs, i \in Slots(tb) : Writes(q, tb, i) => q = p /\ i = k
  BY <1>1, <1>3, <1>4, SoleWriter DEF Writes
<1>17. EntrySound'
  <2> SUFFICES ASSUME NEW t \in Tables, NEW i \in Slots(t),
                      \A q \in Procs : ~Writes(q, t, i)'
               PROVE  table'[t][i].in_use = 1 <=> table'[t][i].name # NoName
    BY DEF EntrySound
  <2>1. CASE t = tb /\ i = k
    <3>1. ~Storing(p)'
      BY <2>1, <1>1, <1>4, <1>5 DEF Writes
    <3>2. f = "object" /\ pc[p] = "object"
      BY <3>1, <1>6 DEF Storing
    <3>3. d.in_use = Target(p).in_use /\ d.name = Target(p).name
      BY <3>2, <1>12, <1>14
    <3>4. QED  BY <2>1, <3>3, <1>11, <1>13
  <2>2. CASE ~(t = tb /\ i = k)
    <3>1. \A q \in Procs : ~Writes(q, t, i)
      BY <2>2, <1>1, <1>4, <1>5, <1>7 DEF Writes
    <3>2. QED  BY <2>2, <3>1, <1>9 DEF NamesInv, EntrySound
  <2>3. QED  BY <2>1, <2>2
<1>18. \A j \in Slots(tb) \ {k} :
         table[tb][j].in_use = 1 => table[tb][j].name # NoName
  BY <1>16 DEF NamesInv, EntrySound
<1>19. d.in_use = 1 =>
         \A j \in Slots(tb) \ {k} :
           table[tb][j].in_use = 1 => table[tb][j].name # d.name
  <2>1. CASE req[p].op = "put"
    BY <2>1, <1>12, <1>13, <1>14, <1>18
  <2>2. CASE req[p].op = "remove"
    BY <2>2, <1>6, <1>12, <1>13, <1>14
  <2>3. QED  BY <2>1, <2>2, <1>13
<1>20. NamesUnique'
  <2> SUFFICES ASSUME NEW t \in Tables, NEW i \in Slots(t), NEW j \in Slots(t),
                      table'[t][i].in_use = 1, table'[t][j].in_use = 1,
                      table'[t][i].name = table'[t][j].name
               PROVE  i = j
    BY DEF NamesUnique
  <2>1. CASE t = tb /\ (i = k \/ j = k)
    BY <2>1, <1>9, <1>11, <1>19
  <2>2. CASE ~(t = tb /\ (i = k \/ j = k))
    BY <2>2, <1>9 DEF NamesInv, NamesUnique
  <2>3. QED  BY <2>1, <2>2
<1>21. QED  BY <1>8, <1>15, <1>17, <1>20 DEF NamesInv

LEMMA NamesInit == Init => NamesInv
<1> SUFFICES ASSUME Init PROVE NamesInv
  OBVIOUS
<1>1. \A tb \in Tables : \A i \in Slots(tb) : table[tb][i] = Unused
  BY DEF Init, Empty
<1>2. EntrySound /\ NamesUnique
  BY <1>1 DEF EntrySound, NamesUnique, Unused, Entry
<1>3. \A p \in Procs : pc[p] = "idle"
  BY DEF Init
<1>4. LockSound /\ RequestSound /\ SlotSound
  BY <1>3 DEF LockSound, RequestSound, SlotSound, Updating, Storing
<1>5. QED  BY <1>2, <1>4, TypeInit DEF NamesInv

LEMMA NamesStep ==
  ASSUME NamesInv, [Next]_vars
  PROVE  NamesInv'
<1>1. ASSUME UNCHANGED <<table, writer, pc, req, slot>>, TypeOK'
      PROVE  NamesInv'
  <2>1. LockSound' /\ RequestSound' /\ NamesUnique'
    BY <1>1 DEF NamesInv, LockSound, RequestSound, NamesUnique, Updating,
                Storing, Valid
  <2>2. SlotSound' /\ EntrySound'
    BY <1>1 DEF NamesInv, SlotSound, EntrySound, Target, Storing, Writes
  <2>3. QED  BY <1>1, <2>1, <2>2 DEF NamesInv
<1>2. CASE UNCHANGED vars
  <2>1. TypeOK'
    BY <1>2 DEF NamesInv, TypeOK, vars, locks, locals, Storing
  <2>2. QED  BY <1>1, <1>2, <2>1 DEF vars, locks, locals
<1>3. CASE Next
  <2>1. TypeOK /\ TypeOK'
    BY <1>3, TypeStep DEF NamesInv
  <2>2. PICK p \in Procs : \/ \E r \in Requests : Reject(p, r) \/ Start(p, r)
                           \/ Step(p)
                           \/ Crash(p)
    BY <1>3 DEF Next
  <2>3. CASE \/ \E r \in Requests : Reject(p, r) \/ Start(p, r)
             \/ ReadLock(p) \/ FindFails(p) \/ Read(p) \/ CheckStart(p)
             \/ CheckTables(p) \/ Compare(p) \/ TryBusy(p) \/ SumTables(p)
             \/ SumStore(p)
    BY <2>1, <2>3, KeepLockNames
  <2>4. CASE WriteLock(p) \/ TryLock(p) \/ Unlock(p) \/ TryUnlock(p)
    BY <2>1, <2>4, LockNames, UnlockNames
  <2>5. CASE Find(p) \/ Store(p)
    BY <2>1, <2>5, FindNames, StoreNames
  <2>6. CASE Crash(p)
    BY <1>1, <2>1, <2>6 DEF Crash, locks, locals
  <2>7. QED  BY <2>2, <2>3, <2>4, <2>5, <2>6 DEF Step, Update, Check
<1>4. QED  BY <1>2, <1>3

(* No name is ever bound by two entries of the root table, or of the       *)
(* index, whatever the interleaving of updates and wherever one dies.      *)
THEOREM DirectoryNamesUnique == Spec => []NamesUnique
<1>1. NamesInv => NamesUnique
  BY DEF NamesInv
<1>2. QED  BY NamesInit, NamesStep, <1>1, PTL DEF Spec

-----------------------------------------------------------------------------
(* The tables implement two bounded maps.  Beside the names, the argument  *)
(* needs what the locks keep apart, what a query was asked, and that a     *)
(* bound name has a handle.                                                *)

RwSound ==
  /\ \A tb \in Tables : writer[tb] = NoProc \/ readers[tb] = {}
  /\ \A p \in Procs : pc[p] = "read" => p \in readers[req[p].table]
QuerySound ==
  \A p \in Procs : pc[p] \in {"rdlock", "read"} =>
    req[p].op \in {"get", "contains"} /\ Valid(req[p])
AnswerSound ==
  /\ DOMAIN answer = Procs
  /\ \A p \in Procs : Answered(p) => answer[p] # NoAnswer
ObjectSound ==
  \A tb \in Tables : \A i \in Slots(tb) :
    (\A p \in Procs : ~Writes(p, tb, i)) /\ table[tb][i].in_use = 1 =>
      table[tb][i].object # NoObject

MapInv == NamesInv /\ RwSound /\ QuerySound /\ AnswerSound /\ ObjectSound

Move(p) ==
  \/ \E r \in Requests : Reject(p, r) \/ Start(p, r)
  \/ Step(p)
  \/ Crash(p)
OthersWait(p) ==
  /\ DOMAIN answer' = DOMAIN answer
  /\ \A q \in Procs \ {p} : answer'[q] = answer[q]

LEMMA MapInit == Init => MapInv
<1> SUFFICES ASSUME Init PROVE MapInv
  OBVIOUS
<1>1. RwSound /\ QuerySound
  BY DEF Init, RwSound, QuerySound
<1>2. AnswerSound
  BY DEF Init, AnswerSound, Answered, Updating, Storing
<1>3. ObjectSound
  BY DEF Init, ObjectSound, Empty, Unused, Entry
<1>4. QED  BY <1>1, <1>2, <1>3, NamesInit DEF MapInv

(* A step of p leaves the calls of the others alone.                       *)
LEMMA MoveStays ==
  ASSUME TypeOK, NEW p \in Procs, Move(p)
  PROVE  OthersStay(p)
<1>1. \A q \in Procs \ {p} : pc'[q] = pc[q]
  <2>1. pc' = pc \/ \E l : Goto(p, l)
    BY DEF Move, Step, Update, Check, Reject, Start, WriteLock, ReadLock,
           Unlock, Find, FindFails, Store, StoreField, SumTables, SumTable,
           SumStore, Read, CheckStart, CheckTables, Compare, TryLock, TryBusy,
           TryUnlock, TryNext, Return, Crash
  <2>2. QED  BY <2>1 DEF Goto, TypeOK
<1>2. \A q \in Procs \ {p} : req'[q] = req[q] /\ slot'[q] = slot[q]
  <2>1. \/ UNCHANGED <<req, slot>>
        \/ \E r : req' = [req EXCEPT ![p] = r] /\ slot' = slot
        \/ Return(p)
        \/ TryNext(p)
        \/ req' = req /\ \E k : slot' = [slot EXCEPT ![p] = k]
    BY DEF Move, Step, Update, Check, Reject, Start, WriteLock, ReadLock,
           Unlock, Find, FindFails, Store, StoreField, SumTables, SumTable,
           SumStore, Read, CheckStart, CheckTables, Compare, TryLock, TryBusy,
           TryUnlock, Crash, locals
  <2>2. QED  BY <2>1 DEF Return, TryNext, TypeOK
<1>3. QED  BY <1>1, <1>2 DEF OthersStay

LEMMA MoveWaits ==
  ASSUME DOMAIN answer = Procs, NEW p \in Procs, Move(p)
  PROVE  OthersWait(p)
<1>1. answer' = answer \/ \E a : Give(p, a)
  BY DEF Move, Step, Update, Check, Reject, Start, WriteLock, ReadLock,
         Unlock, Find, FindFails, Store, StoreField, SumTables, SumTable,
         SumStore, Read, CheckStart, CheckTables, Compare, TryLock, TryBusy,
         TryUnlock, Crash
<1>2. QED  BY <1>1 DEF Give, OthersWait

LEMMA RwStep ==
  ASSUME TypeOK, RwSound, NEW p \in Procs, Move(p)
  PROVE  RwSound'
<1>1. PICK tb \in Tables : tb = req[p].table
  BY DEF TypeOK, AnyRequest
<1>2. OthersStay(p)
  BY MoveStays
<1>3. CASE WriteLock(p) \/ TryLock(p)
  <2>1. /\ readers[tb] = {} /\ readers' = readers
        /\ writer' = [writer EXCEPT ![tb] = p]
        /\ pc'[p] # "read"
    BY <1>1, <1>3 DEF WriteLock, TryLock, Free, Goto, TypeOK
  <2>2. QED  BY <1>2, <2>1 DEF RwSound, OthersStay, TypeOK
<1>4. CASE ReadLock(p)
  <2>1. /\ writer[tb] = NoProc /\ writer' = writer /\ req' = req
        /\ readers' = [readers EXCEPT ![tb] = readers[tb] \cup {p}]
    BY <1>1, <1>4 DEF ReadLock, locals
  <2>2. \A t \in Tables : readers[t] \subseteq readers'[t]
    BY <2>1 DEF TypeOK
  <2>3. p \in readers'[tb]
    BY <2>1 DEF TypeOK
  <2>4. \A q \in Procs : req[q].table \in Tables
    BY DEF TypeOK, AnyRequest
  <2>5. QED  BY <1>1, <1>2, <2>1, <2>2, <2>3, <2>4 DEF RwSound, OthersStay, TypeOK
<1>5. CASE Unlock(p) \/ TryUnlock(p)
  <2>1. /\ \A t \in Tables : writer'[t] = writer[t] \/ writer'[t] = NoProc
        /\ \A t \in Tables : readers'[t] \subseteq readers[t]
                             /\ readers[t] \subseteq readers'[t] \cup {p}
        /\ pc'[p] # "read"
    BY <1>1, <1>5 DEF Unlock, TryUnlock, TryNext, Return, Goto, TypeOK
  <2>2. \A q \in Procs : req[q].table \in Tables
    BY DEF TypeOK, AnyRequest
  <2>3. QED  BY <1>2, <2>1, <2>2 DEF RwSound, OthersStay
<1>6. CASE ~(WriteLock(p) \/ TryLock(p) \/ ReadLock(p) \/ Unlock(p) \/ TryUnlock(p))
  <2>1. writer' = writer /\ readers' = readers
    BY <1>6 DEF Move, Step, Update, Check, Reject, Start, Find, FindFails,
                Store, StoreField, SumTables, SumTable, SumStore, Read,
                CheckStart, CheckTables, Compare, TryBusy, Crash, locks
  <2>2. pc'[p] = "read" => pc[p] = "read" /\ req'[p] = req[p]
    <3>1. CASE \E r \in Requests : Reject(p, r) \/ Start(p, r)
      <4>1. PICK r \in Requests : Reject(p, r) \/ Start(p, r)
        BY <3>1
      <4>2. r.op \in {"put", "remove", "get", "contains", "open", "validate"}
        BY OpsAssumption DEF Requests
      <4>3. QED  BY <4>1, <4>2 DEF TypeOK, Reject, Start, Call, At, Goto
    <3>2. CASE Find(p) \/ FindFails(p) \/ Store(p) \/ SumTables(p) \/ SumStore(p)
               \/ Read(p) \/ CheckStart(p) \/ CheckTables(p) \/ TryBusy(p)
      <4>1. \E l \in Labels \ {"read"} : Goto(p, l)
        <5>1. CASE Find(p) \/ FindFails(p) \/ SumStore(p) \/ Read(p)
                   \/ CheckStart(p) \/ TryBusy(p)
          BY <5>1 DEF Find, FindFails, SumStore, Read, CheckStart, TryBusy,
                      TryNext, Return, Labels
        <5>2. CASE Store(p) \/ SumTables(p) \/ CheckTables(p)
          BY <5>2 DEF Store, StoreField, SumTables, SumTable, CheckTables, Labels
        <5>3. QED  BY <3>2, <5>1, <5>2
      <4>2. QED  BY <4>1 DEF Goto, TypeOK
    <3>3. CASE Compare(p) \/ Crash(p)
      BY <3>3 DEF Compare, Return, Crash, Goto, TypeOK, locals
    <3>4. QED  BY <1>6, <3>1, <3>2, <3>3 DEF Move, Step, Update, Check
  <2>3. QED  BY <1>2, <2>1, <2>2 DEF RwSound, OthersStay
<1>7. QED  BY <1>3, <1>4, <1>5, <1>6

LEMMA QueryStep ==
  ASSUME TypeOK, QuerySound, NEW p \in Procs, Move(p)
  PROVE  QuerySound'
<1>1. OthersStay(p)
  BY MoveStays
<1>2. ASSUME pc'[p] \in {"rdlock", "read"}
      PROVE  req'[p].op \in {"get", "contains"} /\ Valid(req'[p])
  <2>1. CASE \E r \in Requests : Reject(p, r) \/ Start(p, r)
    <3>1. PICK r \in Requests : Reject(p, r) \/ Start(p, r)
      BY <2>1
    <3>2. r.op \in {"put", "remove", "get", "contains", "open", "validate"}
      BY OpsAssumption DEF Requests
    <3>3. Start(p, r) /\ r.op \in {"get", "contains"} /\ req'[p] = r
      BY <1>2, <3>1, <3>2 DEF TypeOK, Reject, Start, Call, At, Goto
    <3>4. QED  BY <3>3 DEF Start
  <2>2. CASE Step(p) \/ Crash(p)
    <3>1. pc[p] \in {"rdlock", "read"} /\ req'[p] = req[p]
      BY <1>2, <2>2
         DEF Step, Update, Check, WriteLock, ReadLock, Unlock, Find, FindFails,
             Store, StoreField, SumTables, SumTable, SumStore, Read, CheckStart,
             CheckTables, Compare, TryLock, TryBusy, TryUnlock, TryNext, Return,
             Crash, At, Goto, TypeOK, locals
    <3>2. QED  BY <3>1 DEF QuerySound
  <2>3. QED  BY <2>1, <2>2 DEF Move
<1>3. ASSUME NEW q \in Procs, pc'[q] \in {"rdlock", "read"}
      PROVE  req'[q].op \in {"get", "contains"} /\ Valid(req'[q])
  BY <1>1, <1>2, <1>3 DEF OthersStay, QuerySound
<1>4. QED  BY <1>3 DEF QuerySound, Valid

LEMMA AnswerStep ==
  ASSUME TypeOK, AnswerSound, NEW p \in Procs, Move(p)
  PROVE  AnswerSound'
<1>1. OthersStay(p) /\ OthersWait(p)
  BY MoveStays, MoveWaits DEF AnswerSound
<1>2. ASSUME Answered(p)' PROVE answer'[p] # NoAnswer
  <2>1. CASE \E r \in Requests : Reject(p, r) \/ Start(p, r)
    <3>1. PICK r \in Requests : Reject(p, r) \/ Start(p, r)
      BY <2>1
    <3>2. r.op \in {"put", "remove", "get", "contains", "open", "validate"}
      BY OpsAssumption DEF Requests
    <3>3. QED
      BY <1>2, <3>1, <3>2 DEF TypeOK, Reject, Start, Call, At, Goto, Answered,
                              Updating, Storing
  <2>2. CASE Find(p) \/ FindFails(p) \/ Read(p)
    <3>1. PICK a : Give(p, a) /\ \/ a \in {<<"OK">>, <<"OUT_OF_MEMORY">>}
                                 \/ a = <<"NOT_FOUND">> \/ \E v : a = <<"OK", v>>
      BY <2>2 DEF Find, FindFails, Read
    <3>2. a # NoAnswer
      BY <3>1 DEF NoAnswer
    <3>3. QED  BY <3>1, <3>2 DEF Give, AnswerSound
  <2>3. CASE Store(p) \/ SumTables(p) \/ SumStore(p) \/ Crash(p)
    <3>1. Answered(p) /\ answer' = answer
      BY <1>2, <2>3 DEF Store, StoreField, SumTables, SumTable, SumStore, Crash,
                        At, Goto, Answered, Updating, Storing
    <3>2. QED  BY <3>1 DEF AnswerSound
  <2>4. CASE WriteLock(p) \/ ReadLock(p) \/ Unlock(p) \/ Check(p)
    BY <1>2, <2>4
       DEF WriteLock, ReadLock, Unlock, Check, CheckStart, CheckTables, SumTable,
           Compare, TryLock, TryBusy, TryUnlock, TryNext, Return, Goto, TypeOK,
           Answered, Updating, Storing
  <2>5. QED  BY <2>1, <2>2, <2>3, <2>4 DEF Move, Step, Update
<1>3. QED
  BY <1>1, <1>2
     DEF AnswerSound, OthersStay, OthersWait, Answered, Updating, Storing

(* A step that stores into no table leaves at most more entries to be      *)
(* written.                                                                *)
LEMMA KeepObjects ==
  ASSUME ObjectSound, NEW p \in Procs, OthersStay(p), table' = table,
         \/ ~Storing(p)
         \/ pc'[p] = pc[p] /\ req'[p] = req[p] /\ slot'[p] = slot[p]
  PROVE  ObjectSound'
<1>1. \A q \in Procs, tb \in Tables : \A i \in Slots(tb) :
        Writes(q, tb, i) => Writes(q, tb, i)'
  BY DEF OthersStay, Writes, Storing
<1>2. QED  BY <1>1 DEF ObjectSound

LEMMA StoreObjects ==
  ASSUME NamesInv, ObjectSound, NEW p \in Procs, OthersStay(p), Store(p)
  PROVE  ObjectSound'
<1>1. PICK tb \in Tables : tb = req[p].table
  BY DEF NamesInv, TypeOK, AnyRequest
<1>2. PICK f \in {"in_use", "name", "object"} :
        \E next \in {"name", "object", "sum_roots"} : StoreField(p, f, next)
  BY DEF Store
<1>3. Storing(p) /\ slot[p] \in Slots(tb) /\ req' = req /\ slot' = slot
      /\ pc[p] = f
  BY <1>1, <1>2 DEF NamesInv, TypeOK, StoreField, At, Storing, locals
<1>4. PICK k \in Slots(tb) : k = slot[p]
  BY <1>3
<1>5. pc'[p] \in {"name", "object", "sum_roots"}
      /\ (pc'[p] = "sum_roots" => f = "object")
  BY <1>2 DEF NamesInv, TypeOK, Store, StoreField, Goto, At
<1>6. PICK T \in [Tables -> UNION {[Slots(t) -> Entries] : t \in Tables}] :
        T = table /\ T[tb] \in [Slots(tb) -> Entries]
  BY ContentsFacts DEF NamesInv, TypeOK, Contents
<1>7. PICK v \in Entries : v = [T[tb][k] EXCEPT ![f] = Target(p)[f]]
  BY <1>6, TargetType DEF NamesInv, Entries
<1>8. table' = [T EXCEPT ![tb] = [T[tb] EXCEPT ![k] = v]]
  BY <1>1, <1>2, <1>4, <1>6, <1>7 DEF StoreField
<1>9. /\ table'[tb][k] = v
      /\ \A t \in Tables : \A i \in Slots(t) : ~(t = tb /\ i = k) =>
           table'[t][i] = table[t][i]
  BY <1>6, <1>8
<1>10. ASSUME NEW t \in Tables, NEW i \in Slots(t),
              \A q \in Procs : ~Writes(q, t, i)', table'[t][i].in_use = 1
       PROVE  table'[t][i].object # NoObject
  <2>1. CASE t = tb /\ i = k
    <3>1. f = "object"
      BY <1>1, <1>3, <1>4, <1>5, <1>10, <2>1 DEF Writes, Storing
    <3>2. T[tb][k] \in Entries /\ Target(p) \in Entries
      BY <1>6, TargetType DEF NamesInv
    <3>3. v.object = Target(p).object /\ v.in_use = T[tb][k].in_use
      BY <1>7, <3>1, <3>2 DEF Entries
    <3>4. T[tb][k].in_use = Target(p).in_use
      BY <1>1, <1>3, <1>4, <1>6, <3>1 DEF NamesInv, SlotSound
    <3>5. Target(p).in_use = 1
      BY <1>9, <1>10, <2>1, <3>3, <3>4
    <3>6. req[p].op = "put" /\ Valid(req[p])
      BY <1>3, <3>5 DEF NamesInv, RequestSound, Updating, Target, Unused, Entry
    <3>7. QED
      BY <1>9, <2>1, <3>3, <3>6 DEF Target, Entry, Valid
  <2>2. CASE ~(t = tb /\ i = k)
    <3>1. \A q \in Procs : ~Writes(q, t, i)
      BY <1>1, <1>3, <1>4, <1>10, <2>2 DEF OthersStay, Writes, Storing
    <3>2. QED  BY <1>9, <1>10, <2>2, <3>1 DEF ObjectSound
  <2>3. QED  BY <2>1, <2>2
<1>11. QED  BY <1>10 DEF ObjectSound

LEMMA MapStep ==
  ASSUME MapInv, NEW p \in Procs, Move(p)
  PROVE  MapInv'
<1> USE DEF MapInv
<1>1. NamesInv'
  BY NamesStep DEF Next, Move
<1>2. TypeOK
  BY DEF NamesInv
<1>3. RwSound' /\ QuerySound' /\ AnswerSound'
  BY <1>2, RwStep, QueryStep, AnswerStep
<1>4. OthersStay(p)
  BY <1>2, MoveStays
<1>5. ObjectSound'
  <2>1. CASE Store(p)
    BY <1>4, <2>1, StoreObjects
  <2>2. CASE Crash(p)
    BY <1>4, <2>2, KeepObjects DEF Crash, locals
  <2>3. CASE SumTables(p) \/ SumStore(p)
    BY <1>4, <2>3, KeepObjects
       DEF SumTables, SumTable, SumStore, At, Storing
  <2>4. CASE Find(p)
    BY <1>4, <2>4, KeepObjects DEF Find, At, Storing
  <2>5. CASE \/ \E r \in Requests : Reject(p, r) \/ Start(p, r)
             \/ WriteLock(p) \/ ReadLock(p) \/ Unlock(p) \/ FindFails(p)
             \/ Read(p) \/ Check(p)
    BY <1>2, <1>4, <2>5, BystanderSteps, KeepObjects DEF Bystander, Updating
  <2>6. QED  BY <2>1, <2>2, <2>3, <2>4, <2>5 DEF Move, Step, Update
<1>6. QED  BY <1>1, <1>3, <1>5

-----------------------------------------------------------------------------
(* What the entries E of a table with slots S say of the name n.           *)

Hits(E, S, n) == {i \in S : E[i].in_use = 1 /\ E[i].name = n}
Seen(E, S, n) ==
  IF Hits(E, S, n) = {} THEN NoObject ELSE E[First(Hits(E, S, n))].object
EffectiveTable(tb) == [i \in Slots(tb) |-> Effective(tb, i)]

LEMMA SeenOne ==
  ASSUME NEW S, S \subseteq Nat, NEW E, NEW n, NEW i \in S,
         \A j \in S : E[j].in_use = 1 /\ E[j].name = n <=> j = i
  PROVE  Seen(E, S, n) = E[i].object
<1>1. Hits(E, S, n) = {i}
  BY DEF Hits
<1>2. First({i}) = i
  BY FirstFacts
<1>3. QED  BY <1>1, <1>2 DEF Seen

(* Two tables that differ only in entries for other names agree on n.      *)
LEMMA SeenSame ==
  ASSUME NEW S, S \subseteq Nat, NEW E, NEW F, NEW n,
         \A i \in S : \/ E[i] = F[i]
                       \/ /\ ~(E[i].in_use = 1 /\ E[i].name = n)
                          /\ ~(F[i].in_use = 1 /\ F[i].name = n)
  PROVE  Seen(E, S, n) = Seen(F, S, n)
<1>1. Hits(E, S, n) = Hits(F, S, n)
  BY DEF Hits
<1>2. CASE Hits(E, S, n) = {}
  BY <1>1, <1>2 DEF Seen
<1>3. CASE Hits(E, S, n) # {}
  <2>1. Hits(E, S, n) \subseteq S /\ Hits(E, S, n) \subseteq Nat
    BY DEF Hits
  <2>2. PICK i \in Hits(E, S, n) : i = First(Hits(E, S, n))
    BY <1>3, <2>1, FirstFacts
  <2>3. E[i] = F[i]
    BY <1>1, <2>2 DEF Hits
  <2>4. QED  BY <1>1, <1>3, <2>2, <2>3 DEF Seen
<1>4. QED  BY <1>2, <1>3

LEMMA LookupSeen ==
  ASSUME NEW tb \in Tables, NEW n
  PROVE  /\ Lookup(tb, n) = Seen(EffectiveTable(tb), Slots(tb), n)
         /\ Lookup(tb, n)' = Seen(EffectiveTable(tb)', Slots(tb), n)
<1>1. /\ \A i \in Slots(tb) : EffectiveTable(tb)[i] = Effective(tb, i)
      /\ \A i \in Slots(tb) : EffectiveTable(tb)'[i] = Effective(tb, i)'
  BY DEF EffectiveTable
<1>2. Slots(tb) \subseteq Nat
  BY DEF Slots
<1>3. Hits(EffectiveTable(tb), Slots(tb), n) =
        {i \in Slots(tb) : /\ Effective(tb, i).in_use = 1
                           /\ Effective(tb, i).name = n}
  BY <1>1 DEF Hits
<1>4. Hits(EffectiveTable(tb)', Slots(tb), n) =
        {i \in Slots(tb) : /\ Effective(tb, i)'.in_use = 1
                           /\ Effective(tb, i)'.name = n}
  BY <1>1 DEF Hits
<1>5. ASSUME NEW H, H \subseteq Slots(tb), H # {} PROVE First(H) \in Slots(tb)
  BY <1>2, <1>5, FirstFacts
<1>6. Lookup(tb, n) = Seen(EffectiveTable(tb), Slots(tb), n)
  <2>1. PICK H : H = Hits(EffectiveTable(tb), Slots(tb), n)
    OBVIOUS
  <2>2. Lookup(tb, n) = IF H = {} THEN NoObject ELSE Effective(tb, First(H)).object
    BY <1>3, <2>1 DEF Lookup
  <2>3. H # {} => EffectiveTable(tb)[First(H)] = Effective(tb, First(H))
    BY <1>1, <1>5, <2>1 DEF Hits
  <2>4. QED  BY <2>1, <2>2, <2>3 DEF Seen
<1>7. Lookup(tb, n)' = Seen(EffectiveTable(tb)', Slots(tb), n)
  <2>1. PICK H : H = Hits(EffectiveTable(tb)', Slots(tb), n)
    OBVIOUS
  <2>2. Lookup(tb, n)' = IF H = {} THEN NoObject
                         ELSE Effective(tb, First(H))'.object
    BY <1>4, <2>1 DEF Lookup
  <2>3. H # {} => EffectiveTable(tb)'[First(H)] = Effective(tb, First(H))'
    BY <1>1, <1>5, <2>1 DEF Hits
  <2>4. QED  BY <2>1, <2>2, <2>3 DEF Seen
<1>8. QED  BY <1>6, <1>7

(* An entry reads the same before and after a step if its writers and what *)
(* they write stay, or what is in the table if there is none.              *)
LEMMA SameEffective ==
  ASSUME NEW tb, NEW i, Writers(tb, i)' = Writers(tb, i),
         Writers(tb, i) = {} => table'[tb][i] = table[tb][i],
         \A q \in Writers(tb, i) : Target(q)' = Target(q)
  PROVE  Effective(tb, i)' = Effective(tb, i)
<1>1. PICK W : W = Writers(tb, i) /\ W = Writers(tb, i)'
  OBVIOUS
<1>2. PICK q : q = CHOOSE w \in W : TRUE
  OBVIOUS
<1>3. W # {} => q \in W
  BY <1>2
<1>4. Effective(tb, i) = IF W = {} THEN table[tb][i] ELSE Target(q)
  BY <1>1, <1>2 DEF Effective
<1>5. Effective(tb, i)' = IF W = {} THEN table'[tb][i] ELSE Target(q)'
  BY <1>1, <1>2 DEF Effective
<1>6. QED  BY <1>1, <1>3, <1>4, <1>5

LEMMA SameBindings ==
  ASSUME \A tb \in Tables : \A i \in Slots(tb) :
           Effective(tb, i)' = Effective(tb, i)
  PROVE  Bindings' = Bindings
<1>1. \A tb \in Tables : EffectiveTable(tb)' = EffectiveTable(tb)
  BY DEF EffectiveTable
<1>2. \A tb \in Tables, n \in Names : Lookup(tb, n)' = Lookup(tb, n)
  BY <1>1, LookupSeen
<1>3. QED  BY <1>2 DEF Bindings

(* The calls of the others look as they did.                               *)
LEMMA OthersView ==
  ASSUME NEW p \in Procs, OthersStay(p), OthersWait(p)
  PROVE  /\ Asked' = [Asked EXCEPT ![p] = Asked'[p]]
         /\ Told' = [Told EXCEPT ![p] = Told'[p]]
<1>1. \A q \in Procs \ {p} : Asked'[q] = Asked[q] /\ Told'[q] = Told[q]
  BY DEF Asked, Told, OthersStay, OthersWait, Waiting, Answered, Updating, Storing
<1>2. /\ Asked = [q \in Procs |-> Asked[q]] /\ Asked' = [q \in Procs |-> Asked'[q]]
      /\ Told = [q \in Procs |-> Told[q]] /\ Told' = [q \in Procs |-> Told'[q]]
  BY DEF Asked, Told
<1>3. QED  BY <1>1, <1>2

LEMMA StillTables ==
  ASSUME NEW p \in Procs, OthersStay(p), table' = table, ~Storing(p), ~Storing(p)'
  PROVE  Bindings' = Bindings
<1>1. ASSUME NEW tb \in Tables, NEW i \in Slots(tb)
      PROVE  Effective(tb, i)' = Effective(tb, i)
  <2>1. /\ Writers(tb, i)' = Writers(tb, i)
        /\ \A q \in Writers(tb, i) : q \in Procs \ {p}
    BY DEF Writers, Writes, OthersStay, Storing
  <2>2. \A q \in Writers(tb, i) : Target(q)' = Target(q)
    BY <2>1 DEF Target, OthersStay
  <2>3. QED  BY <2>1, <2>2, SameEffective
<1>2. QED  BY <1>1, SameBindings

(* Steps that clients do not see.                                          *)
LEMMA QuietView ==
  ASSUME NEW p \in Procs, OthersStay(p), OthersWait(p), table' = table,
         ~Storing(p), ~Storing(p)',
         Waiting(p)' <=> Waiting(p), Answered(p)' <=> Answered(p),
         Waiting(p) \/ Answered(p) => req'[p] = req[p],
         Answered(p) => answer'[p] = answer[p]
  PROVE  UNCHANGED <<Bindings, Asked, Told>>
<1>1. Asked'[p] = Asked[p] /\ Told'[p] = Told[p]
  BY DEF Asked, Told
<1>2. Asked' = Asked /\ Told' = Told
  <2>1. Asked = [q \in Procs |-> Asked[q]] /\ Told = [q \in Procs |-> Told[q]]
    BY DEF Asked, Told
  <2>2. QED  BY <1>1, <2>1, OthersView
<1>3. QED  BY <1>2, StillTables

LEMMA QuietSteps ==
  ASSUME MapInv, NEW p \in Procs,
         \/ \E r \in Requests : \/ Reject(p, r)
                                \/ Start(p, r) /\ r.op \in {"open", "validate"}
         \/ WriteLock(p) \/ ReadLock(p) \/ SumTables(p) \/ SumStore(p)
         \/ Check(p)
  PROVE  UNCHANGED <<Bindings, Asked, Told>>
<1> USE DEF MapInv
<1>1. Move(p)
  BY DEF Move, Step, Update
<1>2. OthersStay(p) /\ OthersWait(p)
  BY <1>1, MoveStays, MoveWaits DEF NamesInv, AnswerSound
<1>3. TypeOK
  BY DEF NamesInv
<1>4. CASE \E r \in Requests : \/ Reject(p, r)
                               \/ Start(p, r) /\ r.op \in {"open", "validate"}
  <2>1. PICK r \in Requests : \/ Reject(p, r)
                              \/ Start(p, r) /\ r.op \in {"open", "validate"}
    BY <1>4
  <2>2. pc[p] = "idle" /\ pc'[p] \in {"idle", "check"} /\ table' = table
    BY <1>3, <2>1 DEF Reject, Start, Call, At, Goto, TypeOK
  <2>3. QED
    BY <1>2, <2>2, QuietView DEF Waiting, Answered, Updating, Storing
<1>5. CASE WriteLock(p) \/ ReadLock(p)
  <2>1. /\ pc[p] \in {"wrlock", "rdlock"} /\ pc'[p] \in {"find", "read"}
        /\ table' = table /\ req' = req
    BY <1>3, <1>5 DEF WriteLock, ReadLock, At, Goto, TypeOK, locals
  <2>2. QED
    BY <1>2, <2>1, QuietView DEF Waiting, Answered, Updating, Storing
<1>6. CASE SumTables(p) \/ SumStore(p)
  <2>1. /\ pc[p] \in {"sum_roots", "sum_index", "sum_store"}
        /\ pc'[p] \in {"sum_index", "sum_store", "unlock"}
        /\ table' = table /\ req' = req /\ answer' = answer
    BY <1>3, <1>6 DEF SumTables, SumTable, SumStore, At, Goto, TypeOK, locals
  <2>2. QED
    BY <1>2, <2>1, QuietView DEF Waiting, Answered, Updating, Storing
<1>7. CASE Check(p)
  <2>1. /\ pc[p] \in {"check", "check_roots", "check_index", "compare", "try",
                      "tried"}
        /\ pc'[p] \in {"check_roots", "check_index", "compare", "try", "tried",
                       "idle"}
    <3>1. CASE CheckStart(p) \/ CheckTables(p) \/ TryLock(p)
      BY <1>3, <3>1 DEF CheckStart, CheckTables, SumTable, TryLock, At, Goto, TypeOK
    <3>2. CASE Compare(p) \/ TryBusy(p) \/ TryUnlock(p)
      BY <1>3, <3>2 DEF Compare, TryBusy, TryUnlock, TryNext, Return, At, Goto, TypeOK
    <3>3. QED  BY <1>7, <3>1, <3>2 DEF Check
  <2>2. table' = table
    BY <1>7 DEF Check, CheckStart, CheckTables, SumTable, Compare, TryLock,
                TryBusy, TryUnlock
  <2>3. QED
    BY <1>2, <2>1, <2>2, QuietView DEF Waiting, Answered, Updating, Storing
<1>8. QED  BY <1>4, <1>5, <1>6, <1>7

LEMMA CrashView ==
  ASSUME NEW p \in Procs, Crash(p)
  PROVE  UNCHANGED <<Bindings, Asked, Told>>
<1>1. UNCHANGED <<table, pc, req, slot, answer>>
  BY DEF Crash, locals
<1>2. ASSUME NEW tb \in Tables, NEW i \in Slots(tb)
      PROVE  Effective(tb, i)' = Effective(tb, i)
  BY <1>1, SameEffective DEF Writers, Writes, Storing, Target
<1>3. Asked' = Asked /\ Told' = Told
  BY <1>1 DEF Asked, Told, Waiting, Answered, Updating, Storing
<1>4. QED  BY <1>2, <1>3, SameBindings

LEMMA StartView ==
  ASSUME MapInv, NEW p \in Procs, NEW r \in Requests, Start(p, r),
         r.op \notin {"open", "validate"}
  PROVE  Abstract!Next
<1> USE DEF MapInv
<1>1. OthersStay(p) /\ OthersWait(p)
  BY MoveStays, MoveWaits DEF NamesInv, AnswerSound, Move
<1>2. r.op \in {"put", "get", "remove", "contains"} /\ Valid(r)
  BY OpsAssumption DEF Requests, Start
<1>3. pc[p] = "idle" /\ pc'[p] \in {"wrlock", "rdlock"} /\ table' = table
      /\ req'[p] = r
  BY <1>2 DEF Start, Call, At, Goto, NamesInv, TypeOK
<1>4. Bindings' = Bindings
  BY <1>1, <1>3, StillTables DEF Storing
<1>5. /\ Asked[p] = [op |-> "none"] /\ Asked'[p] = r
      /\ Told[p] = NoAnswer /\ Told'[p] = NoAnswer
  BY <1>3 DEF Asked, Told, Waiting, Answered, Updating, Storing
<1>6. Asked' = [Asked EXCEPT ![p] = r] /\ Told' = Told
  <2>1. Told = [q \in Procs |-> Told[q]]
    BY DEF Told
  <2>2. QED  BY <1>1, <1>5, <2>1, OthersView
<1>7. r \in Abstract!Requests
  BY <1>2 DEF Requests, Abstract!Requests, Abstract!Tables, Tables
<1>8. Abstract!Invoke(p)
  BY <1>4, <1>5, <1>6, <1>7 DEF Abstract!Invoke, Abstract!NoRequest
<1>9. QED  BY <1>8 DEF Abstract!Next

LEMMA UnlockView ==
  ASSUME MapInv, NEW p \in Procs, Unlock(p)
  PROVE  Abstract!Next
<1> USE DEF MapInv
<1>1. OthersStay(p) /\ OthersWait(p)
  BY MoveStays, MoveWaits DEF NamesInv, AnswerSound, Move, Step
<1>2. pc[p] = "unlock" /\ pc'[p] = "idle" /\ table' = table
  BY DEF Unlock, Return, At, Goto, NamesInv, TypeOK
<1>3. Bindings' = Bindings
  BY <1>1, <1>2, StillTables DEF Storing
<1>4. /\ Told[p] # NoAnswer /\ Asked'[p] = [op |-> "none"] /\ Told'[p] = NoAnswer
  BY <1>2 DEF Asked, Told, Waiting, Answered, Updating, Storing, AnswerSound
<1>5. Abstract!Return(p)
  BY <1>1, <1>3, <1>4, OthersView
     DEF Abstract!Return, Abstract!NoRequest, Abstract!NoAnswer, NoAnswer
<1>6. QED  BY <1>5 DEF Abstract!Next

-----------------------------------------------------------------------------
(* A call that takes effect: the answer is known, and nothing else of what *)
(* the clients see of the calls has changed.                               *)
LEMMA TakeView ==
  ASSUME DOMAIN answer = Procs, NEW p \in Procs, OthersStay(p), OthersWait(p),
         Waiting(p), Answered(p)', req'[p] = req[p], NEW a, Give(p, a)
  PROVE  /\ Asked' = Asked /\ Told' = [Told EXCEPT ![p] = a]
         /\ Asked[p] = req[p] /\ Told[p] = NoAnswer
<1>1. ~Answered(p) /\ answer'[p] = a
  BY DEF Waiting, Answered, Updating, Storing, Give
<1>2. /\ Asked[p] = req[p] /\ Asked'[p] = req[p]
      /\ Told[p] = NoAnswer /\ Told'[p] = a
  BY <1>1 DEF Asked, Told
<1>3. Asked = [q \in Procs |-> Asked[q]]
  BY DEF Asked
<1>4. QED  BY <1>2, <1>3, OthersView

(* While nobody stores into a table, its entries are its bindings.         *)
Calm(tb) == \A i \in Slots(tb) : Writers(tb, i) = {}

LEMMA CalmEntries ==
  ASSUME NEW tb, Calm(tb), NEW i \in Slots(tb)
  PROVE  Effective(tb, i) = table[tb][i] /\ \A p \in Procs : ~Writes(p, tb, i)
BY DEF Calm, Effective, Writers

LEMMA CalmLookup ==
  ASSUME MapInv, NEW tb \in Tables, Calm(tb), NEW n
  PROVE  /\ Named(tb, n) = {} => Lookup(tb, n) = NoObject
         /\ Named(tb, n) # {} => /\ Lookup(tb, n) = Found(tb, n)
                                 /\ Lookup(tb, n) # NoObject
<1>1. \A i \in Slots(tb) : Effective(tb, i) = table[tb][i]
  BY CalmEntries
<1>2. {i \in Slots(tb) : /\ Effective(tb, i).in_use = 1
                         /\ Effective(tb, i).name = n} = Named(tb, n)
  BY <1>1 DEF Named
<1>3. Lookup(tb, n) = IF Named(tb, n) = {} THEN NoObject
                      ELSE Effective(tb, First(Named(tb, n))).object
  BY <1>2 DEF Lookup
<1>4. ASSUME Named(tb, n) # {}
      PROVE  Lookup(tb, n) = Found(tb, n) /\ Lookup(tb, n) # NoObject
  <2>1. Named(tb, n) \subseteq Nat
    BY DEF Named, Slots
  <2>2. PICK i \in Named(tb, n) : i = First(Named(tb, n))
    BY <1>4, <2>1, FirstFacts
  <2>3. i \in Slots(tb) /\ table[tb][i].in_use = 1
    BY DEF Named
  <2>4. table[tb][i].object # NoObject
    BY <2>3, CalmEntries DEF MapInv, ObjectSound
  <2>5. QED  BY <1>1, <1>3, <1>4, <2>2, <2>3, <2>4 DEF Found
<1>5. QED  BY <1>3, <1>4

(* Then the bound names are as many as the used slots: there is room for a *)
(* new name exactly if a slot is free.                                     *)
LEMMA CalmRoom ==
  ASSUME MapInv, NEW tb \in Tables, Calm(tb)
  PROVE  Abstract!Room(tb) <=> FreeSlots(tb) # {}
<1>1. PICK S : S = Slots(tb)
  OBVIOUS
<1>2. PICK c \in Nat : c = Capacity(tb)
  BY CapacityAssumption DEF Capacity
<1>3. IsFiniteSet(S) /\ Cardinality(S) = c
  BY <1>1, <1>2, FS_Interval DEF Slots
<1>4. PICK E \in [S -> Entries] : E = table[tb]
  BY <1>1, ContentsFacts DEF MapInv, NamesInv, TypeOK
<1>5. PICK U : U = {i \in S : E[i].in_use = 1}
  OBVIOUS
<1>6. PICK B : B = {n \in Names : \E i \in U : E[i].name = n}
  OBVIOUS
<1>7. \A i \in U : E[i].name \in B
  <2>1. \A i \in U : E[i].name \in Names \cup {NoName}
    BY <1>4, <1>5 DEF Entries
  <2>2. \A i \in U : E[i].name # NoName
    BY <1>1, <1>4, <1>5, CalmEntries DEF MapInv, NamesInv, EntrySound
  <2>3. QED  BY <1>6, <2>1, <2>2
<1>8. \A i, j \in U : E[i].name = E[j].name => i = j
  BY <1>1, <1>4, <1>5 DEF MapInv, NamesInv, NamesUnique
<1>9. IsFiniteSet(U) /\ Cardinality(U) <= c /\ (Cardinality(U) = c <=> U = S)
  BY <1>3, <1>5, FS_Subset
<1>10. IsFiniteSet(B) /\ Cardinality(B) <= Cardinality(U)
  <2>1. PICK f : f = [n \in B |-> CHOOSE i \in U : E[i].name = n]
    OBVIOUS
  <2>2. \A n \in B : f[n] \in U /\ E[f[n]].name = n
    BY <1>6, <2>1
  <2>3. f \in Injection(B, U)
    BY <2>1, <2>2 DEF Injection, IsInjective
  <2>4. QED  BY <1>9, <2>3, FS_Injection
<1>11. Cardinality(U) <= Cardinality(B)
  <2>1. [i \in U |-> E[i].name] \in Injection(U, B)
    BY <1>7, <1>8 DEF Injection, IsInjective
  <2>2. QED  BY <1>10, <2>1, FS_Injection
<1>12. B = {n \in Names : Bindings[tb][n] # NoObject}
  <2>1. \A n \in Names : Named(tb, n) # {} <=> n \in B
    BY <1>1, <1>4, <1>5, <1>6 DEF Named
  <2>2. \A n \in Names : Bindings[tb][n] # NoObject <=> n \in B
    BY <2>1, CalmLookup DEF Bindings
  <2>3. QED  BY <1>6, <2>2
<1>13. FreeSlots(tb) = {} <=> U = S
  BY <1>1, <1>4, <1>5 DEF FreeSlots, Entries
<1>14. PICK b \in Nat, u \in Nat : b = Cardinality(B) /\ u = Cardinality(U)
  BY <1>9, <1>10, FS_CardinalityType
<1>15. Abstract!Room(tb) <=> b < c
  <2>1. Abstract!Capacity(tb) = c
    BY <1>2 DEF Abstract!Capacity, Capacity
  <2>2. B = {n \in Names : Abstract!Bound(tb, n)}
    BY <1>12 DEF Abstract!Bound
  <2>3. Abstract!Cardinality(B) = b
    BY <1>14 DEF Abstract!Cardinality, Cardinality
  <2>4. QED  BY <2>1, <2>2, <2>3 DEF Abstract!Room
<1>16. QED  BY <1>9, <1>10, <1>11, <1>13, <1>14, <1>15

(* The holder of a lock of a table that is not storing itself keeps        *)
(* everybody else from storing into it.                                    *)
LEMMA HolderCalm ==
  ASSUME MapInv, NEW p \in Procs, pc[p] \in {"find", "read"}
  PROVE  Calm(req[p].table)
<1> USE DEF MapInv
<1>1. PICK tb \in Tables : tb = req[p].table
  BY DEF NamesInv, TypeOK, AnyRequest
<1>2. ASSUME NEW q \in Procs, Storing(q), req[q].table = tb PROVE FALSE
  <2>1. CASE pc[p] = "find"
    BY <1>1, <1>2, <2>1, SoleWriter DEF Locked, Storing, NamesInv, LockSound
  <2>2. CASE pc[p] = "read"
    <3>1. readers[tb] # {} /\ writer[tb] = q
      BY <1>1, <1>2, <2>2 DEF RwSound, NamesInv, LockSound, Updating
    <3>2. QED  BY <3>1, ProcsAssumption DEF RwSound
  <2>3. QED  BY <2>1, <2>2
<1>3. QED  BY <1>1, <1>2 DEF Calm, Writers, Writes

(* A name is bound exactly if an entry of its table is named so.           *)
LEMMA CalmBound ==
  ASSUME MapInv, NEW tb \in Tables, Calm(tb), NEW n \in Names
  PROVE  /\ Abstract!Bound(tb, n) <=> Named(tb, n) # {}
         /\ Named(tb, n) # {} => Bindings[tb][n] = Found(tb, n)
BY CalmLookup DEF Abstract!Bound, Bindings

LEMMA ReadView ==
  ASSUME MapInv, NEW p \in Procs, Read(p)
  PROVE  Abstract!Next
<1> USE DEF MapInv
<1>1. OthersStay(p) /\ OthersWait(p)
  BY MoveStays, MoveWaits DEF NamesInv, AnswerSound, Move, Step
<1>2. pc[p] = "read" /\ pc'[p] = "unlock" /\ table' = table /\ req' = req
  BY DEF Read, At, Goto, NamesInv, TypeOK, locals
<1>3. PICK r \in AnyRequest : r = req[p]
  BY DEF NamesInv, TypeOK
<1>4. PICK tb \in Tables, n \in Names : tb = r.table /\ n = r.name
  BY <1>2, <1>3 DEF QuerySound, Valid, AnyRequest
<1>5. Calm(tb)
  BY <1>2, <1>3, <1>4, HolderCalm
<1>6. Bindings' = Bindings
  BY <1>1, <1>2, StillTables DEF Storing
<1>7. ASSUME NEW a, Give(p, a)
      PROVE  /\ Abstract!Answer(p, a)
             /\ Asked[p] = r /\ Told[p] = NoAnswer
  BY <1>1, <1>2, <1>3, <1>7, TakeView
     DEF Abstract!Answer, AnswerSound, Waiting, Answered
<1>8. CASE r.op = "contains"
  <2>1. Give(p, <<"OK", Named(tb, n) # {}>>)
    BY <1>3, <1>4, <1>8 DEF Read
  <2>2. <<"OK", Named(tb, n) # {}>> = <<"OK", Abstract!Bound(tb, n)>>
    <3>1. Abstract!Bound(tb, n) <=> Named(tb, n) # {}
      BY <1>5, CalmBound
    <3>2. QED  BY <3>1, Zenon DEF Abstract!Bound
  <2>3. Give(p, <<"OK", Abstract!Bound(tb, n)>>)
    BY <2>1, <2>2, Zenon
  <2>4. Abstract!Contains(p, r)
    BY <1>4, <1>6, <1>7, <1>8, <2>3 DEF Abstract!Contains
  <2>5. r # Abstract!NoRequest
    BY <1>8 DEF Abstract!NoRequest
  <2>6. QED
    BY <1>7, <2>3, <2>4, <2>5
       DEF Abstract!Next, Abstract!TakeEffect, Abstract!NoAnswer, NoAnswer
<1>9. CASE r.op = "get"
  <2>1. PICK a : /\ Give(p, a)
                 /\ a = IF Named(tb, n) # {} THEN <<"OK", Found(tb, n)>>
                        ELSE <<"NOT_FOUND">>
    BY <1>3, <1>4, <1>9 DEF Read
  <2>2. a = IF Abstract!Bound(tb, n) THEN <<"OK", Bindings[tb][n]>>
            ELSE <<"NOT_FOUND">>
    BY <1>5, <2>1, CalmBound
  <2>3. Abstract!Get(p, r)
    BY <1>4, <1>6, <1>7, <1>9, <2>1, <2>2 DEF Abstract!Get
  <2>4. r # Abstract!NoRequest
    BY <1>9 DEF Abstract!NoRequest
  <2>5. QED
    BY <1>7, <2>1, <2>3, <2>4
       DEF Abstract!Next, Abstract!TakeEffect, Abstract!NoAnswer, NoAnswer
<1>10. QED  BY <1>2, <1>3, <1>8, <1>9 DEF QuerySound

(* What an update that is looking for its entry has been asked for.        *)
LEMMA FindAsked ==
  ASSUME MapInv, NEW p \in Procs, pc[p] = "find"
  PROVE  /\ req[p].table \in Tables /\ req[p].name \in Names
         /\ req[p].op \in {"put", "remove"}
         /\ req[p] # Abstract!NoRequest
         /\ Calm(req[p].table)
<1>1. req[p].op \in {"put", "remove"} /\ Valid(req[p])
  BY DEF MapInv, NamesInv, RequestSound
<1>2. req[p] # Abstract!NoRequest
  BY <1>1 DEF Abstract!NoRequest
<1>3. req[p].table \in Tables /\ req[p].name \in Names
  BY <1>1 DEF MapInv, NamesInv, TypeOK, AnyRequest, Valid
<1>4. QED  BY <1>1, <1>2, <1>3, HolderCalm

LEMMA FindFailsView ==
  ASSUME MapInv, NEW p \in Procs, FindFails(p)
  PROVE  Abstract!Next
<1> USE DEF MapInv
<1>1. OthersStay(p) /\ OthersWait(p)
  BY MoveStays, MoveWaits DEF NamesInv, AnswerSound, Move, Step, Update
<1>2. pc[p] = "find" /\ pc'[p] = "unlock" /\ table' = table /\ req' = req
  BY DEF FindFails, At, Goto, NamesInv, TypeOK, locals
<1>3. PICK r : r = req[p]
  OBVIOUS
<1>4. /\ r.table \in Tables /\ r.name \in Names /\ Calm(r.table)
      /\ r.op \in {"put", "remove"} /\ r # Abstract!NoRequest
  BY <1>2, <1>3, FindAsked
<1>5. Bindings' = Bindings
  BY <1>1, <1>2, StillTables DEF Storing
<1>6. PICK a : Give(p, a) /\ a = IF r.op = "put" THEN <<"OUT_OF_MEMORY">>
                                 ELSE <<"NOT_FOUND">>
  BY <1>3 DEF FindFails
<1>7. Abstract!Answer(p, a) /\ Asked[p] = r /\ Told[p] = NoAnswer
  BY <1>1, <1>2, <1>3, <1>6, TakeView
     DEF Abstract!Answer, AnswerSound, Waiting, Answered
<1>8. /\ Named(r.table, r.name) = {}
      /\ r.op = "put" => FreeSlots(r.table) = {}
  BY <1>3, <1>4 DEF FindFails, Candidates
<1>9. /\ ~Abstract!Bound(r.table, r.name)
      /\ r.op = "put" => ~Abstract!Room(r.table)
  BY <1>4, <1>8, CalmBound, CalmRoom
<1>10. Abstract!Put(p, r) \/ Abstract!Remove(p, r)
  BY <1>4, <1>5, <1>6, <1>7, <1>9 DEF Abstract!Put, Abstract!Remove
<1>11. QED
  BY <1>4, <1>7, <1>10
     DEF Abstract!Next, Abstract!TakeEffect, Abstract!NoAnswer, NoAnswer

(* Finding its entry is where an update takes effect: the table reads as   *)
(* before but for the entry found, which reads as the update will leave it.*)
LEMMA FindEntries ==
  ASSUME MapInv, NEW p \in Procs, Find(p), NEW tb \in Tables,
         tb = req[p].table, NEW k, k = slot'[p]
  PROVE  /\ k \in Slots(tb) /\ k \in Candidates(req[p])
         /\ \A i \in Slots(tb) : Effective(tb, i) = table[tb][i]
         /\ \A i \in Slots(tb) : i # k => Effective(tb, i)' = table[tb][i]
         /\ Effective(tb, k)' = Target(p)
         /\ \A t \in Tables \ {tb} : \A i \in Slots(t) :
              Effective(t, i)' = Effective(t, i)
<1> USE DEF MapInv
<1>1. OthersStay(p)
  BY MoveStays DEF NamesInv, Move, Step, Update
<1>2. /\ pc[p] = "find" /\ pc'[p] = "in_use" /\ table' = table /\ req' = req
      /\ \A q : Target(q)' = Target(q)
  BY DEF Find, At, Goto, NamesInv, TypeOK, Target
<1>3. k \in Slots(tb) /\ k \in Candidates(req[p])
  BY FindType DEF NamesInv
<1>5. Calm(tb)
  BY <1>2, HolderCalm
<1>6. \A i \in Slots(tb) : /\ Effective(tb, i) = table[tb][i]
                            /\ \A q \in Procs : ~Writes(q, tb, i)
  BY <1>5, CalmEntries
<1>7. \A q \in Procs, i \in Slots(tb) :
        Writes(q, tb, i)' <=> q = p /\ i = k
  <2>1. ASSUME NEW q \in Procs, NEW i \in Slots(tb), q # p PROVE ~Writes(q, tb, i)'
    BY <1>1, <1>6, <2>1 DEF OthersStay, Writes, Storing
  <2>2. \A i \in Slots(tb) : Writes(p, tb, i)' <=> i = k
    BY <1>2 DEF Writes, Storing
  <2>3. QED  BY <2>1, <2>2
<1>8. ASSUME NEW i \in Slots(tb), i # k PROVE Effective(tb, i)' = table[tb][i]
  <2>1. Writers(tb, i) = {} /\ Writers(tb, i)' = {}
    BY <1>6, <1>7, <1>8 DEF Writers
  <2>2. QED  BY <1>2, <1>6, <2>1, SameEffective
<1>9. Effective(tb, k)' = Target(p)
  <2>1. Writers(tb, k)' = {p}
    BY <1>3, <1>7 DEF Writers
  <2>2. (CHOOSE q \in {p} : TRUE) = p
    OBVIOUS
  <2>3. PICK W : W = Writers(tb, k)' /\ W = {p}
    BY <2>1
  <2>4. Effective(tb, k)' = Target(CHOOSE q \in W : TRUE)'
    BY <2>3 DEF Effective
  <2>5. QED  BY <1>2, <2>2, <2>3, <2>4
<1>10. ASSUME NEW t \in Tables \ {tb}, NEW i \in Slots(t)
       PROVE  Effective(t, i)' = Effective(t, i)
  <2>1. Writers(t, i)' = Writers(t, i)
    BY <1>1, <1>2 DEF OthersStay, Writers, Writes, Storing
  <2>2. QED  BY <1>2, <2>1, SameEffective
<1>11. QED  BY <1>3, <1>6, <1>8, <1>9, <1>10

LEMMA FindBinds ==
  ASSUME MapInv, NEW p \in Procs, Find(p), NEW r, r = req[p]
  PROVE  Bindings' = [Bindings EXCEPT ![r.table][r.name] =
                        IF r.op = "put" THEN r.object ELSE NoObject]
<1>1. pc[p] = "find"
  BY DEF Find, At
<1>2. PICK tb \in Tables, n \in Names : tb = r.table /\ n = r.name
  BY <1>1, FindAsked
<1>3. r.op \in {"put", "remove"}
  BY <1>1, FindAsked
<1>4. PICK k : k = slot'[p] /\ k \in Slots(tb) /\ k \in Candidates(r)
  BY <1>2, FindEntries
<1>5. PICK E : E = EffectiveTable(tb)
  OBVIOUS
<1>6. PICK F : F = EffectiveTable(tb)'
  OBVIOUS
<1>7. /\ \A i \in Slots(tb) : E[i] = table[tb][i]
      /\ \A i \in Slots(tb) : i # k => F[i] = table[tb][i]
      /\ F[k] = Target(p)
  BY <1>2, <1>4, <1>5, <1>6, FindEntries, SMTT(30) DEF EffectiveTable
<1>8. Slots(tb) \subseteq Nat
  BY DEF Slots
<1>9. \/ E[k].in_use = 1 /\ E[k].name = n
      \/ /\ r.op = "put" /\ E[k].in_use = 0 /\ Named(tb, n) = {}
  BY <1>2, <1>3, <1>4, <1>7 DEF Candidates, Named, FreeSlots
<1>10. \A j \in Slots(tb) : E[j].in_use = 1 /\ E[j].name = n => j = k
  BY <1>4, <1>7, <1>9 DEF MapInv, NamesInv, NamesUnique, Named
<1>11. /\ r.op = "put" => F[k] = Entry(1, n, r.object)
       /\ r.op = "remove" => F[k].in_use = 0
  BY <1>2, <1>7 DEF Target, Unused, Entry
<1>12. Lookup(tb, n)' = IF r.op = "put" THEN r.object ELSE NoObject
  <2>1. Lookup(tb, n)' = Seen(F, Slots(tb), n)
    BY <1>6, LookupSeen
  <2>2. CASE r.op = "put"
    <3>1. F[k].in_use = 1 /\ F[k].name = n /\ F[k].object = r.object
      BY <1>11, <2>2 DEF Entry
    <3>2. \A j \in Slots(tb) : F[j].in_use = 1 /\ F[j].name = n <=> j = k
      BY <1>7, <1>10, <3>1
    <3>3. QED  BY <1>4, <1>8, <2>1, <2>2, <3>1, <3>2, SeenOne
  <2>3. CASE r.op = "remove"
    <3>1. Hits(F, Slots(tb), n) = {}
      BY <1>7, <1>10, <1>11, <2>3 DEF Hits
    <3>2. QED  BY <2>1, <2>3, <3>1 DEF Seen
  <2>4. QED  BY <1>3, <2>2, <2>3
<1>13. ASSUME NEW m \in Names, m # n PROVE Lookup(tb, m)' = Lookup(tb, m)
  <2>1. ~(F[k].in_use = 1 /\ F[k].name = m)
    BY <1>3, <1>11, <1>13 DEF Entry
  <2>2. ~(E[k].in_use = 1 /\ E[k].name = m)
    BY <1>9, <1>13
  <2>3. Seen(E, Slots(tb), m) = Seen(F, Slots(tb), m)
    BY <1>7, <1>8, <2>1, <2>2, SeenSame
  <2>4. QED  BY <1>5, <1>6, <2>3, LookupSeen
<1>14. ASSUME NEW t \in Tables \ {tb}, NEW m \in Names
       PROVE  Lookup(t, m)' = Lookup(t, m)
  <2>1. EffectiveTable(t)' = EffectiveTable(t)
    BY <1>2, FindEntries DEF EffectiveTable
  <2>2. QED  BY <2>1, LookupSeen
<1>15. PICK o : o = IF r.op = "put" THEN r.object ELSE NoObject
  OBVIOUS
<1>16. Bindings' = [Bindings EXCEPT ![tb] = [Bindings[tb] EXCEPT ![n] = o]]
  <2>1. Bindings'[tb] = [Bindings[tb] EXCEPT ![n] = o]
    BY <1>12, <1>13, <1>15 DEF Bindings
  <2>2. \A t \in Tables \ {tb} : Bindings'[t] = Bindings[t]
    BY <1>14 DEF Bindings
  <2>3. /\ Bindings = [t \in Tables |-> Bindings[t]]
        /\ Bindings' = [t \in Tables |-> Bindings'[t]]
    BY DEF Bindings
  <2>4. QED  BY <2>1, <2>2, <2>3
<1>17. QED  BY <1>2, <1>15, <1>16

LEMMA FindView ==
  ASSUME MapInv, NEW p \in Procs, Find(p)
  PROVE  Abstract!Next
<1> USE DEF MapInv
<1>1. OthersStay(p) /\ OthersWait(p)
  BY MoveStays, MoveWaits DEF NamesInv, AnswerSound, Move, Step, Update
<1>2. pc[p] = "find" /\ pc'[p] = "in_use" /\ req' = req
  BY DEF Find, At, Goto, NamesInv, TypeOK
<1>3. PICK r : r = req[p]
  OBVIOUS
<1>4. /\ r.table \in Tables /\ r.name \in Names /\ Calm(r.table)
      /\ r.op \in {"put", "remove"} /\ r # Abstract!NoRequest
  BY <1>2, <1>3, FindAsked
<1>5. Bindings' = [Bindings EXCEPT ![r.table][r.name] =
                     IF r.op = "put" THEN r.object ELSE NoObject]
  BY <1>3, FindBinds
<1>6. PICK a : Give(p, a) /\ a = <<"OK">>
  BY DEF Find
<1>7. Abstract!Answer(p, a) /\ Asked[p] = r /\ Told[p] = NoAnswer
  BY <1>1, <1>2, <1>3, <1>6, TakeView
     DEF Abstract!Answer, AnswerSound, Waiting, Answered, Updating, Storing
<1>8. \/ Named(r.table, r.name) # {}
      \/ r.op = "put" /\ FreeSlots(r.table) # {}
  BY <1>3, <1>4 DEF Find, Candidates
<1>9. \/ Abstract!Bound(r.table, r.name)
      \/ r.op = "put" /\ Abstract!Room(r.table)
  BY <1>4, <1>8, CalmBound, CalmRoom
<1>10. Abstract!Put(p, r) \/ Abstract!Remove(p, r)
  BY <1>4, <1>5, <1>6, <1>7, <1>9
     DEF Abstract!Put, Abstract!Remove, Abstract!Bind
<1>11. QED
  BY <1>4, <1>7, <1>10
     DEF Abstract!Next, Abstract!TakeEffect, Abstract!NoAnswer, NoAnswer

(* The stores of an update change nothing that clients see: until the last *)
(* one the entry reads as the update will leave it, and then it is so.     *)
LEMMA StoreView ==
  ASSUME MapInv, NEW p \in Procs, Store(p)
  PROVE  UNCHANGED <<Bindings, Asked, Told>>
<1> USE DEF MapInv
<1>1. OthersStay(p) /\ OthersWait(p)
  BY MoveStays, MoveWaits DEF NamesInv, AnswerSound, Move, Step, Update
<1>2. PICK tb \in Tables : tb = req[p].table
  BY DEF NamesInv, TypeOK, AnyRequest
<1>3. PICK f \in {"in_use", "name", "object"} :
        \E next \in {"name", "object", "sum_roots"} : StoreField(p, f, next)
  BY DEF Store
<1>4. /\ Storing(p) /\ pc[p] = f /\ slot[p] \in Slots(tb)
      /\ req' = req /\ slot' = slot /\ answer' = answer
      /\ \A q : Target(q)' = Target(q)
  BY <1>2, <1>3 DEF NamesInv, TypeOK, StoreField, At, Storing, locals, Target
<1>5. PICK k \in Slots(tb) : k = slot[p]
  BY <1>4
<1>6. /\ pc'[p] \in {"name", "object", "sum_roots"}
      /\ f = "object" <=> pc'[p] = "sum_roots"
  BY <1>4 DEF NamesInv, TypeOK, Store, StoreField, Goto, At
<1>7. PICK T \in [Tables -> UNION {[Slots(t) -> Entries] : t \in Tables}] :
        T = table /\ T[tb] \in [Slots(tb) -> Entries]
  BY ContentsFacts DEF NamesInv, TypeOK, Contents
<1>8. PICK v \in Entries : v = [T[tb][k] EXCEPT ![f] = Target(p)[f]]
  BY <1>7, TargetType DEF NamesInv, Entries
<1>9. table' = [T EXCEPT ![tb] = [T[tb] EXCEPT ![k] = v]]
  BY <1>2, <1>3, <1>5, <1>7, <1>8 DEF StoreField
<1>10. /\ table'[tb][k] = v
       /\ \A t \in Tables : \A i \in Slots(t) : ~(t = tb /\ i = k) =>
            table'[t][i] = table[t][i]
  BY <1>7, <1>9
<1>11. ASSUME NEW t \in Tables, NEW i \in Slots(t), ~(t = tb /\ i = k)
       PROVE  Effective(t, i)' = Effective(t, i)
  <2>1. Writers(t, i)' = Writers(t, i)
    BY <1>1, <1>2, <1>4, <1>5, <1>11 DEF OthersStay, Writers, Writes, Storing
  <2>2. QED  BY <1>4, <1>10, <1>11, <2>1, SameEffective
<1>12. Writers(tb, k) = {p}
  <2>1. Locked(p)
    BY <1>4 DEF Locked, Updating
  <2>2. QED  BY <1>2, <1>4, <1>5, <2>1, SoleWriter DEF Writers, Writes
<1>13. Effective(tb, k)' = Effective(tb, k)
  <2>1. CASE f # "object"
    <3>1. Writers(tb, k)' = Writers(tb, k)
      BY <1>1, <1>2, <1>4, <1>5, <1>6, <2>1
         DEF OthersStay, Writers, Writes, Storing
    <3>2. QED  BY <1>4, <1>12, <3>1, SameEffective
  <2>2. CASE f = "object"
    <3>1. Writers(tb, k)' = {}
      <4>1. ~Storing(p)'
        BY <1>6, <2>2 DEF Storing
      <4>2. QED
        BY <1>1, <1>4, <1>12, <4>1 DEF OthersStay, Writers, Writes, Storing
    <3>2. Effective(tb, k)' = v
      BY <1>10, <3>1 DEF Effective
    <3>3. Effective(tb, k) = Target(p)
      <4>1. (CHOOSE q \in {p} : TRUE) = p
        OBVIOUS
      <4>2. QED  BY <1>12, <4>1 DEF Effective
    <3>4. T[tb][k] \in Entries /\ Target(p) \in Entries
      BY <1>7, TargetType DEF NamesInv
    <3>5. /\ T[tb][k].in_use = Target(p).in_use
          /\ T[tb][k].name = Target(p).name
      BY <1>2, <1>4, <1>5, <1>7, <2>2 DEF NamesInv, SlotSound
    <3>6. v = Target(p)
      BY <1>8, <2>2, <3>4, <3>5 DEF Entries
    <3>7. QED  BY <3>2, <3>3, <3>6
  <2>3. QED  BY <2>1, <2>2
<1>14. Bindings' = Bindings
  BY <1>11, <1>13, SameBindings
<1>15. Asked'[p] = Asked[p] /\ Told'[p] = Told[p]
  BY <1>4, <1>6 DEF Asked, Told, Waiting, Answered, Updating, Storing
<1>16. Asked' = Asked /\ Told' = Told
  <2>1. Asked = [q \in Procs |-> Asked[q]] /\ Told = [q \in Procs |-> Told[q]]
    BY DEF Asked, Told
  <2>2. QED  BY <1>1, <1>15, <2>1, OthersView
<1>17. QED  BY <1>14, <1>16

LEMMA InitView == Init => Abstract!Init
<1> SUFFICES ASSUME Init PROVE Abstract!Init
  OBVIOUS
<1>1. \A p \in Procs : ~Waiting(p) /\ ~Answered(p) /\ ~Storing(p)
  BY DEF Init, Waiting, Answered, Updating, Storing
<1>2. \A tb \in Tables : Calm(tb)
  BY <1>1 DEF Calm, Writers, Writes
<1>3. \A tb \in Tables, n \in Names : Named(tb, n) = {}
  BY DEF Init, Named, Empty, Unused, Entry
<1>4. \A tb \in Tables, n \in Names : Lookup(tb, n) = NoObject
  BY <1>2, <1>3, MapInit, CalmLookup
<1>5. QED
  BY <1>1, <1>4
     DEF Abstract!Init, Abstract!Tables, Abstract!NoRequest, Abstract!NoAnswer,
         Bindings, Asked, Told, Tables, NoAnswer

(* Every call of set, get, remove and contains, by any number of processes *)
(* on tables of any size, takes effect at one instant between call and     *)
(* return, also while others update store by store and some of them die:   *)
(* src/core/shm_region.c implements two bounded maps.                      *)
THEOREM DirectoryLinearizable == Spec => Linearizable
<1>1. ASSUME MapInv, [Next]_vars PROVE MapInv' /\ [Abstract!Next]_(Abstract!vars)
  <2>1. CASE UNCHANGED vars
    <3>1. UNCHANGED <<table, pc, req, slot, answer, writer, readers>>
      BY <2>1 DEF vars, locks, locals
    <3>2. \A tb \in Tables : \A i \in Slots(tb) : Effective(tb, i)' = Effective(tb, i)
      BY <3>1, SameEffective DEF Writers, Writes, Storing, Target
    <3>3. Asked' = Asked /\ Told' = Told
      BY <3>1 DEF Asked, Told, Waiting, Answered, Updating, Storing
    <3>4. NamesInv'
      BY <2>1, <1>1, NamesStep DEF MapInv
    <3>5. MapInv'
      BY <1>1, <3>1, <3>4
         DEF MapInv, RwSound, QuerySound, AnswerSound, ObjectSound, Valid,
             Answered, Updating, Storing, Writes
    <3>6. QED  BY <3>2, <3>3, <3>5, SameBindings DEF Abstract!vars
  <2>2. CASE Next
    <3>1. PICK p \in Procs : Move(p)
      BY <2>2 DEF Next, Move
    <3>2. MapInv'
      BY <1>1, <3>1, MapStep
    <3>3. CASE \E r \in Requests : Reject(p, r) \/ Start(p, r)
      BY <1>1, <3>2, <3>3, QuietSteps, StartView DEF Abstract!vars
    <3>4. CASE WriteLock(p) \/ ReadLock(p) \/ SumTables(p) \/ SumStore(p) \/ Check(p)
      BY <1>1, <3>2, <3>4, QuietSteps DEF Abstract!vars
    <3>5. CASE Unlock(p) \/ Read(p) \/ Find(p) \/ FindFails(p)
      BY <1>1, <3>2, <3>5, UnlockView, ReadView, FindView, FindFailsView
    <3>6. CASE Store(p) \/ Crash(p)
      BY <1>1, <3>2, <3>6, StoreView, CrashView DEF Abstract!vars
    <3>7. QED
      BY <3>1, <3>2, <3>3, <3>4, <3>5, <3>6 DEF Move, Step, Update
  <2>3. QED  BY <1>1, <2>1, <2>2
<1>2. QED
  BY <1>1, MapInit, InitView, PTL DEF Spec, Linearizable, Abstract!Spec
============================================================================
