------------------------------ MODULE RingBuf ------------------------------
(***************************************************************************)
(* The ring buffer of src/containers/ringbuf.c after ringbuf_create: push, *)
(* pop, length, is_empty and is_full, run by processes that share it.      *)
(*                                                                         *)
(* A critical section is modelled store by store, since a process may die  *)
(* between two stores.  With a robust mutex the next process goes on with  *)
(* whatever the dead one left: nothing repairs the buffer.                 *)
(***************************************************************************)
EXTENDS Integers, Sequences, FiniteSets

CONSTANTS
  Procs, NoProc,
  Values,
  Zero,         \* what memset leaves in a slot
  Torn,         \* an element copied in part
  Capacity,     \* hdr->capacity
  Word,         \* UINT64_MAX + 1: the length is computed modulo Word
  Robust,       \* the build sets PTHREAD_MUTEX_ROBUST on the mutex
  Ops,          \* operations the processes call
  MaxCalls,     \* bound: calls per process
  MaxCrashes    \* bound: processes that die

Slots == 0 .. Capacity - 1

ASSUME ProcsAssumption == NoProc \notin Procs
ASSUME ValuesAssumption == Zero \notin Values /\ Torn \notin Values
ASSUME CapacityAssumption == Capacity \in Nat /\ Capacity >= 2
ASSUME WordAssumption == Word \in Nat /\ Word > Capacity
ASSUME OpsAssumption ==
  Ops \subseteq {"push", "pop", "length", "is_empty", "is_full"}
ASSUME BoundsAssumption ==
  Robust \in BOOLEAN /\ MaxCalls \in Nat /\ MaxCrashes \in Nat

VARIABLES
  data,         \* the element buffer
  head, tail,   \* hdr->head, hdr->tail
  lock,         \* owner of hdr->lock
  pc, req,      \* where each call is, and what it was asked for
  out,          \* the element a pop has copied
  got,          \* fields ringbuf_length has read after the unlock
  answer,       \* what the call is going to return
  calls, crashed

buffer == <<data, head, tail>>
locals == <<req, out, got>>
vars == <<buffer, lock, pc, locals, answer, calls, crashed>>

Requests == {r \in [op : Ops, value : Values \cup {Zero}] :
               r.op = "push" <=> r.value # Zero}
NoRequest == [op |-> "none", value |-> Zero]
NoAnswer == <<"none">>
NotRead == [head |-> -1, tail |-> -1]

\* ringbuf_create: an empty buffer of zeroed slots.
Init ==
  /\ data = [i \in Slots |-> Zero]
  /\ head = 0 /\ tail = 0
  /\ lock = NoProc
  /\ pc = [p \in Procs |-> "idle"]
  /\ req = [p \in Procs |-> NoRequest]
  /\ out = [p \in Procs |-> Zero]
  /\ got = [p \in Procs |-> NotRead]
  /\ answer = [p \in Procs |-> NoAnswer]
  /\ calls = [p \in Procs |-> 0]
  /\ crashed = {}

-----------------------------------------------------------------------------
At(p, label) == p \notin crashed /\ pc[p] = label
Goto(p, label) == pc' = [pc EXCEPT ![p] = label]
Give(p, a) == answer' = [answer EXCEPT ![p] = a]

\* Mutant: the index is not wrapped at the last slot.
NoWrapIdx(i) == IF i > Capacity THEN 0 ELSE i
ringbuf_idx(i) == i % Capacity
\* Mutant: the last free slot is filled too.
NeverFull == FALSE
Full == ringbuf_idx(tail + 1) = head
Empty == head = tail

Call(p, r) ==
  /\ At(p, "idle") /\ calls[p] < MaxCalls
  /\ calls' = [calls EXCEPT ![p] = @ + 1]
  /\ req' = [req EXCEPT ![p] = r]
  /\ Goto(p, "lock")
  /\ UNCHANGED <<buffer, lock, out, got, answer, crashed>>

\* Mutant: the mutex of a dead owner is waited for.
LockNoRecovery(p) ==
  /\ At(p, "lock")
  /\ lock = NoProc
  /\ lock' = p
  /\ Goto(p, "locked")
  /\ UNCHANGED <<buffer, locals, answer, calls, crashed>>

\* pthread_mutex_lock.  EOWNERDEAD: the mutex is marked consistent and the
\* call goes on as if nothing had happened.
Lock(p) ==
  /\ At(p, "lock")
  /\ lock = NoProc \/ (Robust /\ lock \in crashed)
  /\ lock' = p
  /\ Goto(p, "locked")
  /\ UNCHANGED <<buffer, locals, answer, calls, crashed>>

\* The call returns and its locals are gone.
Return(p) ==
  /\ Goto(p, "idle")
  /\ req' = [req EXCEPT ![p] = NoRequest]
  /\ out' = [out EXCEPT ![p] = Zero]
  /\ got' = [got EXCEPT ![p] = NotRead]
  /\ Give(p, NoAnswer)

Unlock(p) ==
  /\ At(p, "unlock")
  /\ lock' = NoProc
  /\ Return(p)
  /\ UNCHANGED <<buffer, calls, crashed>>

Locked(p, op) == At(p, "locked") /\ req[p].op = op
\* The call has its answer and is about to unlock.
Finish(p, a) ==
  /\ Give(p, a)
  /\ Goto(p, "unlock")
  /\ UNCHANGED <<buffer, lock, locals, calls, crashed>>

-----------------------------------------------------------------------------
(* ringbuf_push                                                            *)

PushFull(p) == Locked(p, "push") /\ Full /\ Finish(p, <<"failed">>)

CopyIn(p, from, value, next) ==
  /\ pc[p] = from /\ p \notin crashed
  /\ data' = [data EXCEPT ![tail] = value]
  /\ Goto(p, next)
  /\ UNCHANGED <<head, tail, lock, locals, answer, calls, crashed>>

\* memcpy into the slot at the tail.
PushCopy(p) ==
  \/ Locked(p, "push") /\ ~Full /\ CopyIn(p, "locked", Torn, "copying")
  \/ CopyIn(p, "copying", req[p].value, "publish")

\* hdr->tail = next_tail
PushPublish(p) ==
  /\ At(p, "publish")
  /\ tail' = ringbuf_idx(tail + 1)
  /\ Give(p, <<"done">>)
  /\ Goto(p, "unlock")
  /\ UNCHANGED <<data, head, lock, locals, calls, crashed>>

-----------------------------------------------------------------------------
(* ringbuf_pop                                                             *)

PopEmpty(p) == Locked(p, "pop") /\ Empty /\ Finish(p, <<"failed">>)

PopCopy(p) ==
  /\ Locked(p, "pop") /\ ~Empty
  /\ out' = [out EXCEPT ![p] = data[head]]
  /\ Goto(p, "advance")
  /\ UNCHANGED <<buffer, lock, req, got, answer, calls, crashed>>

\* hdr->head = ringbuf_idx(hdr, hdr->head + 1)
PopAdvance(p) ==
  /\ At(p, "advance")
  /\ head' = ringbuf_idx(head + 1)
  /\ Give(p, <<"done", out[p]>>)
  /\ Goto(p, "unlock")
  /\ UNCHANGED <<data, tail, lock, locals, calls, crashed>>

-----------------------------------------------------------------------------
IsEmpty(p) == Locked(p, "is_empty") /\ Finish(p, <<"done", Empty>>)
IsFull(p) == Locked(p, "is_full") /\ Finish(p, <<"done", Full>>)

(* ringbuf_length.  The wrapped case is computed under the lock ...        *)
LengthWrapped(p) ==
  /\ Locked(p, "length") /\ tail < head
  /\ Finish(p, <<"done", (Capacity - head + tail) % Word>>)

\* ... in the other case the lock is given back first, and head and tail are
\* read again, in an order the compiler chooses.
LengthUnlock(p) ==
  /\ Locked(p, "length") /\ tail >= head
  /\ lock' = NoProc
  /\ Goto(p, "reread")
  /\ UNCHANGED <<buffer, locals, answer, calls, crashed>>

LengthReread(p) ==
  /\ At(p, "reread")
  /\ \/ got[p].tail = -1 /\ got' = [got EXCEPT ![p].tail = tail]
     \/ got[p].head = -1 /\ got' = [got EXCEPT ![p].head = head]
  /\ UNCHANGED <<buffer, lock, pc, req, out, answer, calls, crashed>>

\* The length that p is about to return.
Difference(p) == (got[p].tail - got[p].head) % Word

BothRead(p) == pc[p] = "reread" /\ got[p].tail # -1 /\ got[p].head # -1

LengthReturn(p) ==
  /\ p \notin crashed /\ BothRead(p)
  /\ Return(p)
  /\ UNCHANGED <<buffer, lock, calls, crashed>>

-----------------------------------------------------------------------------
\* A process dies inside a call; the mutex keeps its owner.
Crash(p) ==
  /\ p \notin crashed /\ pc[p] # "idle"
  /\ Cardinality(crashed) < MaxCrashes
  /\ crashed' = crashed \cup {p}
  /\ UNCHANGED <<buffer, lock, pc, locals, answer, calls>>

Push(p) == PushFull(p) \/ PushCopy(p) \/ PushPublish(p)
Pop(p) == PopEmpty(p) \/ PopCopy(p) \/ PopAdvance(p)
Length(p) == \/ LengthWrapped(p) \/ LengthUnlock(p)
             \/ LengthReread(p) \/ LengthReturn(p)
Step(p) == \/ Lock(p) \/ Unlock(p) \/ Push(p) \/ Pop(p)
           \/ IsEmpty(p) \/ IsFull(p) \/ Length(p)

Next == \E p \in Procs :
  \/ \E r \in Requests : Call(p, r)
  \/ Step(p)
  \/ Crash(p)

Spec == Init /\ [][Next]_vars

\* A process that is not blocked goes on; a waiter gets the lock because the
\* others make finitely many calls.
FairSpec == Spec /\ \A p \in Procs : WF_vars(Step(p))

-----------------------------------------------------------------------------
Labels == {"idle", "lock", "locked", "copying", "publish", "advance",
           "reread", "unlock"}

(* Head and tail index the buffer, and locals have their types.            *)
TypeOK ==
  /\ data \in [Slots -> Values \cup {Zero, Torn}]
  /\ head \in Slots /\ tail \in Slots
  /\ lock \in Procs \cup {NoProc}
  /\ pc \in [Procs -> Labels]
  /\ req \in [Procs -> Requests \cup {NoRequest}]
  /\ out \in [Procs -> Values \cup {Zero, Torn}]
  /\ got \in [Procs -> [head : Slots \cup {-1}, tail : Slots \cup {-1}]]
  /\ calls \in [Procs -> Nat]
  /\ crashed \subseteq Procs

(* ringbuf_length returns a number of elements the buffer can hold.        *)
LengthInRange == \A p \in Procs : BothRead(p) => Difference(p) < Capacity

(* Every call returns, unless its own process dies: a death inside a push  *)
(* or a pop does not stop the other processes of a robust build.           *)
EveryCallReturns ==
  \A p \in Procs : pc[p] # "idle" ~> (pc[p] = "idle" \/ p \in crashed)

-----------------------------------------------------------------------------
(* The queue the clients see.  A push takes effect when it stores the      *)
(* tail, a pop when it stores the head.                                    *)

Count == (tail - head) % Capacity
Element(i) == data[(head + i - 1) % Capacity]
Visible(p) == pc[p] # "idle" /\ req[p].op # "length"

Queue == [i \in 1 .. Count |-> Element(i)]
Asked == [p \in Procs |->
            IF ~Visible(p) THEN [op |-> "none"]
            ELSE IF req[p].op = "push" THEN req[p] ELSE [op |-> req[p].op]]
Told == [p \in Procs |->
           IF Visible(p) /\ pc[p] = "unlock" THEN answer[p] ELSE NoAnswer]

Abstract == INSTANCE BoundedFifo WITH
  MaxLength <- Capacity - 1,
  queue <- Queue, request <- Asked, answer <- Told

(* The ring buffer implements a bounded FIFO queue of Capacity - 1 values, *)
(* at every interleaving of pushes, pops and queries and with processes    *)
(* that die between any two stores: no element is lost, duplicated, torn   *)
(* or delivered out of order.                                              *)
Fifo == Abstract!Spec
============================================================================
