--------------------------- MODULE RingBufProofs ---------------------------
(***************************************************************************)
(* Proofs about the ring buffer, for any number of processes, values,      *)
(* slots, calls and deaths.                                                *)
(***************************************************************************)
EXTENDS RingBuf, SequenceTheorems, TLAPS

-----------------------------------------------------------------------------
(* Indices modulo the capacity.                                            *)

LEMMA ModFacts ==
  /\ \A n \in 0 .. Capacity - 1 : n % Capacity = n
  /\ \A n \in Capacity .. 2 * Capacity - 1 : n % Capacity = n - Capacity
  /\ \A n \in 1 - Capacity .. -1 : n % Capacity = n + Capacity
<1> USE CapacityAssumption
<1>1. ASSUME NEW n \in Int, NEW q \in Int, NEW r \in 0 .. Capacity - 1,
             n = Capacity * q + r
      PROVE  n % Capacity = r
  BY <1>1
<1>2. ASSUME NEW n \in 0 .. Capacity - 1 PROVE n % Capacity = n
  BY <1>1, n = Capacity * 0 + n
<1>3. ASSUME NEW n \in Capacity .. 2 * Capacity - 1
      PROVE  n % Capacity = n - Capacity
  BY <1>1, n = Capacity * 1 + (n - Capacity)
<1>4. ASSUME NEW n \in 1 - Capacity .. -1
      PROVE  n % Capacity = n + Capacity
  BY <1>1, n = Capacity * (-1) + (n + Capacity)
<1>5. QED  BY <1>2, <1>3, <1>4

(* What ringbuf_idx computes for the slot after i.                         *)
LEMMA NextSlot ==
  ASSUME NEW i \in Slots
  PROVE  /\ ringbuf_idx(i + 1) \in Slots
         /\ ringbuf_idx(i + 1) = IF i = Capacity - 1 THEN 0 ELSE i + 1
BY ModFacts, CapacityAssumption DEF ringbuf_idx, Slots

(* The number of elements, by the order of head and tail.                  *)
LEMMA CountFacts ==
  ASSUME NEW h \in Slots, NEW t \in Slots
  PROVE  (t - h) % Capacity = IF h <= t THEN t - h ELSE t - h + Capacity
BY ModFacts, CapacityAssumption DEF Slots

(* The slot of the element i places behind the head.                       *)
LEMMA SlotFacts ==
  ASSUME NEW h \in Slots, NEW i \in 1 .. Capacity
  PROVE  (h + i - 1) % Capacity =
           IF h + i - 1 < Capacity THEN h + i - 1 ELSE h + i - 1 - Capacity
BY ModFacts, CapacityAssumption DEF Slots

-----------------------------------------------------------------------------
(* The inductive invariant.  A live process past the lock owns it, even if *)
(* it took it over from a dead one; the slot at the tail belongs to the    *)
(* push under way until the tail is stored, and the element at the head to *)
(* the pop under way until the head is.                                    *)

InSection(p) ==
  /\ p \notin crashed
  /\ pc[p] \in {"locked", "copying", "publish", "advance", "unlock"}
OwnerSound == \A p \in Procs : InSection(p) => lock = p

RequestSound(p) ==
  /\ pc[p] = "idle" <=> req[p] = NoRequest
  /\ pc[p] \in {"copying", "publish"} => req[p].op = "push"
  /\ pc[p] = "advance" => req[p].op = "pop"
  /\ pc[p] = "reread" => req[p].op = "length"
  /\ pc[p] = "unlock" => answer[p] # NoAnswer
SlotSound(p) ==
  /\ pc[p] \in {"copying", "publish"} => ~Full
  /\ pc[p] = "publish" => data[tail] = req[p].value
  /\ pc[p] = "advance" => ~Empty /\ out[p] = data[head]
CallsSound == \A p \in Procs : /\ RequestSound(p)
                               /\ p \notin crashed => SlotSound(p)
AnswerType == answer = [p \in Procs |-> answer[p]]

IInv == TypeOK /\ AnswerType /\ OwnerSound /\ CallsSound

-----------------------------------------------------------------------------
LEMMA RequestTypes ==
  /\ NoRequest \notin Requests
  /\ \A r \in Requests : /\ r.op \in Ops /\ r.value \in Values \cup {Zero}
                         /\ r.op = "push" => r.value \in Values
BY OpsAssumption, ValuesAssumption DEF Requests, NoRequest

LEMMA InitInv == Init => IInv
<1> SUFFICES ASSUME Init PROVE IInv
  OBVIOUS
<1>1. TypeOK
  BY CapacityAssumption DEF Init, TypeOK, Labels, NotRead, Slots
<1>2. AnswerType /\ OwnerSound
  BY DEF Init, AnswerType, OwnerSound, InSection
<1>3. CallsSound
  BY DEF Init, CallsSound, RequestSound, SlotSound
<1>4. QED  BY <1>1, <1>2, <1>3 DEF IInv

LEMMA TypeStep ==
  ASSUME TypeOK, Next
  PROVE  TypeOK'
<1> USE DEF TypeOK, Labels, At, Goto, Give, buffer, locals
<1>1. PICK p \in Procs : \/ \E r \in Requests : Call(p, r)
                         \/ Step(p) \/ Crash(p)
  BY DEF Next
<1>2. CASE \E r \in Requests : Call(p, r)
  BY <1>2 DEF Call
<1>3. CASE Crash(p)
  BY <1>3 DEF Crash
<1>4. CASE Lock(p)
  BY <1>4 DEF Lock
<1>5. CASE Unlock(p) \/ LengthReturn(p)
  <2>1. NotRead \in [head : Slots \cup {-1}, tail : Slots \cup {-1}]
    BY DEF NotRead
  <2>2. got' \in [Procs -> [head : Slots \cup {-1}, tail : Slots \cup {-1}]]
    BY <1>5, <2>1 DEF Unlock, LengthReturn, Return
  <2>3. req' \in [Procs -> Requests \cup {NoRequest}]
    BY <1>5 DEF Unlock, LengthReturn, Return
  <2>4. pc' \in [Procs -> Labels] /\ out' \in [Procs -> Values \cup {Zero, Torn}]
    BY <1>5 DEF Unlock, LengthReturn, Return
  <2>5. lock' \in Procs \cup {NoProc}
        /\ UNCHANGED <<data, head, tail, calls, crashed>>
    BY <1>5 DEF Unlock, LengthReturn
  <2>6. QED  BY <2>2, <2>3, <2>4, <2>5
<1>6. CASE PushFull(p) \/ PopEmpty(p) \/ IsEmpty(p) \/ IsFull(p)
           \/ LengthWrapped(p)
  BY <1>6 DEF PushFull, PopEmpty, IsEmpty, IsFull, LengthWrapped, Finish
<1>7. CASE PushCopy(p)
  <2>1. req[p].value \in Values \cup {Zero}
    BY RequestTypes DEF NoRequest
  <2>2. QED  BY <1>7, <2>1, SMTT(30) DEF PushCopy, CopyIn
<1>8. CASE PushPublish(p) \/ PopAdvance(p)
  BY <1>8, NextSlot DEF PushPublish, PopAdvance
<1>9. CASE PopCopy(p)
  BY <1>9 DEF PopCopy
<1>10. CASE LengthUnlock(p)
  BY <1>10 DEF LengthUnlock
<1>11. CASE LengthReread(p)
  BY <1>11 DEF LengthReread
<1>12. QED
  BY <1>1, <1>2, <1>3, <1>4, <1>5, <1>6, <1>7, <1>8, <1>9, <1>10, <1>11
     DEF Step, Push, Pop, Length

(* A step of p leaves the other calls as they are.                         *)
Alone(p) ==
  \A u \in Procs : u # p => /\ pc'[u] = pc[u] /\ req'[u] = req[u]
                            /\ out'[u] = out[u] /\ answer'[u] = answer[u]

(* A step that stores nothing to the buffer keeps what the other calls     *)
(* rely on, and one under the lock has no other call to disturb.           *)
LEMMA OthersSound ==
  ASSUME IInv, NEW p \in Procs, Alone(p), crashed' = crashed,
         lock' = lock \/ lock' = p \/ lock = p,
         lock' # lock => lock = p \/ lock \notin Procs \ crashed,
         buffer' = buffer \/ InSection(p),
         NEW u \in Procs, u # p
  PROVE  /\ InSection(u)' => lock' = u
         /\ RequestSound(u)' /\ (u \notin crashed' => SlotSound(u)')
<1>1. RequestSound(u)'
  BY DEF IInv, CallsSound, RequestSound, Alone
<1>2. InSection(u) => lock = u /\ u \in Procs \ crashed
  BY DEF IInv, OwnerSound, InSection
<1>3. InSection(u)' => InSection(u)
  BY DEF InSection, Alone
<1>4. InSection(u)' => lock' = u
  BY <1>2, <1>3
<1>5. ASSUME u \notin crashed' PROVE SlotSound(u)'
  <2>1. CASE InSection(u)
    <3>1. lock = u /\ ~InSection(p)
      BY <2>1 DEF IInv, OwnerSound
    <3>2. buffer' = buffer
      BY <3>1
    <3>3. SlotSound(u)
      BY <1>5 DEF IInv, CallsSound
    <3>4. QED  BY <3>2, <3>3 DEF SlotSound, Alone, buffer, Full, Empty
  <2>2. CASE ~InSection(u)
    BY <2>2, <1>5 DEF InSection, SlotSound, Alone
  <2>3. QED  BY <2>1, <2>2
<1>6. QED  BY <1>1, <1>4, <1>5

LEMMA InvStep ==
  ASSUME IInv, Next
  PROVE  IInv'
<1>1. TypeOK'
  BY TypeStep DEF IInv
<1>2. PICK p \in Procs : \/ \E r \in Requests : Call(p, r)
                         \/ Step(p) \/ Crash(p)
  BY DEF Next
<1>3. CASE Crash(p)
  <2>1. \A u \in Procs : RequestSound(u)' = RequestSound(u)
    BY <1>3 DEF Crash, buffer, locals, RequestSound
  <2>2. \A u \in Procs : SlotSound(u)' = SlotSound(u)
    BY <1>3 DEF Crash, buffer, locals, SlotSound, Full, Empty
  <2>3. \A u \in Procs : u \notin crashed' => u \notin crashed
    BY <1>3 DEF Crash
  <2>4. CallsSound'
    BY <2>1, <2>2, <2>3 DEF IInv, CallsSound
  <2>5. OwnerSound' /\ AnswerType'
    BY <1>3, <2>3 DEF IInv, OwnerSound, InSection, Crash, AnswerType
  <2>6. QED  BY <1>1, <2>4, <2>5 DEF IInv
<1>4. CASE ~Crash(p)
  <2> USE DEF At, Goto, Give, buffer, locals
  <2>1. AnswerType' /\ Alone(p) /\ crashed' = crashed /\ p \notin crashed
    <3>1. AnswerType /\ TypeOK
      BY DEF IInv
    <3>2. CASE \/ \E r \in Requests : Call(p, r)
               \/ Lock(p) \/ LengthUnlock(p) \/ LengthReread(p)
               \/ PushCopy(p) \/ PopCopy(p)
      BY <3>1, <3>2 DEF TypeOK, AnswerType, Alone, Call, Lock, LengthUnlock,
         LengthReread, PushCopy, CopyIn, PopCopy, Locked
    <3>3. CASE Unlock(p) \/ LengthReturn(p)
      BY <3>1, <3>3 DEF TypeOK, AnswerType, Alone, Unlock, LengthReturn, Return
    <3>4. CASE PushPublish(p) \/ PopAdvance(p)
      BY <3>1, <3>4 DEF TypeOK, AnswerType, Alone, PushPublish, PopAdvance
    <3>5. CASE \/ PushFull(p) \/ PopEmpty(p) \/ IsEmpty(p) \/ IsFull(p)
               \/ LengthWrapped(p)
      BY <3>1, <3>5 DEF TypeOK, AnswerType, Alone, PushFull, PopEmpty, IsEmpty,
         IsFull, LengthWrapped, Locked, Finish
    <3>6. QED  BY <1>2, <1>4, <3>2, <3>3, <3>4, <3>5 DEF Step, Push, Pop, Length
  <2>2. /\ lock' = lock \/ lock' = p \/ lock = p
        /\ lock' # lock => lock = p \/ lock \notin Procs \ crashed
        /\ buffer' = buffer \/ InSection(p)
    <3>1. InSection(p) => lock = p
      BY DEF IInv, OwnerSound
    <3>2. CASE \/ \E r \in Requests : Call(p, r)
               \/ LengthReread(p) \/ LengthReturn(p) \/ PopCopy(p)
      BY <3>2 DEF Call, LengthReread, LengthReturn, PopCopy
    <3>3. CASE Lock(p)
      BY <3>3, ProcsAssumption DEF Lock
    <3>4. CASE Unlock(p) \/ LengthUnlock(p)
      BY <3>1, <3>4 DEF Unlock, LengthUnlock, Locked, InSection
    <3>5. CASE PushCopy(p) \/ PushPublish(p) \/ PopAdvance(p)
      BY <3>5 DEF PushCopy, CopyIn, Locked, PushPublish, PopAdvance, InSection
    <3>6. CASE \/ PushFull(p) \/ PopEmpty(p) \/ IsEmpty(p) \/ IsFull(p)
               \/ LengthWrapped(p)
      BY <3>6 DEF PushFull, PopEmpty, IsEmpty, IsFull, LengthWrapped, Finish
    <3>7. QED
      BY <1>2, <1>4, <3>2, <3>3, <3>4, <3>5, <3>6 DEF Step, Push, Pop, Length
  <2>3. /\ InSection(p)' => lock' = p
        /\ RequestSound(p)' /\ SlotSound(p)'
    <3>1. /\ TypeOK /\ AnswerType /\ (InSection(p) => lock = p)
          /\ RequestSound(p) /\ SlotSound(p)
      BY <2>1 DEF IInv, OwnerSound, CallsSound
    <3> USE DEF InSection, RequestSound, SlotSound, AnswerType, NoAnswer
    <3>2. CASE \E r \in Requests : Call(p, r)
      BY <3>1, <3>2, RequestTypes DEF TypeOK, Call
    <3>3. CASE Lock(p)
      BY <3>1, <3>3 DEF TypeOK, Lock
    <3>4. CASE Unlock(p) \/ LengthReturn(p)
      BY <3>1, <3>4 DEF TypeOK, Unlock, LengthReturn, Return
    <3>5. CASE PushCopy(p)
      BY <3>1, <3>5 DEF TypeOK, PushCopy, CopyIn, Locked, Full
    <3>6. CASE PopCopy(p)
      BY <3>1, <3>6 DEF TypeOK, PopCopy, Locked, Empty
    <3>7. CASE PushPublish(p) \/ PopAdvance(p)
      BY <3>1, <3>7 DEF TypeOK, PushPublish, PopAdvance, NoRequest
    <3>8. CASE \/ PushFull(p) \/ PopEmpty(p) \/ IsEmpty(p) \/ IsFull(p)
               \/ LengthWrapped(p)
      BY <3>1, <3>8 DEF TypeOK, PushFull, PopEmpty, IsEmpty, IsFull,
         LengthWrapped, Locked, Finish
    <3>9. CASE LengthUnlock(p) \/ LengthReread(p)
      BY <3>1, <3>9 DEF TypeOK, LengthUnlock, LengthReread, Locked
    <3>10. QED
      BY <1>2, <1>4, <3>2, <3>3, <3>4, <3>5, <3>6, <3>7, <3>8, <3>9
         DEF Step, Push, Pop, Length
  <2>4. \A u \in Procs : /\ InSection(u)' => lock' = u
                         /\ RequestSound(u)' /\ (u \notin crashed' => SlotSound(u)')
    BY <2>1, <2>2, <2>3, OthersSound
  <2>5. QED  BY <1>1, <2>1, <2>4 DEF IInv, OwnerSound, CallsSound
<1>5. QED  BY <1>3, <1>4

(* Whatever the interleaving and wherever processes die, the invariant of  *)
(* the ring buffer holds.                                                  *)
THEOREM RingBufInvariant == Spec => []IInv
<1>1. IInv /\ UNCHANGED vars => IInv'
  BY DEF IInv, vars, buffer, locals, TypeOK, AnswerType, OwnerSound, InSection,
         CallsSound, RequestSound, SlotSound, Full, Empty
<1>2. QED  BY InitInv, InvStep, <1>1, PTL DEF Spec

(* Head, tail and the locals of every call keep their types: no push or    *)
(* pop indexes outside of the buffer.                                      *)
THEOREM RingBufTypeCorrect == Spec => []TypeOK
<1>1. IInv => TypeOK
  BY DEF IInv
<1>2. QED  BY RingBufInvariant, <1>1, PTL

-----------------------------------------------------------------------------
(* The ring buffer implements BoundedFifo.                                 *)

Elements == Values \cup {Zero, Torn}

(* Queue is a sequence, empty and full exactly when head and tail say so.  *)
LEMMA QueueFacts ==
  ASSUME TypeOK
  PROVE  /\ Count \in 0 .. Capacity - 1
         /\ Queue \in Seq(Elements) /\ Len(Queue) = Count
         /\ Queue = <<>> <=> Empty
         /\ Len(Queue) = Capacity - 1 <=> Full
         /\ \A i \in 1 .. Count : Queue[i] = Element(i)
<1>1. head \in Slots /\ tail \in Slots /\ Capacity \in Nat
  BY CapacityAssumption DEF TypeOK
<1>2. Count = IF head <= tail THEN tail - head ELSE tail - head + Capacity
  BY <1>1, CountFacts DEF Count
<1>3. Count \in 0 .. Capacity - 1 /\ (Count = 0 <=> Empty)
  BY <1>1, <1>2 DEF Slots, Empty
<1>4. Count = Capacity - 1 <=> Full
  BY <1>1, <1>2, NextSlot, CapacityAssumption DEF Slots, Full
<1>5. ASSUME NEW i \in 1 .. Count PROVE Element(i) \in Elements
  <2>1. (head + i - 1) % Capacity \in Slots
    BY <1>1, <1>3, CapacityAssumption, SlotFacts DEF Slots
  <2>2. QED  BY <2>1 DEF Element, TypeOK, Elements
<1>6. Queue \in [1 .. Count -> Elements]
  BY <1>5 DEF Queue
<1>7. Queue \in Seq(Elements) /\ Len(Queue) = Count
  BY <1>3, <1>6
<1>8. Queue = <<>> <=> Count = 0
  BY <1>7
<1>9. QED  BY <1>3, <1>4, <1>7, <1>8 DEF Queue

(* The slot at the tail holds no element of the queue: a push may write it *)
(* piecemeal, and its writer may die, without anyone seeing it.            *)
LEMMA CopyQueue ==
  ASSUME TypeOK, NEW v, data' = [data EXCEPT ![tail] = v],
         head' = head, tail' = tail
  PROVE  Queue' = Queue
<1>1. head \in Slots /\ tail \in Slots /\ Capacity \in Nat
  BY CapacityAssumption DEF TypeOK
<1>2. /\ Count = IF head <= tail THEN tail - head ELSE tail - head + Capacity
      /\ Count' = Count /\ Count \in 0 .. Capacity - 1
  BY <1>1, CountFacts, QueueFacts DEF Count
<1>3. ASSUME NEW i \in 1 .. Count PROVE Element(i)' = Element(i)
  <2>1. (head + i - 1) % Capacity \in Slots \ {tail}
    BY <1>1, <1>2, SlotFacts DEF Slots
  <2>2. QED  BY <2>1 DEF Element, TypeOK
<1>4. QED  BY <1>2, <1>3 DEF Queue

(* Storing the tail appends what the slot at the tail holds.               *)
LEMMA PublishQueue ==
  ASSUME TypeOK, ~Full, tail' = ringbuf_idx(tail + 1),
         data' = data, head' = head
  PROVE  Queue' = Append(Queue, data[tail])
<1>1. head \in Slots /\ tail \in Slots /\ Capacity \in Nat /\ Capacity >= 2
      /\ tail' \in Slots
  BY CapacityAssumption, NextSlot DEF TypeOK
<1>2. /\ Count = IF head <= tail THEN tail - head ELSE tail - head + Capacity
      /\ Count' = IF head <= tail' THEN tail' - head ELSE tail' - head + Capacity
  BY <1>1, CountFacts DEF Count
<1>3. Count' = Count + 1 /\ Count \in 0 .. Capacity - 2
  BY <1>1, <1>2, NextSlot DEF Slots, Full
<1>4. PICK n \in 0 .. Capacity - 2 : n = Count
  BY <1>3
<1>5. \A i \in 1 .. n : Element(i)' = Element(i)
  BY DEF Element
<1>6. (head + (n + 1) - 1) % Capacity = tail
  BY <1>1, <1>2, <1>3, <1>4, SlotFacts DEF Slots
<1>7. Element(n + 1)' = data[tail]
  BY <1>6 DEF Element
<1>8. /\ Queue \in Seq(Elements) /\ Len(Queue) = n
      /\ \A i \in 1 .. n : Queue[i] = Element(i)
  BY <1>4, QueueFacts
<1>9. data[tail] \in Elements
  BY <1>1 DEF TypeOK, Elements
<1>10. Append(Queue, data[tail]) =
         [i \in 1 .. n + 1 |-> IF i = n + 1 THEN data[tail] ELSE Queue[i]]
  BY <1>1, <1>4, <1>8, <1>9
<1>11. Queue' = [i \in 1 .. n + 1 |-> Element(i)']
  BY <1>3, <1>4 DEF Queue
<1>12. \A i \in 1 .. n + 1 :
         Element(i)' = IF i = n + 1 THEN data[tail] ELSE Queue[i]
  BY <1>1, <1>4, <1>5, <1>7, <1>8
<1>13. QED  BY <1>10, <1>11, <1>12

(* Storing the head removes the element that the slot at the head holds.   *)
LEMMA AdvanceQueue ==
  ASSUME TypeOK, ~Empty, head' = ringbuf_idx(head + 1),
         data' = data, tail' = tail
  PROVE  Queue' = Tail(Queue) /\ Head(Queue) = data[head]
<1>1. head \in Slots /\ tail \in Slots /\ Capacity \in Nat /\ Capacity >= 2
      /\ head' \in Slots
  BY CapacityAssumption, NextSlot DEF TypeOK
<1>2. /\ Count = IF head <= tail THEN tail - head ELSE tail - head + Capacity
      /\ Count' = IF head' <= tail THEN tail - head' ELSE tail - head' + Capacity
  BY <1>1, CountFacts DEF Count
<1>3. Count' = Count - 1 /\ Count \in 1 .. Capacity - 1
  BY <1>1, <1>2, NextSlot DEF Slots, Empty
<1>4. ASSUME NEW i \in 1 .. Count - 1 PROVE Element(i)' = Element(i + 1)
  <2>1. (head' + i - 1) % Capacity = (head + (i + 1) - 1) % Capacity
    <3>1. i \in 1 .. Capacity /\ i + 1 \in 1 .. Capacity
      BY <1>1, <1>3
    <3>2. (head' + i - 1) % Capacity =
            IF head' + i - 1 < Capacity THEN head' + i - 1
            ELSE head' + i - 1 - Capacity
      BY <1>1, <3>1, SlotFacts
    <3>3. (head + (i + 1) - 1) % Capacity =
            IF head + i < Capacity THEN head + i ELSE head + i - Capacity
      BY <1>1, <3>1, SlotFacts DEF Slots
    <3>4. QED  BY <1>1, <1>3, <3>2, <3>3, NextSlot DEF Slots
  <2>2. QED  BY <2>1 DEF Element
<1>5. (head + 1 - 1) % Capacity = head
  BY <1>1, SlotFacts DEF Slots
<1>6. /\ Queue \in Seq(Elements) /\ Len(Queue) = Count /\ Queue # <<>>
      /\ \A i \in 1 .. Count : Queue[i] = Element(i)
  BY QueueFacts
<1>7. Head(Queue) = data[head]
  BY <1>3, <1>5, <1>6 DEF Element
<1>8. Tail(Queue) = [i \in 1 .. Count - 1 |-> Queue[i + 1]]
  <2>1. /\ Tail(Queue) \in Seq(Elements) /\ Len(Tail(Queue)) = Count - 1
        /\ \A i \in 1 .. Count - 1 : Tail(Queue)[i] = Queue[i + 1]
    BY <1>6, HeadTailProperties
  <2>2. Tail(Queue) = [i \in 1 .. Len(Tail(Queue)) |-> Tail(Queue)[i]]
    BY <2>1, LenProperties
  <2>3. QED  BY <2>1, <2>2
<1>9. \A i \in 1 .. Count - 1 : Queue[i + 1] = Element(i)'
  BY <1>3, <1>4, <1>6
<1>10. Queue' = [i \in 1 .. Count - 1 |-> Element(i)']
  BY <1>3 DEF Queue
<1>11. QED  BY <1>7, <1>8, <1>9, <1>10

(* Only the call that takes the step changes in the eyes of the clients.   *)
LEMMA OneCall ==
  ASSUME NEW p \in Procs, Alone(p)
  PROVE  /\ Asked' = [Asked EXCEPT ![p] = Asked'[p]]
         /\ Told' = [Told EXCEPT ![p] = Told'[p]]
<1>1. \A u \in Procs : u # p => Asked'[u] = Asked[u] /\ Told'[u] = Told[u]
  BY DEF Alone, Asked, Told, Visible
<1>2. /\ Asked = [u \in Procs |-> Asked[u]] /\ Asked' = [u \in Procs |-> Asked'[u]]
      /\ Told = [u \in Procs |-> Told[u]] /\ Told' = [u \in Procs |-> Told'[u]]
  BY DEF Asked, Told
<1>3. QED  BY <1>1, <1>2

LEMMA SameQueue ==
  ASSUME UNCHANGED buffer
  PROVE  Queue' = Queue
BY DEF buffer, Queue, Count, Element

(* The steps the clients do not see.                                       *)
LEMMA SilentView ==
  ASSUME IInv, NEW p \in Procs,
         \/ Lock(p) \/ PushCopy(p) \/ PopCopy(p) \/ LengthWrapped(p)
         \/ LengthUnlock(p) \/ LengthReread(p) \/ LengthReturn(p) \/ Crash(p)
         \/ Unlock(p) /\ req[p].op = "length"
  PROVE  Queue' = Queue /\ Asked' = Asked /\ Told' = Told
<1> USE DEF At, Goto, Give, buffer, locals
<1>1. TypeOK /\ RequestSound(p) /\ NoRequest.op = "none"
  BY DEF IInv, CallsSound, NoRequest
<1>2. Queue' = Queue
  <2>1. CASE PushCopy(p)
    BY <1>1, <2>1, CopyQueue DEF PushCopy, CopyIn
  <2>2. CASE ~PushCopy(p)
    BY <2>2, SameQueue DEF Lock, PopCopy, LengthWrapped, Finish, LengthUnlock,
       LengthReread, LengthReturn, Crash, Unlock
  <2>3. QED  BY <2>1, <2>2
<1>3. CASE Crash(p) \/ LengthReread(p)
  BY <1>2, <1>3 DEF Crash, LengthReread, Asked, Told, Visible
<1>4. CASE \/ Lock(p) \/ PushCopy(p) \/ PopCopy(p) \/ LengthWrapped(p)
           \/ LengthUnlock(p) \/ LengthReturn(p)
           \/ Unlock(p) /\ req[p].op = "length"
  <2>1. Alone(p)
    <3>1. CASE Lock(p) \/ PushCopy(p) \/ PopCopy(p) \/ LengthUnlock(p)
      BY <1>1, <3>1 DEF TypeOK, Alone, Lock, PushCopy, CopyIn, PopCopy,
         LengthUnlock
    <3>2. CASE LengthReturn(p) \/ Unlock(p) \/ LengthWrapped(p)
      BY <1>1, <3>2 DEF TypeOK, Alone, LengthReturn, Unlock, Return,
         LengthWrapped, Finish, IInv, AnswerType
    <3>3. QED  BY <1>4, <3>1, <3>2
  <2>2. Asked'[p] = Asked[p] /\ Told'[p] = Told[p]
    <3>1. CASE Lock(p) \/ PushCopy(p) \/ PopCopy(p) \/ LengthUnlock(p)
      BY <1>1, <3>1 DEF TypeOK, Lock, PushCopy, CopyIn, PopCopy, Locked,
         LengthUnlock, Asked, Told, Visible
    <3>2. CASE \/ LengthReturn(p) \/ LengthWrapped(p)
               \/ Unlock(p) /\ req[p].op = "length"
      <4>1. req[p].op = "length"
        BY <1>1, <3>2 DEF LengthReturn, BothRead, RequestSound, LengthWrapped,
           Locked
      <4>2. req'[p].op = "length" \/ pc'[p] = "idle"
        BY <1>1, <3>2, <4>1 DEF TypeOK, LengthReturn, LengthWrapped, Finish,
           Unlock, Return
      <4>3. QED  BY <4>1, <4>2 DEF Asked, Told, Visible
    <3>3. QED  BY <1>4, <3>1, <3>2
  <2>3. Asked' = Asked /\ Told' = Told
    <3>1. Asked = [u \in Procs |-> Asked[u]] /\ Told = [u \in Procs |-> Told[u]]
      BY DEF Asked, Told
    <3>2. QED  BY <2>1, <2>2, <3>1, OneCall
  <2>4. QED  BY <1>2, <2>3
<1>5. QED  BY <1>3, <1>4

(* A call of push, pop, is_empty or is_full is a request to the queue.     *)
LEMMA CallView ==
  ASSUME IInv, NEW p \in Procs, NEW r \in Requests, Call(p, r)
  PROVE  \/ \E a \in Abstract!Requests : Abstract!Invoke(p, a)
         \/ Queue' = Queue /\ Asked' = Asked /\ Told' = Told
<1>1. TypeOK /\ Queue' = Queue
  BY SameQueue DEF IInv, Call
<1>2. /\ pc[p] = "idle" /\ pc' = [pc EXCEPT ![p] = "lock"]
      /\ req' = [req EXCEPT ![p] = r] /\ answer' = answer /\ out' = out
  BY DEF Call, At, Goto
<1>3. Alone(p) /\ pc'[p] = "lock" /\ req'[p] = r
  BY <1>1, <1>2 DEF Alone, TypeOK
<1>4. Asked[p] = [op |-> "none"] /\ Told[p] = NoAnswer /\ Told'[p] = NoAnswer
  BY <1>2, <1>3 DEF Asked, Told, Visible
<1>5. Asked = [u \in Procs |-> Asked[u]] /\ Told = [u \in Procs |-> Told[u]]
  BY DEF Asked, Told
<1>6. Told' = Told
  BY <1>3, <1>4, <1>5, OneCall
<1>7. CASE r.op = "length"
  <2>1. Asked'[p] = Asked[p]
    BY <1>3, <1>4, <1>7 DEF Asked, Visible
  <2>2. QED  BY <1>1, <1>3, <1>5, <1>6, <2>1, OneCall
<1>8. CASE r.op # "length"
  <2>1. PICK a : a = IF r.op = "push" THEN r ELSE [op |-> r.op]
    OBVIOUS
  <2>2. Asked'[p] = a
    BY <1>3, <1>8, <2>1 DEF Asked, Visible
  <2>3. a \in Abstract!Requests
    BY <1>8, <2>1, RequestTypes, OpsAssumption DEF Abstract!Requests, Requests
  <2>4. Abstract!Invoke(p, a)
    BY <1>1, <1>3, <1>4, <1>6, <2>2, OneCall
       DEF Abstract!Invoke, Abstract!NoRequest
  <2>5. QED  BY <2>3, <2>4
<1>9. QED  BY <1>7, <1>8

(* The steps at which a request takes effect.                              *)
LEMMA EffectView ==
  ASSUME IInv, NEW p \in Procs,
         \/ PushFull(p) \/ PushPublish(p) \/ PopEmpty(p) \/ PopAdvance(p)
         \/ IsEmpty(p) \/ IsFull(p)
  PROVE  Abstract!TakeEffect(p)
<1> USE DEF At, Goto, Give, buffer, locals
<1>1. TypeOK /\ RequestSound(p) /\ AnswerType
  BY DEF IInv, CallsSound
<1>2. /\ p \notin crashed /\ pc[p] \in {"locked", "publish", "advance"}
      /\ req[p].op \in {"push", "pop", "is_empty", "is_full"}
      /\ pc' = [pc EXCEPT ![p] = "unlock"] /\ req' = req /\ out' = out
      /\ answer' = [answer EXCEPT ![p] = answer'[p]]
  BY <1>1 DEF PushFull, PushPublish, PopEmpty, PopAdvance, IsEmpty, IsFull,
     Locked, Finish, RequestSound, AnswerType
<1>3. Alone(p) /\ pc'[p] = "unlock" /\ SlotSound(p)
  BY <1>1, <1>2 DEF Alone, TypeOK, AnswerType, IInv, CallsSound
<1>4. /\ Told[p] = NoAnswer /\ Told'[p] = answer'[p] /\ Asked'[p] = Asked[p]
      /\ Asked[p] = IF req[p].op = "push" THEN req[p] ELSE [op |-> req[p].op]
  BY <1>2, <1>3 DEF Asked, Told, Visible
<1>5. Asked[p].op = req[p].op /\ Asked[p] # [op |-> "none"]
      /\ (req[p].op = "push" => Asked[p].value = req[p].value)
  BY <1>2, <1>4
<1>6. Asked = [u \in Procs |-> Asked[u]]
  BY DEF Asked
<1>7. Asked' = Asked /\ Told' = [Told EXCEPT ![p] = answer'[p]]
  BY <1>3, <1>4, <1>6, OneCall
<1>8. (Queue = <<>> <=> Empty) /\ (Len(Queue) = Capacity - 1 <=> Full)
  BY <1>1, QueueFacts
<1>9. CASE PushFull(p)
  <2>1. req[p].op = "push" /\ Full /\ answer'[p] = <<"failed">> /\ Queue' = Queue
    BY <1>1, <1>9, SameQueue DEF PushFull, Locked, Finish, AnswerType
  <2>2. QED
    BY <1>4, <1>5, <1>7, <1>8, <2>1
       DEF Abstract!TakeEffect, Abstract!Effect, Abstract!NoRequest,
           Abstract!NoAnswer, Abstract!Full, NoAnswer
<1>10. CASE PushPublish(p)
  <2>1. req[p].op = "push" /\ ~Full /\ answer'[p] = <<"done">>
    BY <1>1, <1>3, <1>10 DEF PushPublish, RequestSound, SlotSound, AnswerType
  <2>2. Queue' = Append(Queue, req[p].value)
    BY <1>1, <1>3, <1>10, <2>1, PublishQueue DEF PushPublish, SlotSound
  <2>3. QED
    BY <1>4, <1>5, <1>7, <1>8, <2>1, <2>2
       DEF Abstract!TakeEffect, Abstract!Effect, Abstract!NoRequest,
           Abstract!NoAnswer, Abstract!Full, NoAnswer
<1>11. CASE PopEmpty(p)
  <2>1. req[p].op = "pop" /\ Empty /\ answer'[p] = <<"failed">> /\ Queue' = Queue
    BY <1>1, <1>11, SameQueue DEF PopEmpty, Locked, Finish, AnswerType
  <2>2. QED
    BY <1>4, <1>5, <1>7, <1>8, <2>1
       DEF Abstract!TakeEffect, Abstract!Effect, Abstract!NoRequest,
           Abstract!NoAnswer, Abstract!Empty, NoAnswer
<1>12. CASE PopAdvance(p)
  <2>1. req[p].op = "pop" /\ ~Empty /\ answer'[p] = <<"done", data[head]>>
    BY <1>1, <1>3, <1>12 DEF PopAdvance, RequestSound, SlotSound, AnswerType
  <2>2. Queue' = Tail(Queue) /\ Head(Queue) = data[head]
    BY <1>1, <1>12, <2>1, AdvanceQueue DEF PopAdvance
  <2>3. QED
    BY <1>4, <1>5, <1>7, <1>8, <2>1, <2>2
       DEF Abstract!TakeEffect, Abstract!Effect, Abstract!NoRequest,
           Abstract!NoAnswer, Abstract!Empty, NoAnswer
<1>13. CASE IsEmpty(p)
  <2>1. req[p].op = "is_empty" /\ answer'[p] = <<"done", Empty>> /\ Queue' = Queue
    BY <1>1, <1>13, SameQueue DEF IsEmpty, Locked, Finish, AnswerType
  <2>2. Abstract!Empty = Empty
    BY <1>8 DEF Abstract!Empty, Empty
  <2>3. Told' = [Told EXCEPT ![p] = <<"done", Abstract!Empty>>]
    BY <1>7, <2>1, <2>2, Zenon
  <2>4. Abstract!Effect(p, <<"done", Abstract!Empty>>, Queue)
    BY <1>7, <2>1, <2>3 DEF Abstract!Effect
  <2>5. QED
    BY <1>4, <1>5, <2>1, <2>4
       DEF Abstract!TakeEffect, Abstract!NoRequest, Abstract!NoAnswer, NoAnswer
<1>14. CASE IsFull(p)
  <2>1. req[p].op = "is_full" /\ answer'[p] = <<"done", Full>> /\ Queue' = Queue
    BY <1>1, <1>14, SameQueue DEF IsFull, Locked, Finish, AnswerType
  <2>2. Abstract!Full = Full
    BY <1>8 DEF Abstract!Full, Full
  <2>3. Told' = [Told EXCEPT ![p] = <<"done", Abstract!Full>>]
    BY <1>7, <2>1, <2>2, Zenon
  <2>4. Abstract!Effect(p, <<"done", Abstract!Full>>, Queue)
    BY <1>7, <2>1, <2>3 DEF Abstract!Effect
  <2>5. QED
    BY <1>4, <1>5, <2>1, <2>4
       DEF Abstract!TakeEffect, Abstract!NoRequest, Abstract!NoAnswer, NoAnswer
<1>15. QED  BY <1>9, <1>10, <1>11, <1>12, <1>13, <1>14

(* Unlock gives the answer to the client.                                  *)
LEMMA UnlockView ==
  ASSUME IInv, NEW p \in Procs, Unlock(p), req[p].op # "length"
  PROVE  Abstract!Return(p)
<1>1. TypeOK /\ RequestSound(p) /\ AnswerType /\ Queue' = Queue
  BY SameQueue DEF IInv, CallsSound, Unlock
<1>2. /\ pc[p] = "unlock" /\ answer[p] # NoAnswer
      /\ pc' = [pc EXCEPT ![p] = "idle"]
      /\ req' = [req EXCEPT ![p] = NoRequest]
      /\ out' = [out EXCEPT ![p] = Zero]
      /\ answer' = [answer EXCEPT ![p] = NoAnswer]
  BY <1>1 DEF Unlock, At, Goto, Give, Return, RequestSound
<1>3. Alone(p) /\ pc'[p] = "idle"
  BY <1>1, <1>2 DEF Alone, TypeOK, AnswerType
<1>4. /\ Told[p] = answer[p] /\ Told'[p] = NoAnswer
      /\ Asked'[p] = [op |-> "none"]
  BY <1>2, <1>3 DEF Asked, Told, Visible
<1>5. QED
  BY <1>1, <1>2, <1>3, <1>4, OneCall
     DEF Abstract!Return, Abstract!NoAnswer, Abstract!NoRequest, NoAnswer

LEMMA InitView == Init => Abstract!Init
<1> SUFFICES ASSUME Init PROVE Abstract!Init
  OBVIOUS
<1>1. TypeOK /\ Empty
  BY InitInv DEF IInv, Init, Empty
<1>2. Queue = <<>>
  BY <1>1, QueueFacts
<1>3. Asked = [p \in Procs |-> [op |-> "none"]] /\ Told = [p \in Procs |-> NoAnswer]
  BY DEF Init, Asked, Told, Visible
<1>4. QED
  BY <1>2, <1>3 DEF Abstract!Init, Abstract!NoRequest, Abstract!NoAnswer, NoAnswer

(* ringbuf_push, ringbuf_pop, ringbuf_is_empty and ringbuf_is_full act on  *)
(* a bounded FIFO queue, each at one instant between call and return, for  *)
(* any number of processes, some of which may die inside a call: no        *)
(* element is lost, duplicated, torn or delivered out of order.            *)
THEOREM RingBufImplementsFifo == Spec => Fifo
<1>1. ASSUME IInv, Next
      PROVE  Abstract!Next \/ (Queue' = Queue /\ Asked' = Asked /\ Told' = Told)
  <2>1. PICK p \in Procs : \/ \E r \in Requests : Call(p, r)
                           \/ Step(p) \/ Crash(p)
    BY <1>1 DEF Next
  <2>2. CASE \E r \in Requests : Call(p, r)
    BY <1>1, <2>2, CallView DEF Abstract!Next
  <2>3. CASE \/ Lock(p) \/ PushCopy(p) \/ PopCopy(p) \/ LengthWrapped(p)
             \/ LengthUnlock(p) \/ LengthReread(p) \/ LengthReturn(p) \/ Crash(p)
             \/ Unlock(p) /\ req[p].op = "length"
    BY <1>1, <2>3, SilentView
  <2>4. CASE \/ PushFull(p) \/ PushPublish(p) \/ PopEmpty(p) \/ PopAdvance(p)
             \/ IsEmpty(p) \/ IsFull(p)
    BY <1>1, <2>4, EffectView DEF Abstract!Next
  <2>5. CASE Unlock(p) /\ req[p].op # "length"
    BY <1>1, <2>5, UnlockView DEF Abstract!Next
  <2>6. QED
    BY <2>1, <2>2, <2>3, <2>4, <2>5 DEF Step, Push, Pop, Length
<1>2. UNCHANGED vars => Queue' = Queue /\ Asked' = Asked /\ Told' = Told
  BY SameQueue DEF vars, buffer, locals, Asked, Told, Visible
<1>3. IInv /\ [Next]_vars => [Abstract!Next]_(Abstract!vars)
  BY <1>1, <1>2 DEF Abstract!vars
<1>4. QED
  BY RingBufInvariant, InitView, <1>3, PTL DEF Spec, Fifo, Abstract!Spec
=============================================================================
