------------------------- MODULE ObjectStoreProofs -------------------------
(***************************************************************************)
(* The object store, for any number of processes, cells, calls and deaths, *)
(* and for any mappings; first the offset pointers it is built on, for     *)
(* every word size, region and mapping.                                    *)
(***************************************************************************)
EXTENDS ObjectStore, TLAPS

-----------------------------------------------------------------------------
(* Offset pointers.                                                        *)

LEMMA SmallMod ==
  ASSUME Word \in Nat, NEW x \in Nat, x < Word
  PROVE  x % Word = x
  OBVIOUS

(* offset_ptr_is_in_bounds accepts a span exactly when it lies in the      *)
(* region behind offset 0, with sums that do not wrap: the comparison with *)
(* what is left of the region is the right one for every 64-bit span.      *)
THEOREM InBoundsExact ==
  ASSUME NEW size \in Words, NEW offset \in Words, NEW length \in Words,
         Word \in Nat
  PROVE  offset_ptr_is_in_bounds(size, offset, length) <=>
           offset # 0 /\ offset < size /\ offset + length <= size
  BY DEF offset_ptr_is_in_bounds, NullOffset, Words

(* A span that offset_ptr_try_resolve accepts lies inside of the mapping,  *)
(* and its address did not wrap.                                           *)
THEOREM ResolveInside ==
  ASSUME NEW base \in Nat, NEW size \in Nat, NEW offset \in Nat,
         NEW length \in Nat, Word \in Nat, Mapped(base, size),
         offset_ptr_try_resolve(base, size, offset, length) # 0
  PROVE  LET address == offset_ptr_try_resolve(base, size, offset, length) IN
         /\ address = base + offset
         /\ base < address /\ address + length <= base + size
  <1>1. offset_ptr_is_in_bounds(size, offset, length)
    BY DEF offset_ptr_try_resolve
  <1>2. base + offset \in Nat /\ base + offset < Word
    BY <1>1 DEF Mapped, offset_ptr_is_in_bounds
  <1>3. offset_ptr_try_resolve(base, size, offset, length) = base + offset
    BY <1>1, <1>2, SmallMod DEF offset_ptr_try_resolve, Mapped
  <1> QED BY <1>1, <1>3 DEF offset_ptr_is_in_bounds, NullOffset

(* Every span inside of the region that does not start at offset 0         *)
(* resolves.                                                               *)
THEOREM InsideResolves ==
  ASSUME NEW base \in Nat, NEW size \in Nat, NEW offset \in Nat,
         NEW length \in Nat, Word \in Nat, Mapped(base, size),
         0 < offset, offset < size, offset + length <= size
  PROVE  offset_ptr_try_resolve(base, size, offset, length) = base + offset
  <1>1. offset_ptr_is_in_bounds(size, offset, length)
    BY DEF offset_ptr_is_in_bounds, NullOffset
  <1>2. base + offset \in Nat /\ base + offset < Word
    BY DEF Mapped
  <1> QED BY <1>1, <1>2, SmallMod DEF offset_ptr_try_resolve, Mapped

(* offset_ptr_try_from_raw gives the distance from the base for exactly    *)
(* the addresses inside of the mapping and behind its base.                *)
THEOREM FromRawExact ==
  ASSUME NEW base \in Nat, NEW size \in Nat, NEW address \in Nat,
         Word \in Nat, Mapped(base, size)
  PROVE  offset_ptr_try_from_raw(base, size, address) =
           IF base < address /\ address < base + size
           THEN address - base ELSE NullOffset
  <1>1. (base + size) % Word = base + size
    BY SmallMod DEF Mapped
  <1>2. CASE ~(address < base) /\ address < base + size
    <2>1. address - base \in Nat /\ address - base < Word
      BY <1>2 DEF Mapped
    <2>2. (address - base) % Word = address - base
      BY <2>1, SmallMod
    <2>3. offset_ptr_try_from_raw(base, size, address) = address - base
      BY <1>1, <1>2, <2>2 DEF offset_ptr_try_from_raw, Mapped
    <2> QED BY <1>2, <2>3 DEF NullOffset
  <1>3. CASE address < base \/ address >= base + size
    BY <1>1, <1>3 DEF offset_ptr_try_from_raw, Mapped
  <1> QED BY <1>2, <1>3

(* A handle means the same place to everybody: what one process makes of   *)
(* an address in its mapping, another resolves to the same distance from   *)
(* the base of its own.                                                    *)
THEOREM HandlesTravel ==
  ASSUME NEW base \in Nat, NEW other \in Nat, NEW size \in Nat,
         NEW address \in Nat, NEW length \in Nat, Word \in Nat,
         Mapped(base, size), Mapped(other, size),
         base < address, address + length <= base + size,
         address < base + size
  PROVE  LET handle == offset_ptr_try_from_raw(base, size, address) IN
         offset_ptr_try_resolve(other, size, handle, length) - other
           = address - base
  <1>1. offset_ptr_try_from_raw(base, size, address) = address - base
    BY FromRawExact
  <1>2. address - base \in Nat \ {0} /\ address - base < size
        /\ (address - base) + length <= size
    OBVIOUS
  <1>3. ASSUME NEW d \in Nat, 0 < d, d < size, d + length <= size
        PROVE  offset_ptr_try_resolve(other, size, d, length) = other + d
    BY <1>3, SmallMod DEF offset_ptr_try_resolve, offset_ptr_is_in_bounds, Mapped,
                           NullOffset
  <1>4. offset_ptr_try_resolve(other, size, address - base, length)
          = other + (address - base)
    BY <1>2, <1>3
  <1> QED BY <1>1, <1>2, <1>4

-----------------------------------------------------------------------------
(* The object store.                                                       *)

\* Labels of object_store_alloc once it has a cell, and of the other calls
\* once they have an address and before they return.
Filling == {"size", "type", "flags"}
Building == Filling \cup {"publish"}
Reading == {"span", "flag", "read_size", "full_span", "full_flag", "resolved",
            "reread"}
Killing == {"mark", "poison", "release"}
Pointed == (Reading \cup Killing) \ {"span"}

Making(p, c) == pc[p] \in Building /\ raw[p] = Base[p] + c
Freeing(p, c) ==
  req[p].op = "free" /\ req[p].obj = c /\ pc[p] \in Reading \cup Killing

\* A label belongs to some operations only.
LabelsFit == \A p \in Procs :
  /\ pc[p] = "idle" => req[p] = NoRequest /\ sure[p] = "unsure"
  /\ pc[p] \in Building \cup {"alloc"} => req[p].op = "alloc"
  /\ pc[p] \in Reading => req[p].op \in Accessors \cup {"free"}
  /\ pc[p] \in Killing => req[p].op = "free"
  /\ pc[p] \in {"full_span", "full_flag", "resolved"} => req[p].op # "get_header"
  /\ pc[p] = "resolved" => req[p].op # "free"
  /\ pc[p] = "reread" => req[p].op = "free"
  /\ req[p].op = "alloc" => sure[p] = "unsure"
  /\ req[p].op \in Accessors \cup {"free"} => req[p].obj \in issued

\* A local pointer leads to a cell.
PointersFit == \A p \in Procs :
  /\ pc[p] \in Pointed => raw[p] = Base[p] + req[p].obj
  /\ pc[p] \in Building => \E c \in Cells : raw[p] = Base[p] + c

SpansFit == \A c \in Cells : c + HeaderSize + span[c] <= RegionSize

\* An object belongs to one party: the clients, the call that makes it or
\* the call that frees it.
OneOwner ==
  /\ held \subseteq issued /\ held \subseteq allocated
  /\ \A c \in Cells, p \in Procs :
       /\ Making(p, c) => c \in allocated /\ c \notin held
       /\ Freeing(p, c) => c \in allocated /\ c \notin held
       /\ \A q \in Procs :
            /\ Making(p, c) => ~Freeing(q, c)
            /\ q # p => /\ Making(p, c) => ~Making(q, c)
                        /\ Freeing(p, c) => ~Freeing(q, c)

\* How far the header has got.
HeadersFit == \A c \in Cells :
  /\ c \in held => ~header[c].freed
  /\ \A p \in Procs :
       /\ Making(p, c) => req[p].size <= span[c] /\ req[p].size <= MaxSize
       /\ (Making(p, c) /\ pc[p] \in Filling /\ c \in issued)
            => header[c].freed
       /\ (Making(p, c) /\ pc[p] # "size") => header[c].size = req[p].size
       /\ (Making(p, c) /\ pc[p] \in {"flags", "publish"})
            => header[c].type = req[p].type
       /\ (Making(p, c) /\ pc[p] = "publish")
            => ~header[c].freed /\ asked[c].size = req[p].size
               /\ asked[c].type = req[p].type
       /\ (Freeing(p, c) /\ pc[p] \in Reading \cup {"mark"})
            => ~header[c].freed
       /\ (Freeing(p, c) /\ pc[p] \in {"poison", "release"})
            => header[c].freed

\* What is known of a call whose handle has been good, or bad, all along.
SureFits == \A p \in Procs :
  /\ sure[p] = "held" =>
       /\ req[p].op \in Accessors => req[p].obj \in held
       /\ req[p].op \in Accessors \cup {"free"}
       /\ (pc[p] \in {"full_span", "full_flag", "reread", "mark", "resolved"})
            => seen[p] = header[req[p].obj].size
       /\ pc[p] = "return" =>
            \/ answer[p] = "OK"
            \/ req[p].op = "free" /\ answer[p] = "SYSTEM_ERROR"
  /\ Freeing(p, req[p].obj) => sure[p] = "held"
  /\ sure[p] = "gone" =>
       /\ req[p].op \in Accessors
       /\ header[req[p].obj].freed
       /\ pc[p] \in {"span", "flag", "return"}
       /\ pc[p] = "return" => answer[p] # "OK"

Inv == /\ TypeOK /\ LabelsFit /\ PointersFit /\ SpansFit
       /\ OneOwner /\ HeadersFit /\ SureFits /\ UnmarkedIsWhole

-----------------------------------------------------------------------------
(* Addresses                                                               *)

LEMMA MappingFacts ==
  ASSUME NEW p \in Procs
  PROVE  /\ Word \in Nat /\ RegionSize \in Nat /\ Base[p] \in Nat
         /\ Base[p] > 0 /\ Base[p] + RegionSize < Word
         /\ Mapped(Base[p], RegionSize)
  BY MappingAssumption DEF Mapped

LEMMA CellFacts ==
  ASSUME NEW c \in Cells
  PROVE  c \in Nat /\ c > 0 /\ c < RegionSize /\ HeaderSize \in Nat
         /\ c + HeaderSize <= RegionSize /\ c # Null /\ RegionSize \in Nat
  BY OffsetsAssumption DEF NullOffset

\* A handle resolves to its cell in every mapping, or not at all.
LEMMA ResolveCell ==
  ASSUME NEW p \in Procs, NEW c \in Cells, NEW n \in 0 .. MaxSize
  PROVE  LET a == offset_ptr_try_resolve(Base[p], RegionSize, c, HeaderSize + n)
         IN  /\ a = Base[p] + c \/ a = 0
             /\ a \in Words
             /\ c + HeaderSize + n <= RegionSize => a = Base[p] + c
             /\ Base[p] + c # 0 /\ (Base[p] + c) - Base[p] = c
  <1>1. n \in Nat
    BY MaxSizeAssumption
  <1>2. Base[p] + c \in Nat /\ Base[p] + c < Word /\ Base[p] + c # 0
    BY MappingFacts, CellFacts
  <1>3. (Base[p] + c) % Word = Base[p] + c
    BY <1>2, SmallMod, MappingFacts
  <1> QED BY <1>1, <1>2, <1>3, MappingFacts, CellFacts
          DEF offset_ptr_try_resolve, offset_ptr_is_in_bounds, Words, NullOffset

\* The address of a cell becomes its handle.
LEMMA FromRawCell ==
  ASSUME NEW p \in Procs, NEW c \in Cells
  PROVE  /\ offset_ptr_try_from_raw(Base[p], RegionSize, Base[p] + c) = c
         /\ c # Null /\ Base[p] + c \in Words
  <1>1. Base[p] + c \in Nat /\ Base[p] < Base[p] + c
        /\ Base[p] + c < Base[p] + RegionSize /\ (Base[p] + c) - Base[p] = c
    BY MappingFacts, CellFacts
  <1>2. offset_ptr_try_from_raw(Base[p], RegionSize, Base[p] + c)
          = (Base[p] + c) - Base[p]
    BY <1>1, FromRawExact, MappingFacts
  <1> QED BY <1>1, <1>2, MappingFacts, CellFacts DEF Words

\* An address leads to one cell.
LEMMA CellOf ==
  ASSUME NEW p \in Procs, NEW c \in Cells, raw[p] = Base[p] + c
  PROVE  Cell(p) = c /\ \A d \in Cells : raw[p] = Base[p] + d => d = c
  BY MappingFacts, CellFacts DEF Cell

-----------------------------------------------------------------------------
(* Types                                                                   *)

LEMMA InitType == Init => TypeOK
  BY MaxSizeAssumption, MappingAssumption, TypesAssumption
  DEF Init, HeapInit, TypeOK, Labels, Statuses, Words, Mapped

LEMMA CallType ==
  ASSUME TypeOK, NEW p \in Procs, NEW r \in Requests, Call(p, r)
  PROVE  TypeOK'
  <1>1. pc' \in [Procs -> Labels] /\ held' \subseteq Cells
        /\ sure' \in [Procs -> {"held", "gone", "unsure"}]
    BY SMTT(30) DEF TypeOK, Call, CallAlloc, CallAccessor, CallFree, Goto, Labels
  <1>2. req' \in [Procs -> Requests \cup {NoRequest}] /\ calls' \in Nat
    BY DEF TypeOK, Call
  <1> QED BY <1>1, <1>2 DEF TypeOK, Call, shared

LEMMA ReturnType ==
  ASSUME TypeOK, NEW p \in Procs, Return(p)
  PROVE  TypeOK'
  BY MaxSizeAssumption, MappingFacts
  DEF TypeOK, Return, Goto, shared, ghosts, Labels, Statuses, Words

LEMMA AllocType ==
  ASSUME TypeOK, LabelsFit, PointersFit, HeadersFit, NEW p \in Procs, Alloc(p)
  PROVE  TypeOK'
  <1>1. CASE AllocFail(p)
    BY <1>1 DEF TypeOK, AllocFail, Deliver, Goto, shared, ghosts, Labels,
                Statuses
  <1>2. CASE AllocTake(p)
    <2>1. PICK c \in Cells, s \in req[p].size .. MaxSize :
            /\ Allocate(p, c)
            /\ span' = [span EXCEPT ![c] = s]
            /\ raw' = [raw EXCEPT ![p] = Base[p] + c]
      BY <1>2 DEF AllocTake
    <2>2. req[p].op = "alloc" /\ req[p] \in Requests
      BY <1>2 DEF AllocTake, At, LabelsFit, Building, TypeOK, NoRequest
    <2>3. req[p].size \in Nat
      BY <2>2, MaxSizeAssumption DEF Requests, Sizes, Accessors
    <2>4. span' \in [Cells -> 0 .. MaxSize] /\ raw' \in [Procs -> Words]
      BY <2>1, <2>3, FromRawCell, MaxSizeAssumption DEF TypeOK
    <2> QED BY <1>2, <2>1, <2>4
            DEF AllocTake, TypeOK, Allocate, Goto, ghosts, Labels
  <1>3. ASSUME NEW from \in Building, NEW new, NEW to \in Labels,
               Store(p, from, new, to), sure' \in [Procs -> {"held", "gone", "unsure"}],
               asked' \in [Cells -> [size : 0 .. MaxSize, type : Types \cup {0}]],
               new \in [size : 0 .. MaxSize, type : Types \cup {0}, freed : BOOLEAN]
        PROVE  TypeOK'
    BY <1>3 DEF TypeOK, Store, Goto
  <1>4. CASE pc[p] \in Building
    <2>1. PICK c \in Cells : raw[p] = Base[p] + c
      BY <1>4 DEF PointersFit
    <2>2. Cell(p) = c /\ Making(p, c)
      BY <1>4, <2>1, CellOf DEF Making
    <2>3. req[p] \in Requests /\ req[p].op = "alloc" /\ req[p].size <= MaxSize
      BY <1>4, <2>2 DEF LabelsFit, HeadersFit, TypeOK, NoRequest
    <2>4. req[p].size \in 0 .. MaxSize /\ req[p].type \in Types
      BY <2>3, MaxSizeAssumption DEF Requests, Sizes, Accessors
    <2>5. Header(p) \in [size : 0 .. MaxSize, type : Types \cup {0},
                         freed : BOOLEAN]
      BY <2>2 DEF Header, TypeOK
    <2>6. CASE StoreSize(p)
      BY <1>3, <2>4, <2>5, <2>6 DEF StoreSize, Building, Filling, Labels, TypeOK
    <2>7. CASE StoreType(p)
      BY <1>3, <2>4, <2>5, <2>7 DEF StoreType, Building, Filling, Labels, TypeOK
    <2>8. CASE StoreFlags(p)
      BY <1>3, <2>2, <2>4, <2>5, <2>8
      DEF StoreFlags, Building, Filling, Labels, TypeOK
    <2>9. CASE Publish(p)
      <3>1. offset_ptr_try_from_raw(Base[p], RegionSize, raw[p]) = c
        BY <2>1, FromRawCell
      <3>2. /\ issued' = issued \cup {c} /\ held' = held \cup {c}
            /\ answer' = [answer EXCEPT ![p] = "OK"]
            /\ pc' = [pc EXCEPT ![p] = "return"]
        BY <2>9, <3>1, CellFacts DEF Publish, Deliver, Goto
      <3>3. issued' \subseteq Cells /\ held' \subseteq Cells
        BY <3>2 DEF TypeOK
      <3>4. answer' \in [Procs -> Statuses] /\ pc' \in [Procs -> Labels]
        BY <3>2 DEF TypeOK, Labels, Statuses
      <3> QED BY <2>9, <3>3, <3>4 DEF Publish, TypeOK, Settle
    <2> QED BY <1>1, <1>2, <1>4, <2>6, <2>7, <2>8, <2>9 DEF Alloc
  <1> QED BY <1>1, <1>2, <1>4
          DEF Alloc, StoreSize, StoreType, StoreFlags, Publish, Store, At,
              Building, Filling

-----------------------------------------------------------------------------
(* object_store_resolve_header                                             *)

\* What a call that has not returned knows of its handle.
LEMMA HandleFacts ==
  ASSUME Inv, NEW p \in Procs, pc[p] \in Reading
  PROVE  /\ req[p].op \in Accessors \cup {"free"}
         /\ req[p].obj \in Cells /\ req[p].obj \in issued
         /\ sure[p] = "held" =>
              /\ req[p].obj \in allocated
              /\ ~header[req[p].obj].freed
              /\ header[req[p].obj].size <= span[req[p].obj]
         /\ sure[p] = "gone" => header[req[p].obj].freed
  <1>1. /\ req[p].op \in Accessors \cup {"free"}
        /\ req[p].obj \in Cells /\ req[p].obj \in issued
    BY DEF Inv, LabelsFit, TypeOK
  <1>2. CASE req[p].op = "free"
    <2>1. Freeing(p, req[p].obj)
      BY <1>2 DEF Freeing
    <2> QED BY <1>1, <2>1 DEF Inv, OneOwner, HeadersFit, UnmarkedIsWhole, SureFits
  <1>3. CASE req[p].op \in Accessors
    BY <1>1, <1>3 DEF Inv, OneOwner, HeadersFit, UnmarkedIsWhole, SureFits
  <1> QED BY <1>1, <1>2, <1>3

\* A step that only moves the call along, as every step of a resolution.
LEMMA ReadingStep ==
  ASSUME Inv, NEW p \in Procs, pc[p] \in Reading,
         NEW l \in Reading \cup {"mark", "return"}, NEW a \in Words,
         NEW n \in 0 .. MaxSize, NEW s \in Statuses,
         pc' = [pc EXCEPT ![p] = l], raw' = [raw EXCEPT ![p] = a],
         seen' = [seen EXCEPT ![p] = n], answer' = [answer EXCEPT ![p] = s],
         UNCHANGED <<shared, req, calls, crashed, ghosts, sure>>,
         l \in Pointed => a = Base[p] + req[p].obj,
         l \in {"reread", "mark"} => req[p].op = "free",
         l \in {"full_span", "full_flag", "resolved"} => req[p].op # "get_header",
         l = "resolved" => req[p].op # "free",
         sure[p] = "held" =>
           /\ l \in {"full_span", "full_flag", "reread", "mark", "resolved"}
                => n = header[req[p].obj].size
           /\ l = "return" => s = "OK",
         sure[p] = "gone" =>
           l \in {"span", "flag", "return"} /\ (l = "return" => s # "OK")
  PROVE  Inv'
  <1>1. TypeOK'
    BY DEF Inv, TypeOK, shared, ghosts, Reading, Labels
  <1>2. /\ \A q \in Procs, c \in Cells : Making(q, c)' => Making(q, c) /\ q # p
        /\ \A q \in Procs, c \in Cells :
             Freeing(q, c)' => /\ Freeing(q, c)
                               /\ pc'[q] \in Reading \cup {"mark"}
                                    => pc[q] \in Reading \cup {"mark"}
                               /\ q = p => pc'[q] \in Reading \cup {"mark"}
        /\ \A q \in Procs : q # p => /\ pc'[q] = pc[q] /\ raw'[q] = raw[q]
                                     /\ seen'[q] = seen[q]
                                     /\ answer'[q] = answer[q]
        /\ pc'[p] = l /\ raw'[p] = a /\ seen'[p] = n /\ answer'[p] = s
    BY DEF Making, Freeing, Inv, TypeOK, Building, Filling, Reading, Killing
  <1>3. LabelsFit'
    BY <1>2, HandleFacts
    DEF Inv, LabelsFit, ghosts, Building, Filling, Reading, Killing
  <1>4. PointersFit'
    BY <1>2 DEF Inv, PointersFit, Pointed, Building, Filling, Reading, Killing
  <1>5. SpansFit' /\ UnmarkedIsWhole'
    BY DEF Inv, SpansFit, UnmarkedIsWhole, shared, ghosts
  <1>6. OneOwner'
    BY <1>2 DEF Inv, OneOwner, shared, ghosts
  <1>7. HeadersFit'
    BY <1>2, SMTT(30) DEF Inv, HeadersFit, shared, ghosts, Reading, Killing
  <1>8. SureFits'
    BY <1>2, HandleFacts, SMTT(30)
    DEF Inv, SureFits, Freeing, shared, ghosts, Reading, Killing
  <1> QED BY <1>1, <1>3, <1>4, <1>5, <1>6, <1>7, <1>8 DEF Inv

\* A check that fails is the end of a call whose handle was not good.
LEMMA CheckStep ==
  ASSUME Inv, NEW p \in Procs, pc[p] \in Reading, NEW l \in Reading \cup {"mark"},
         NEW a \in Words, NEW good \in BOOLEAN, NEW second \in BOOLEAN,
         Check(p, pc[p], good, l, second), raw' = [raw EXCEPT ![p] = a],
         good /\ l \in Pointed => a = Base[p] + req[p].obj,
         l \in {"reread", "mark"} => req[p].op = "free",
         l \in {"full_span", "full_flag", "resolved"} => req[p].op # "get_header",
         l = "resolved" => req[p].op # "free",
         sure[p] = "held" =>
           good /\ (l \in {"full_span", "full_flag", "reread", "mark", "resolved"}
                      => seen[p] = header[req[p].obj].size),
         sure[p] = "gone" => l = "flag" \/ ~good
  PROVE  Inv'
  <1>1. /\ seen' = [seen EXCEPT ![p] = seen[p]] /\ seen[p] \in 0 .. MaxSize
        /\ answer \in [Procs -> Statuses]
    BY DEF Check, Inv, TypeOK
  <1>2. CASE good
    <2>1. answer' = [answer EXCEPT ![p] = answer[p]] /\ answer[p] \in Statuses
          /\ pc' = [pc EXCEPT ![p] = l]
      BY <1>1, <1>2 DEF Check, Goto
    <2>2. l # "return"
      BY DEF Reading
    <2> QED BY <1>1, <1>2, <2>1, <2>2, ReadingStep DEF Check
  <1>3. CASE ~good
    <2>1. /\ answer' = [answer EXCEPT ![p] = Rejection(p, second)]
          /\ pc' = [pc EXCEPT ![p] = "return"]
      BY <1>3 DEF Check, Deliver, Goto
    <2>2. Rejection(p, second) \in Statuses /\ Rejection(p, second) # "OK"
      BY DEF Rejection, Statuses
    <2>3. "return" \notin Pointed
      BY DEF Pointed, Reading, Killing
    <2> QED BY <1>1, <1>3, <2>1, <2>2, <2>3, ReadingStep DEF Check
  <1> QED BY <1>2, <1>3

LEMMA FindStep ==
  ASSUME Inv, NEW p \in Procs, NEW from \in {"span", "full_span"},
         NEW n \in 0 .. MaxSize, NEW l \in {"flag", "full_flag"},
         NEW second \in BOOLEAN, FindSpan(p, from, n, l, second),
         l = "full_flag" => from = "full_span",
         l = "flag" => n = 0 /\ from = "span",
         from = "full_span" => n = seen[p]
  PROVE  Inv'
  <1> DEFINE o == req[p].obj
             address == offset_ptr_try_resolve(Base[p], RegionSize, o,
                                               HeaderSize + n)
             good == /\ address # 0 /\ address - Base[p] \in allocated
                     /\ n <= span[address - Base[p]]
  <1>1. pc[p] = from /\ pc[p] \in Reading /\ l \in Reading
    BY DEF FindSpan, Check, At, Reading
  <1>2. /\ o \in Cells /\ o \in issued
        /\ sure[p] = "held" => /\ o \in allocated
                               /\ header[o].size <= span[o]
        /\ from = "full_span" => req[p].op # "get_header"
    BY <1>1, HandleFacts DEF Inv, LabelsFit
  <1>3. /\ address = Base[p] + o \/ address = 0
        /\ address \in Words
        /\ o + HeaderSize + n <= RegionSize => address = Base[p] + o
        /\ Base[p] + o # 0 /\ (Base[p] + o) - Base[p] = o
    BY <1>2, ResolveCell
  <1>4. good => address = Base[p] + o
    BY <1>3
  <1>5. ASSUME sure[p] = "held" PROVE good
    <2>1. n <= span[o]
      <3>1. CASE from = "span"
        BY <1>2, <3>1, MaxSizeAssumption DEF Inv, TypeOK
      <3>2. CASE from = "full_span"
        BY <1>1, <1>2, <1>5, <3>2 DEF Inv, SureFits
      <3> QED BY <3>1, <3>2
    <2>2. o + HeaderSize + n <= RegionSize
      BY <1>2, <2>1, CellFacts, MaxSizeAssumption DEF Inv, SpansFit, TypeOK
    <2> QED BY <1>2, <1>3, <1>5, <2>1, <2>2
  <1>6. sure[p] = "held" /\ l = "full_flag" => seen[p] = header[o].size
    BY <1>1 DEF Inv, SureFits
  <1>7. sure[p] = "gone" => l = "flag"
    BY <1>1 DEF Inv, SureFits
  <1>8. Check(p, pc[p], good, l, second) /\ raw' = [raw EXCEPT ![p] = address]
    BY <1>1 DEF FindSpan
  <1> HIDE DEF address, good
  <1>9. good \in BOOLEAN
    BY DEF good
  <1> QED BY <1>1, <1>2, <1>3, <1>4, <1>5, <1>6, <1>7, <1>8, <1>9, CheckStep

LEMMA FlagStep ==
  ASSUME Inv, NEW p \in Procs, NEW l \in {"read_size", "reread", "resolved"},
         NEW second \in BOOLEAN, raw' = [raw EXCEPT ![p] = raw[p]],
         Check(p, pc[p], ~Header(p).freed, l, second),
         pc[p] \in {"flag", "full_flag"},
         l # "read_size" => pc[p] = "full_flag",
         l = "reread" <=> (l # "read_size" /\ req[p].op = "free")
  PROVE  Inv'
  <1> DEFINE o == req[p].obj
  <1>1. pc[p] \in Reading /\ pc[p] \in Pointed
        /\ l \in Reading \cup {"mark"}
    BY DEF Reading, Pointed
  <1>2. raw[p] = Base[p] + o /\ o \in Cells
    BY <1>1, HandleFacts DEF Inv, PointersFit
  <1>3. Header(p) = header[o] /\ header[o].freed \in BOOLEAN
    BY <1>2, CellOf DEF Header, Inv, TypeOK
  <1>4. /\ sure[p] = "held" => ~header[o].freed
        /\ sure[p] = "gone" => header[o].freed
    BY <1>1, HandleFacts
  <1>5. sure[p] = "held" /\ l # "read_size" => seen[p] = header[o].size
    BY DEF Inv, SureFits
  <1>6. l = "resolved" => req[p].op # "get_header"
    BY DEF Inv, LabelsFit
  <1>7. raw[p] \in Words
    BY DEF Inv, TypeOK
  <1> DEFINE good == ~Header(p).freed
  <1>8. /\ Check(p, pc[p], good, l, second) /\ good \in BOOLEAN
        /\ sure[p] = "held" => good
        /\ sure[p] = "gone" => ~good
    BY <1>3, <1>4
  <1> HIDE DEF good
  <1> QED BY <1>1, <1>2, <1>5, <1>6, <1>7, <1>8, CheckStep

LEMMA ResolveInv ==
  ASSUME Inv, NEW p \in Procs, Resolve(p)
  PROVE  Inv'
  <1>1. /\ raw' = raw => raw' = [raw EXCEPT ![p] = raw[p]]
        /\ seen' = seen => seen' = [seen EXCEPT ![p] = seen[p]]
        /\ answer' = answer => answer' = [answer EXCEPT ![p] = answer[p]]
        /\ raw[p] \in Words /\ seen[p] \in 0 .. MaxSize
        /\ answer[p] \in Statuses
    BY DEF Inv, TypeOK
  <1>2. CASE FindHeader(p)
    <2> DEFINE second == FALSE
    <2>1. FindSpan(p, "span", 0, "flag", second) /\ second \in BOOLEAN
      BY <1>2 DEF FindHeader
    <2> HIDE DEF second
    <2> QED BY <2>1, FindStep, MaxSizeAssumption
  <1>3. CASE FindFlag(p)
    <2> DEFINE second == FALSE
    <2>1. /\ Check(p, pc[p], ~Header(p).freed, "read_size", second)
          /\ pc[p] = "flag" /\ second \in BOOLEAN
          /\ raw' = [raw EXCEPT ![p] = raw[p]]
      BY <1>1, <1>3 DEF FindFlag, Check, At
    <2> HIDE DEF second
    <2> QED BY <2>1, FlagStep
  <1>4. CASE GetHeader(p)
    <2>1. pc[p] \in Reading /\ "return" \notin Pointed /\ "OK" \in Statuses
      BY <1>4 DEF GetHeader, At, Reading, Pointed, Killing, Statuses
    <2>2. sure[p] # "gone"
      BY <1>4 DEF GetHeader, At, Inv, SureFits
    <2>3. /\ raw' = [raw EXCEPT ![p] = raw[p]]
          /\ seen' = [seen EXCEPT ![p] = seen[p]]
          /\ answer' = [answer EXCEPT ![p] = "OK"]
          /\ pc' = [pc EXCEPT ![p] = "return"]
          /\ UNCHANGED <<shared, req, calls, crashed, ghosts, sure>>
      BY <1>1, <1>4 DEF GetHeader, Deliver, Goto
    <2> QED BY <1>1, <2>1, <2>2, <2>3, ReadingStep
  <1>5. CASE ReadSize(p)
    <2>1. pc[p] = "read_size" /\ pc[p] \in Reading /\ pc[p] \in Pointed
          /\ "full_span" \in Reading
      BY <1>5 DEF ReadSize, At, Reading, Pointed
    <2>2. raw[p] = Base[p] + req[p].obj /\ req[p].obj \in Cells
      BY <2>1, HandleFacts DEF Inv, PointersFit
    <2>3. Header(p) = header[req[p].obj] /\ Header(p).size \in 0 .. MaxSize
      BY <2>2, CellOf DEF Header, Inv, TypeOK
    <2>4. sure[p] # "gone"
      BY <2>1 DEF Inv, SureFits
    <2>5. /\ raw' = [raw EXCEPT ![p] = raw[p]]
          /\ seen' = [seen EXCEPT ![p] = Header(p).size]
          /\ answer' = [answer EXCEPT ![p] = answer[p]]
          /\ pc' = [pc EXCEPT ![p] = "full_span"]
          /\ UNCHANGED <<shared, req, calls, crashed, ghosts, sure>>
          /\ req[p].op # "get_header"
      BY <1>1, <1>5 DEF ReadSize, Goto
    <2> QED BY <1>1, <2>1, <2>2, <2>3, <2>4, <2>5, ReadingStep
  <1>6. CASE FindObject(p)
    <2> DEFINE second == TRUE
    <2>1. FindSpan(p, "full_span", seen[p], "full_flag", second)
          /\ second \in BOOLEAN
      BY <1>6 DEF FindObject
    <2> HIDE DEF second
    <2> QED BY <1>1, <2>1, FindStep
  <1>7. CASE FindFullFlag(p)
    <2> DEFINE second == TRUE
               l == IF req[p].op = "free" THEN "reread" ELSE "resolved"
    <2>1. /\ Check(p, pc[p], ~Header(p).freed, l, second)
          /\ pc[p] = "full_flag" /\ second \in BOOLEAN
          /\ raw' = [raw EXCEPT ![p] = raw[p]]
          /\ l \in {"reread", "resolved"} /\ (l = "reread" <=> req[p].op = "free")
      BY <1>1, <1>7 DEF FindFullFlag, Check, At
    <2> HIDE DEF second, l
    <2> QED BY <2>1, FlagStep
  <1>8. CASE Resolved(p)
    <2>1. pc[p] = "resolved" /\ pc[p] \in Reading /\ "return" \notin Pointed
          /\ "OK" \in Statuses
      BY <1>8 DEF Resolved, At, Reading, Pointed, Killing, Statuses
    <2>2. sure[p] # "gone"
      BY <2>1 DEF Inv, SureFits
    <2>3. /\ raw' = [raw EXCEPT ![p] = raw[p]]
          /\ seen' = [seen EXCEPT ![p] = seen[p]]
          /\ answer' = [answer EXCEPT ![p] = "OK"]
          /\ pc' = [pc EXCEPT ![p] = "return"]
          /\ UNCHANGED <<shared, req, calls, crashed, ghosts, sure>>
      BY <1>1, <1>8 DEF Resolved, Deliver, Goto
    <2> QED BY <1>1, <2>1, <2>2, <2>3, ReadingStep
  <1> QED BY <1>2, <1>3, <1>4, <1>5, <1>6, <1>7, <1>8 DEF Resolve

-----------------------------------------------------------------------------
(* Stores to a header                                                      *)

\* The call that makes or frees an object is alone with it: every other call
\* whose handle is good has another cell.
LEMMA AloneWith ==
  ASSUME Inv, NEW p \in Procs, NEW c \in Cells,
         Making(p, c) \/ (Freeing(p, c) /\ pc[p] \in Killing)
  PROVE  /\ c \in allocated /\ c \notin held
         /\ \A q \in Procs \ {p} :
              /\ ~Making(q, c) /\ ~Freeing(q, c)
              /\ sure[q] = "held" /\ req[q].obj = c => pc[q] \in {"idle", "return"}
         /\ pc[p] \in Building => ~Freeing(p, c) /\ req[p].obj = Null
         /\ pc[p] \in Killing => ~Making(p, c) /\ req[p].obj = c
  <1>1. /\ c \in allocated /\ c \notin held
        /\ \A q \in Procs \ {p} : ~Making(q, c) /\ ~Freeing(q, c)
    BY DEF Inv, OneOwner
  <1>2. pc[p] \in Building => ~Freeing(p, c) /\ req[p].obj = Null
    BY DEF Inv, LabelsFit, TypeOK, Requests, NoRequest, Freeing, Building,
           Filling, Reading, Killing, Accessors
  <1>3. pc[p] \in Killing => ~Making(p, c) /\ req[p].obj = c
    BY DEF Making, Freeing, Building, Filling, Killing
  <1>4. ASSUME NEW q \in Procs \ {p}, sure[q] = "held", req[q].obj = c
        PROVE  pc[q] \in {"idle", "return"}
    <2>1. req[q].op = "free"
      BY <1>1, <1>4 DEF Inv, SureFits
    <2>2. pc[q] \notin Building \cup {"alloc"}
      BY <2>1 DEF Inv, LabelsFit
    <2> QED BY <1>1, <1>4, <2>1, <2>2
            DEF Freeing, Inv, TypeOK, Labels, Building, Filling, Reading, Killing
  <1> QED BY <1>1, <1>2, <1>3, <1>4

\* One store by the call that makes an object, before the last.
LEMMA MakingStore ==
  ASSUME Inv, NEW p \in Procs, NEW c \in Cells, Making(p, c),
         NEW l \in {"type", "flags"}, NEW h,
         pc[p] = (IF l = "type" THEN "size" ELSE "type"),
         Store(p, pc[p], h, l), UNCHANGED <<asked, sure>>, TypeOK',
         h.freed = header[c].freed,
         h.size = req[p].size, l = "flags" => h.type = req[p].type
  PROVE  Inv'
  <1>1. /\ header' = [header EXCEPT ![c] = h] /\ pc' = [pc EXCEPT ![p] = l]
        /\ UNCHANGED <<allocated, given, span, req, raw, seen, answer, calls,
                       crashed, issued, held>>
        /\ \A d \in Cells : d # c => header'[d] = header[d]
        /\ header'[c] = h
    <2>1. Cell(p) = c
      BY CellOf DEF Making
    <2>2. header' = [header EXCEPT ![c] = h] /\ DOMAIN header = Cells
      BY <2>1 DEF Store, Inv, TypeOK
    <2> QED BY <2>2 DEF Store, Goto
  <1>2. /\ \A q \in Procs, d \in Cells : Making(q, d)' <=> Making(q, d)
        /\ \A q \in Procs, d \in Cells : Freeing(q, d)' <=> Freeing(q, d)
        /\ \A q \in Procs : q # p => pc'[q] = pc[q]
        /\ pc'[p] = l
    BY <1>1 DEF Making, Freeing, Inv, TypeOK, Building, Filling, Reading, Killing
  <1>3. LabelsFit' /\ PointersFit' /\ SpansFit'
    BY <1>1, <1>2 DEF Inv, LabelsFit, PointersFit, SpansFit, Pointed, Building,
                      Filling, Reading, Killing
  <1>4. OneOwner'
    BY <1>1, <1>2 DEF Inv, OneOwner
  <1>5. /\ \A d \in Cells : Making(p, d) => d = c
        /\ c \in issued => header[c].freed
        /\ req[p].size <= span[c] /\ req[p].size <= MaxSize
    BY CellOf DEF Making, Inv, HeadersFit, Filling
  <1>6. HeadersFit'
    <2> SUFFICES ASSUME NEW d \in Cells PROVE HeadersFit!(d)'
      BY DEF HeadersFit
    <2>1. CASE d # c
      <3>1. \A q \in Procs : Making(q, d) => pc'[q] = pc[q]
        BY <1>2, <1>5, <2>1
      <3>2. \A q \in Procs : Freeing(q, d) => pc'[q] = pc[q]
        BY <1>2 DEF Freeing, Making, Inv, LabelsFit
      <3> QED BY <1>1, <1>2, <2>1, <3>1, <3>2 DEF Inv, HeadersFit
    <2>2. CASE d = c
      <3>1. \A q \in Procs : ~Freeing(q, c) /\ (Making(q, c) => q = p)
        BY AloneWith DEF Making
      <3> QED BY <1>1, <1>2, <1>5, <2>2, <3>1, AloneWith DEF Filling
    <2> QED BY <2>1, <2>2
  <1>7. UnmarkedIsWhole'
    BY <1>1, <1>5 DEF Inv, UnmarkedIsWhole, TypeOK
  <1>8. SureFits'
    <2> SUFFICES ASSUME NEW q \in Procs
                 PROVE  SureFits!(q)'
      BY DEF SureFits
    <2>1. sure'[p] = "unsure"
      BY <1>1 DEF Inv, LabelsFit, Making
    <2>2. ~Freeing(p, req[p].obj)
      BY DEF Making, Inv, LabelsFit, Freeing
    <2> QED BY <1>1, <1>2, <2>1, <2>2, AloneWith, SMTT(30)
            DEF Inv, SureFits, Freeing, TypeOK, Requests, NoRequest
  <1> QED BY <1>3, <1>4, <1>6, <1>7, <1>8 DEF Inv

LEMMA StoreFlagsInv ==
  ASSUME Inv, NEW p \in Procs, NEW c \in Cells, Making(p, c), StoreFlags(p), TypeOK'
  PROVE  Inv'
  <1>1. /\ pc[p] = "flags" /\ pc' = [pc EXCEPT ![p] = "publish"]
        /\ UNCHANGED <<allocated, given, span, req, raw, seen, answer, calls,
                       crashed, issued, held>>
        /\ \A d \in Cells : d # c => header'[d] = header[d] /\ asked'[d] = asked[d]
        /\ header'[c].size = header[c].size /\ header'[c].type = header[c].type
        /\ ~header'[c].freed
        /\ asked'[c].size = req[p].size /\ asked'[c].type = req[p].type
        /\ \A q \in Procs : sure'[q] = IF req[q].obj = c THEN "unsure" ELSE sure[q]
    <2>1. Cell(p) = c
      BY CellOf DEF Making
    <2>2. /\ header' = [header EXCEPT ![c] = [header[c] EXCEPT !.freed = FALSE]]
          /\ asked' = [asked EXCEPT ![c] = [size |-> req[p].size,
                                            type |-> req[p].type]]
          /\ DOMAIN header = Cells /\ DOMAIN asked = Cells
          /\ header[c] \in [size : 0 .. MaxSize, type : Types \cup {0},
                             freed : BOOLEAN]
      BY <2>1 DEF StoreFlags, Store, Header, Inv, TypeOK
    <2>3. /\ \A d \in Cells : d # c => header'[d] = header[d] /\ asked'[d] = asked[d]
          /\ header'[c] = [header[c] EXCEPT !.freed = FALSE]
          /\ asked'[c] = [size |-> req[p].size, type |-> req[p].type]
      BY <2>2
    <2>4. \A q \in Procs : sure'[q] = IF req[q].obj = c THEN "unsure" ELSE sure[q]
      BY <2>1 DEF StoreFlags
    <2> QED BY <2>2, <2>3, <2>4 DEF StoreFlags, Store, At, Goto
  <1>2. /\ \A q \in Procs, d \in Cells : Making(q, d)' <=> Making(q, d)
        /\ \A q \in Procs, d \in Cells : Freeing(q, d)' <=> Freeing(q, d)
        /\ \A q \in Procs : q # p => pc'[q] = pc[q]
        /\ pc'[p] = "publish"
    BY <1>1 DEF Making, Freeing, Inv, TypeOK, Building, Filling, Reading, Killing
  <1>3. LabelsFit' /\ PointersFit' /\ SpansFit'
    BY <1>1, <1>2 DEF Inv, LabelsFit, PointersFit, SpansFit, Pointed, Building,
                      Filling, Reading, Killing
  <1>4. OneOwner'
    BY <1>1, <1>2 DEF Inv, OneOwner
  <1>5. /\ \A d \in Cells : Making(p, d) => d = c
        /\ req[p].size <= span[c] /\ req[p].size <= MaxSize
        /\ header[c].size = req[p].size /\ header[c].type = req[p].type
    BY <1>1, CellOf DEF Making, Inv, HeadersFit
  <1>6. HeadersFit'
    <2> SUFFICES ASSUME NEW d \in Cells PROVE HeadersFit!(d)'
      BY DEF HeadersFit
    <2>1. CASE d # c
      <3>1. \A q \in Procs : Making(q, d) => pc'[q] = pc[q]
        BY <1>2, <1>5, <2>1
      <3>2. \A q \in Procs : Freeing(q, d) => pc'[q] = pc[q]
        BY <1>2 DEF Freeing, Making, Inv, LabelsFit
      <3> QED BY <1>1, <1>2, <2>1, <3>1, <3>2 DEF Inv, HeadersFit
    <2>2. CASE d = c
      <3>1. \A q \in Procs : ~Freeing(q, c) /\ (Making(q, c) => q = p)
        BY AloneWith DEF Making
      <3> QED BY <1>1, <1>2, <1>5, <2>2, <3>1, AloneWith DEF Filling
    <2> QED BY <2>1, <2>2
  <1>7. UnmarkedIsWhole'
    <2> SUFFICES ASSUME NEW d \in issued PROVE UnmarkedIsWhole!(d)'
      BY <1>1 DEF UnmarkedIsWhole
    <2>1. d \in Cells
      BY DEF Inv, TypeOK
    <2>2. CASE d # c
      BY <1>1, <2>1, <2>2 DEF Inv, UnmarkedIsWhole
    <2>3. CASE d = c
      BY <1>1, <1>5, <2>3, AloneWith
    <2> QED BY <2>2, <2>3
  <1>8. SureFits'
    <2> SUFFICES ASSUME NEW q \in Procs
                 PROVE  SureFits!(q)'
      BY DEF SureFits
    <2>1. CASE req[q].obj = c
      <3>1. ~Freeing(q, c)
        BY AloneWith DEF Making
      <3> QED BY <1>1, <1>2, <2>1, <3>1
    <2>2. CASE req[q].obj # c
      <3>1. sure[p] = "unsure" /\ ~Freeing(p, req[p].obj)
        BY DEF Making, Inv, LabelsFit, Freeing
      <3>2. /\ Freeing(q, req[q].obj)' => Freeing(q, req[q].obj)
            /\ sure[q] # "unsure" => req[q].obj \in Cells
        BY <1>1, <1>2 DEF Freeing, Inv, TypeOK, SureFits, Requests, NoRequest,
                          Accessors, Making, LabelsFit
      <3> QED BY <1>1, <1>2, <2>2, <3>1, <3>2 DEF Inv, SureFits
    <2> QED BY <2>1, <2>2
  <1> QED BY <1>3, <1>4, <1>6, <1>7, <1>8 DEF Inv

\* object_store_free: the mark, and the stores after it.
LEMMA KillingStore ==
  ASSUME Inv, NEW p \in Procs, pc[p] \in {"mark", "poison"},
         NEW l \in {"poison", "release"},
         NEW h \in [size : 0 .. MaxSize, type : Types \cup {0}, freed : BOOLEAN],
         Store(p, pc[p], h, l), UNCHANGED <<asked, sure>>, h.freed
  PROVE  Inv'
  <1> DEFINE c == req[p].obj
  <1>1. /\ c \in Cells /\ Freeing(p, c) /\ raw[p] = Base[p] + c
        /\ pc[p] \in Killing
    BY DEF Freeing, Killing, Inv, LabelsFit, PointersFit, Pointed, TypeOK
  <1>2. /\ pc' = [pc EXCEPT ![p] = l]
        /\ header' = [header EXCEPT ![c] = h]
        /\ UNCHANGED <<allocated, given, span, req, raw, seen, answer, calls,
                       crashed, issued, held>>
        /\ \A d \in Cells : d # c => header'[d] = header[d]
        /\ header'[c] = h
    <2>1. Cell(p) = c
      BY <1>1, CellOf
    <2>2. header' = [header EXCEPT ![c] = h] /\ DOMAIN header = Cells
      BY <2>1 DEF Store, Inv, TypeOK
    <2> QED BY <1>1, <2>2 DEF Store, Goto
  <1>3. TypeOK'
    BY <1>2 DEF Inv, TypeOK, Labels
  <1>4. /\ \A q \in Procs, d \in Cells : Making(q, d)' <=> Making(q, d)
        /\ \A q \in Procs, d \in Cells : Freeing(q, d)' <=> Freeing(q, d)
        /\ \A q \in Procs : q # p => pc'[q] = pc[q]
        /\ pc'[p] = l
    BY <1>2 DEF Making, Freeing, Inv, TypeOK, Building, Filling, Reading, Killing
  <1> HIDE DEF c
  <1>5. LabelsFit' /\ PointersFit' /\ SpansFit'
    BY <1>2, <1>4 DEF Inv, LabelsFit, PointersFit, SpansFit, Pointed, Building,
                      Filling, Reading, Killing
  <1>6. OneOwner'
    BY <1>2, <1>4 DEF Inv, OneOwner
  <1>7. /\ \A d \in Cells : Freeing(p, d) => d = c
        /\ \A d \in Cells : ~Making(p, d)
        /\ c \notin held
        /\ \A q \in Procs : ~Making(q, c) /\ (Freeing(q, c) => q = p)
    BY <1>1, AloneWith DEF Freeing, Making, Building, Filling, Killing
  <1>8. HeadersFit'
    <2> SUFFICES ASSUME NEW d \in Cells PROVE HeadersFit!(d)'
      BY DEF HeadersFit
    <2>1. CASE d # c
      BY <1>2, <1>4, <1>7, <2>1 DEF Inv, HeadersFit
    <2>2. CASE d = c
      BY <1>2, <1>4, <1>7, <2>2 DEF Reading
    <2> QED BY <2>1, <2>2
  <1>9. UnmarkedIsWhole'
    BY <1>2 DEF Inv, UnmarkedIsWhole, TypeOK
  <1>10. SureFits'
    <2> SUFFICES ASSUME NEW q \in Procs
                 PROVE  SureFits!(q)'
      BY DEF SureFits
    <2>1. Freeing(q, req[q].obj)' => Freeing(q, req[q].obj)
      BY <1>2, <1>4, <1>1 DEF Freeing, Killing, Inv, LabelsFit
    <2>2. sure[q] # "unsure" => req[q].obj \in Cells
      BY DEF Inv, TypeOK, SureFits, Requests, NoRequest, Accessors
    <2>3. CASE q = p
      BY <1>1, <1>2, <1>4, <2>1, <2>2, <2>3 DEF Inv, SureFits, c
    <2>4. CASE q # p /\ req[q].obj = c
      BY <1>1, <1>2, <1>4, <2>1, <2>2, <2>4, AloneWith DEF Inv, SureFits
    <2>5. CASE q # p /\ req[q].obj # c
      BY <1>2, <1>4, <2>1, <2>2, <2>5 DEF Inv, SureFits
    <2> QED BY <2>3, <2>4, <2>5
  <1> QED BY <1>3, <1>5, <1>6, <1>8, <1>9, <1>10 DEF Inv

-----------------------------------------------------------------------------
(* Cells change hands                                                      *)

LEMMA TakeInv ==
  ASSUME Inv, NEW p \in Procs, AllocTake(p), TypeOK'
  PROVE  Inv'
  <1>1. PICK c \in Cells, s \in req[p].size .. MaxSize :
          /\ Allocate(p, c)
          /\ c + HeaderSize + s <= RegionSize
          /\ span' = [span EXCEPT ![c] = s]
          /\ raw' = [raw EXCEPT ![p] = Base[p] + c]
    BY DEF AllocTake
  <1>2. /\ c \notin allocated /\ allocated' = allocated \cup {c}
        /\ span'[c] = s /\ \A d \in Cells : d # c => span'[d] = span[d]
        /\ raw'[p] = Base[p] + c /\ \A q \in Procs : q # p => raw'[q] = raw[q]
        /\ pc[p] = "alloc" /\ pc'[p] = "size"
        /\ \A q \in Procs : q # p => pc'[q] = pc[q]
        /\ UNCHANGED <<header, req, seen, answer, calls, crashed, issued, held,
                       asked, sure>>
    BY <1>1 DEF AllocTake, Allocate, At, Goto, Inv, TypeOK, ghosts
  <1>3. req[p].op = "alloc" /\ req[p].size \in Nat /\ req[p].size <= s
        /\ req[p].size <= MaxSize /\ sure[p] = "unsure"
    BY <1>1, <1>2, MaxSizeAssumption
    DEF AllocTake, Inv, LabelsFit, TypeOK, Requests, NoRequest, Sizes, Accessors
  <1>4. /\ c \notin held /\ (c \in issued => header[c].freed)
        /\ \A q \in Procs : ~Making(q, c) /\ ~Freeing(q, c)
    BY <1>2 DEF Inv, OneOwner, UnmarkedIsWhole
  <1>5. /\ \A q \in Procs, d \in Cells :
             /\ q # p => Making(q, d)' = Making(q, d)
             /\ Freeing(q, d)' = Freeing(q, d)
             /\ Freeing(q, d) => q # p
        /\ \A d \in Cells : Making(p, d)' => d = c
    <2>1. \A d \in Cells : raw'[p] = Base[p] + d => d = c
      BY <1>2, MappingFacts, CellFacts
    <2> QED BY <1>2, <1>3, <2>1
            DEF Making, Freeing, Building, Filling, Reading, Killing
  <1>6. LabelsFit' /\ PointersFit'
    BY <1>2, <1>3 DEF Inv, LabelsFit, PointersFit, Pointed, Building, Filling,
                      Reading, Killing
  <1>7. SpansFit'
    BY <1>1, <1>2 DEF Inv, SpansFit
  <1>8. OneOwner'
    <2>1. held' \subseteq issued' /\ held' \subseteq allocated'
      BY <1>2 DEF Inv, OneOwner
    <2> SUFFICES ASSUME NEW d \in Cells, NEW q \in Procs
                 PROVE  OneOwner!2!(d, q)'
      BY <2>1 DEF OneOwner
    <2>2. CASE d = c
      BY <1>2, <1>4, <1>5, <2>2
    <2>3. CASE d # c
      BY <1>2, <1>5, <2>3 DEF Inv, OneOwner
    <2> QED BY <2>2, <2>3
  <1>9. HeadersFit'
    <2> SUFFICES ASSUME NEW d \in Cells PROVE HeadersFit!(d)'
      BY DEF HeadersFit
    <2>1. CASE d # c
      BY <1>2, <1>5, <2>1 DEF Inv, HeadersFit
    <2>2. CASE d = c
      BY <1>2, <1>3, <1>4, <1>5, <2>2
    <2> QED BY <2>1, <2>2
  <1>10. UnmarkedIsWhole'
    <2> SUFFICES ASSUME NEW d \in issued PROVE UnmarkedIsWhole!(d)'
      BY <1>2 DEF UnmarkedIsWhole
    <2>1. d \in Cells
      BY DEF Inv, TypeOK
    <2>2. CASE d # c
      BY <1>2, <2>1, <2>2 DEF Inv, UnmarkedIsWhole
    <2>3. CASE d = c
      BY <1>2, <1>4, <2>3
    <2> QED BY <2>2, <2>3
  <1>11. SureFits'
    <2> SUFFICES ASSUME NEW q \in Procs PROVE SureFits!(q)'
      BY DEF SureFits
    <2>1. CASE q = p
      BY <1>2, <1>3, <2>1 DEF Freeing, Reading, Killing
    <2>2. CASE q # p
      BY <1>2, <2>2 DEF Inv, SureFits, Freeing
    <2> QED BY <2>1, <2>2
  <1> QED BY <1>6, <1>7, <1>8, <1>9, <1>10, <1>11 DEF Inv

LEMMA PublishInv ==
  ASSUME Inv, NEW p \in Procs, NEW c \in Cells, Making(p, c), Publish(p), TypeOK'
  PROVE  Inv'
  <1>1. /\ issued' = issued \cup {c} /\ held' = held \cup {c}
        /\ answer' = [answer EXCEPT ![p] = "OK"]
        /\ pc' = [pc EXCEPT ![p] = "return"] /\ pc[p] = "publish"
        /\ UNCHANGED <<allocated, header, span, req, raw, seen, calls, crashed,
                       asked, sure>>
    <2>1. offset_ptr_try_from_raw(Base[p], RegionSize, raw[p]) = c
      BY FromRawCell DEF Making
    <2> QED BY <2>1, CellFacts DEF Publish, Deliver, Goto, Settle, At
  <1>2. /\ \A q \in Procs, d \in Cells : Making(q, d)' => Making(q, d) /\ q # p
        /\ \A q \in Procs, d \in Cells : Freeing(q, d)' => Freeing(q, d) /\ q # p
        /\ \A q \in Procs : q # p => pc'[q] = pc[q] /\ answer'[q] = answer[q]
        /\ pc'[p] = "return" /\ req[p].op = "alloc" /\ sure[p] = "unsure"
    BY <1>1 DEF Making, Freeing, Inv, TypeOK, LabelsFit, Building, Filling,
                Reading, Killing
  <1>3. LabelsFit' /\ PointersFit' /\ SpansFit'
    BY <1>1, <1>2 DEF Inv, LabelsFit, PointersFit, SpansFit, Pointed, Building,
                      Filling, Reading, Killing
  <1>4. /\ c \in allocated
        /\ \A q \in Procs : q # p => ~Making(q, c) /\ ~Freeing(q, c)
        /\ ~header[c].freed /\ header[c].size = req[p].size
        /\ header[c].type = req[p].type /\ asked[c].size = req[p].size
        /\ asked[c].type = req[p].type /\ header[c].size <= span[c]
    BY <1>1, AloneWith DEF Inv, HeadersFit
  <1>5. OneOwner'
    <2>1. held' \subseteq issued' /\ held' \subseteq allocated'
      BY <1>1, <1>4 DEF Inv, OneOwner
    <2> SUFFICES ASSUME NEW d \in Cells, NEW q \in Procs
                 PROVE  OneOwner!2!(d, q)'
      BY <2>1 DEF OneOwner
    <2>2. CASE d = c
      BY <1>2, <1>4, <2>2
    <2>3. CASE d # c
      BY <1>1, <1>2, <2>3 DEF Inv, OneOwner
    <2> QED BY <2>2, <2>3
  <1>6. HeadersFit'
    <2> SUFFICES ASSUME NEW d \in Cells PROVE HeadersFit!(d)'
      BY DEF HeadersFit
    <2>1. CASE d # c
      BY <1>1, <1>2, <2>1 DEF Inv, HeadersFit
    <2>2. CASE d = c
      BY <1>1, <1>2, <1>4, <2>2
    <2> QED BY <2>1, <2>2
  <1>7. UnmarkedIsWhole'
    BY <1>1, <1>4 DEF Inv, UnmarkedIsWhole
  <1>8. SureFits'
    <2> SUFFICES ASSUME NEW q \in Procs PROVE SureFits!(q)'
      BY DEF SureFits
    <2>1. CASE q = p
      BY <1>1, <1>2, <2>1 DEF Freeing, Reading, Killing
    <2>2. CASE q # p
      BY <1>1, <1>2, <2>2 DEF Inv, SureFits, Freeing
    <2> QED BY <2>1, <2>2
  <1> QED BY <1>3, <1>5, <1>6, <1>7, <1>8 DEF Inv

\* allocator_free gives the cell back, or fails and leaves it allocated.
LEMMA ReleaseInv ==
  ASSUME Inv, NEW p \in Procs, Release(p) \/ ReleaseFails(p)
  PROVE  Inv'
  <1> DEFINE c == req[p].obj
  <1>1. /\ pc[p] = "release" /\ pc[p] \in Killing
        /\ c \in Cells /\ Freeing(p, c) /\ raw[p] = Base[p] + c
    BY DEF Release, ReleaseFails, At, Freeing, Killing, Inv, LabelsFit, PointersFit, Pointed,
           TypeOK
  <1>2. /\ allocated' = allocated \ {c} \/ allocated' = allocated
        /\ \E a \in {"OK", "SYSTEM_ERROR"} : answer' = [answer EXCEPT ![p] = a]
        /\ pc' = [pc EXCEPT ![p] = "return"]
        /\ UNCHANGED <<header, span, req, raw, seen, calls, crashed, issued,
                       held, asked, sure>>
    <2>1. Cell(p) = c
      BY <1>1, CellOf
    <2> QED BY <2>1 DEF Release, ReleaseFails, Free, Deliver, Goto, shared, ghosts
  <1>3. TypeOK'
    BY <1>2 DEF Inv, TypeOK, Labels, Statuses
  <1> HIDE DEF c
  <1>4. /\ \A q \in Procs, d \in Cells : Making(q, d)' => Making(q, d) /\ q # p
        /\ \A q \in Procs, d \in Cells : Freeing(q, d)' => Freeing(q, d) /\ q # p
        /\ \A q \in Procs : q # p => pc'[q] = pc[q] /\ answer'[q] = answer[q]
        /\ pc'[p] = "return" /\ answer'[p] \in {"OK", "SYSTEM_ERROR"}
    BY <1>1, <1>2 DEF Making, Freeing, Inv, TypeOK, Building, Filling,
                      Reading, Killing
  <1>5. LabelsFit' /\ PointersFit' /\ SpansFit'
    BY <1>2, <1>4 DEF Inv, LabelsFit, PointersFit, SpansFit, Pointed, Building,
                      Filling, Reading, Killing
  <1>6. /\ c \notin held /\ header[c].freed
        /\ \A q \in Procs : q # p => ~Making(q, c) /\ ~Freeing(q, c)
    BY <1>1, AloneWith DEF Inv, HeadersFit
  <1>7. OneOwner'
    BY <1>2, <1>4, <1>6 DEF Inv, OneOwner
  <1>8. HeadersFit'
    BY <1>2, <1>4 DEF Inv, HeadersFit
  <1>9. UnmarkedIsWhole'
    BY <1>2, <1>6 DEF Inv, UnmarkedIsWhole
  <1>10. SureFits'
    <2> SUFFICES ASSUME NEW q \in Procs PROVE SureFits!(q)'
      BY DEF SureFits
    <2>1. CASE q = p
      BY <1>1, <1>2, <1>4, <2>1 DEF Inv, SureFits, Freeing, Reading, Killing, c
    <2>2. CASE q # p
      BY <1>2, <1>4, <2>2 DEF Inv, SureFits, Freeing
    <2> QED BY <2>1, <2>2
  <1> QED BY <1>3, <1>5, <1>7, <1>8, <1>9, <1>10 DEF Inv

-----------------------------------------------------------------------------
(* Calls, returns and deaths                                               *)

LEMMA CallInv ==
  ASSUME Inv, NEW p \in Procs, NEW r \in Requests, Call(p, r)
  PROVE  Inv'
  <1>1. TypeOK'
    BY CallType DEF Inv
  <1>2. /\ pc[p] = "idle" /\ req[p] = NoRequest
        /\ UNCHANGED <<allocated, header, span, raw, seen, answer, crashed,
                       issued, asked>>
        /\ req'[p] = r /\ \A q \in Procs : q # p => req'[q] = req[q]
        /\ \A q \in Procs : q # p => pc'[q] = pc[q]
        /\ pc'[p] = IF r.op = "alloc" THEN "alloc" ELSE "span"
        /\ held' = IF r.op = "free" THEN held \ {r.obj} ELSE held
        /\ r.op \in {"alloc", "free"} \cup Accessors
        /\ r.op = "free" => r.obj \in held
        /\ r.op # "alloc" => r.obj \in issued
    BY DEF Call, CallAlloc, CallAccessor, CallFree, At, Goto, shared, Inv,
           TypeOK, LabelsFit, OneOwner, Accessors
  <1>3. /\ r.op = "alloc" => sure'[p] = "unsure"
        /\ r.op = "free" => sure'[p] = "held"
        /\ r.op \in Accessors => /\ sure'[p] = "held" => r.obj \in held
                                 /\ sure'[p] = "gone" => header[r.obj].freed
        /\ \A q \in Procs : q # p =>
             \/ sure'[q] = sure[q]
                /\ (r.op = "free" /\ req[q].obj = r.obj => sure[q] # "held")
             \/ sure'[q] = "unsure" /\ r.op = "free" /\ req[q].obj = r.obj
                /\ sure[q] = "held"
    BY DEF Call, CallAlloc, CallAccessor, CallFree, Inv, TypeOK, Accessors
  <1>4. /\ \A q \in Procs, d \in Cells : Making(q, d)' => Making(q, d) /\ q # p
        /\ \A q \in Procs, d \in Cells :
             Freeing(q, d)' => IF q = p THEN r.op = "free" /\ d = r.obj
                               ELSE Freeing(q, d)
        /\ ~Freeing(p, req[p].obj)
    BY <1>2 DEF Making, Freeing, Building, Filling, Reading, Killing
  <1>5. LabelsFit'
    <2> SUFFICES ASSUME NEW q \in Procs PROVE LabelsFit!(q)'
      BY DEF LabelsFit
    <2>1. CASE q = p
      BY <1>2, <1>3, <2>1 DEF Building, Filling, Reading, Killing, Accessors
    <2>2. CASE q # p
      <3>1. sure[q] = "unsure" => sure'[q] = "unsure"
        BY <1>3, <2>2
      <3> QED BY <1>2, <2>2, <3>1 DEF Inv, LabelsFit
    <2> QED BY <2>1, <2>2
  <1>6. PointersFit' /\ SpansFit' /\ UnmarkedIsWhole'
    BY <1>2 DEF Inv, PointersFit, SpansFit, UnmarkedIsWhole, Pointed, Building,
                Filling, Reading, Killing
  <1>7. OneOwner'
    <2>1. held' \subseteq issued' /\ held' \subseteq allocated'
      BY <1>2 DEF Inv, OneOwner
    <2> SUFFICES ASSUME NEW d \in Cells, NEW q \in Procs
                 PROVE  OneOwner!2!(d, q)'
      BY <2>1 DEF OneOwner
    <2>2. CASE r.op = "free" /\ d = r.obj
      BY <1>2, <1>4, <2>2 DEF Inv, OneOwner
    <2>3. CASE ~(r.op = "free" /\ d = r.obj)
      BY <1>2, <1>4, <2>3 DEF Inv, OneOwner
    <2> QED BY <2>2, <2>3
  <1>8. HeadersFit'
    <2> SUFFICES ASSUME NEW d \in Cells PROVE HeadersFit!(d)'
      BY DEF HeadersFit
    <2>1. CASE r.op = "free" /\ d = r.obj
      <3>1. \A q \in Procs : ~Making(q, d) /\ ~Freeing(q, d)
        BY <1>2, <2>1 DEF Inv, OneOwner
      <3> QED BY <1>2, <1>4, <2>1, <3>1 DEF Inv, HeadersFit
    <2>2. CASE ~(r.op = "free" /\ d = r.obj)
      BY <1>2, <1>4, <2>2 DEF Inv, HeadersFit
    <2> QED BY <2>1, <2>2
  <1>9. SureFits'
    <2> SUFFICES ASSUME NEW q \in Procs PROVE SureFits!(q)'
      BY DEF SureFits
    <2>1. CASE q = p
      <3>1. r.op = "alloc" => ~Freeing(p, req[p].obj)'
        BY <1>2 DEF Freeing
      <3>2. r.op \in Accessors => ~Freeing(p, req[p].obj)' /\ r.op # "free"
                                  /\ r.op # "alloc"
        BY <1>2 DEF Freeing, Accessors
      <3> QED BY <1>2, <1>3, <2>1, <3>1, <3>2
    <2>2. CASE q # p /\ sure'[q] = sure[q]
      <3>1. Freeing(q, req[q].obj)' => Freeing(q, req[q].obj)
        BY <1>2, <2>2 DEF Freeing
      <3>2. sure[q] = "held" /\ req[q].obj \in held => req[q].obj \in held'
        BY <1>2, <1>3, <2>2
      <3> QED BY <1>2, <2>2, <3>1, <3>2 DEF Inv, SureFits
    <2>3. CASE q # p /\ sure'[q] # sure[q]
      <3>1. sure'[q] = "unsure" /\ r.op = "free" /\ req[q].obj = r.obj
        BY <1>3, <2>3
      <3>2. ~Freeing(q, req[q].obj)
        BY <1>2, <3>1 DEF Inv, OneOwner, TypeOK
      <3> QED BY <1>2, <2>3, <3>1, <3>2 DEF Freeing
    <2> QED BY <2>1, <2>2, <2>3
  <1> QED BY <1>1, <1>5, <1>6, <1>7, <1>8, <1>9 DEF Inv

\* The end of a call, early (AllocFail) or not.
LEMMA LeaveInv ==
  ASSUME Inv, NEW p \in Procs, AllocFail(p) \/ Return(p)
  PROVE  Inv'
  <1>1. TypeOK'
    <2>1. CASE Return(p)
      BY <2>1, ReturnType DEF Inv
    <2>2. CASE AllocFail(p)
      BY <2>2 DEF Inv, TypeOK, AllocFail, Deliver, Goto, shared, ghosts, Labels,
                  Statuses
    <2> QED BY <2>1, <2>2
  <1>2. /\ UNCHANGED <<allocated, header, span, issued, held, asked>>
        /\ \A q \in Procs : q # p => /\ pc'[q] = pc[q] /\ req'[q] = req[q]
                                     /\ raw'[q] = raw[q] /\ seen'[q] = seen[q]
                                     /\ answer'[q] = answer[q]
                                     /\ sure'[q] = sure[q]
    BY DEF AllocFail, Return, Deliver, Goto, shared, ghosts, Inv, TypeOK
  <1>3. /\ sure'[p] = "unsure"
        /\ \/ pc'[p] = "idle" /\ req'[p] = NoRequest
           \/ pc'[p] = "return" /\ req'[p] = req[p] /\ req[p].op = "alloc"
    <2>1. CASE Return(p)
      BY <2>1 DEF Return, Goto, Inv, TypeOK
    <2>2. CASE AllocFail(p)
      BY <2>2 DEF Inv, TypeOK, AllocFail, Deliver, Goto, At, LabelsFit
    <2> QED BY <2>1, <2>2
  <1>4. /\ \A q \in Procs, d \in Cells : Making(q, d)' => Making(q, d) /\ q # p
        /\ \A q \in Procs, d \in Cells : Freeing(q, d)' => Freeing(q, d) /\ q # p
    BY <1>2, <1>3 DEF Making, Freeing, Building, Filling, Reading, Killing
  <1>5. LabelsFit' /\ PointersFit'
    <2>1. NoRequest.op \notin Accessors \cup {"free", "alloc"}
      BY DEF NoRequest, Accessors
    <2>2. "alloc" \notin Accessors \cup {"free"}
      BY DEF Accessors
    <2> QED BY <1>2, <1>3, <2>1, <2>2
            DEF Inv, LabelsFit, PointersFit, Pointed, Building, Filling,
                Reading, Killing
  <1>6. SpansFit' /\ UnmarkedIsWhole'
    BY <1>2 DEF Inv, SpansFit, UnmarkedIsWhole
  <1>7. OneOwner'
    BY <1>2, <1>4 DEF Inv, OneOwner
  <1>8. HeadersFit'
    BY <1>2, <1>4 DEF Inv, HeadersFit
  <1>9. SureFits'
    BY <1>2, <1>3 DEF Inv, SureFits, Freeing, Reading, Killing
  <1> QED BY <1>1, <1>5, <1>6, <1>7, <1>8, <1>9 DEF Inv

LEMMA StillInv ==
  ASSUME Inv, crashed' \subseteq Procs, calls' = calls,
         UNCHANGED <<shared, pc, req, raw, seen, answer, ghosts, sure>>
  PROVE  Inv'
  BY DEF Inv, TypeOK, LabelsFit, PointersFit, SpansFit, OneOwner, HeadersFit,
         SureFits, UnmarkedIsWhole, Making, Freeing, shared, ghosts

LEMMA AllocInv ==
  ASSUME Inv, NEW p \in Procs, Alloc(p)
  PROVE  Inv'
  <1>1. TypeOK'
    BY AllocType DEF Inv
  <1>2. CASE AllocFail(p)
    BY <1>2, LeaveInv
  <1>3. CASE AllocTake(p)
    BY <1>1, <1>3, TakeInv
  <1>4. CASE pc[p] \in Building
    <2>1. PICK c \in Cells : Making(p, c)
      BY <1>4 DEF Inv, PointersFit, Making
    <2>2. Cell(p) = c /\ Header(p) = header[c]
      BY <2>1, CellOf DEF Making, Header
    <2>3. header[c] \in [size : 0 .. MaxSize, type : Types \cup {0},
                         freed : BOOLEAN]
      BY DEF Inv, TypeOK
    <2>4. CASE StoreSize(p)
      <3> DEFINE h == [header[c] EXCEPT !.size = req[p].size]
      <3>1. pc[p] = "size" /\ Store(p, pc[p], h, "type") /\ UNCHANGED <<asked, sure>>
        BY <2>2, <2>4 DEF StoreSize, Store, At
      <3>2. h.freed = header[c].freed /\ h.size = req[p].size
        BY <2>3
      <3> HIDE DEF h
      <3> QED BY <1>1, <2>1, <3>1, <3>2, MakingStore
    <2>5. CASE StoreType(p)
      <3> DEFINE h == [header[c] EXCEPT !.type = req[p].type]
      <3>1. pc[p] = "type" /\ Store(p, pc[p], h, "flags") /\ UNCHANGED <<asked, sure>>
        BY <2>2, <2>5 DEF StoreType, Store, At
      <3>2. h.freed = header[c].freed /\ h.size = req[p].size
            /\ h.type = req[p].type
        BY <2>1, <2>3, <3>1 DEF Inv, HeadersFit
      <3> HIDE DEF h
      <3> QED BY <1>1, <2>1, <3>1, <3>2, MakingStore
    <2>6. CASE StoreFlags(p)
      BY <1>1, <2>1, <2>6, StoreFlagsInv
    <2>7. CASE Publish(p)
      BY <1>1, <2>1, <2>7, PublishInv
    <2> QED BY <1>2, <1>3, <2>4, <2>5, <2>6, <2>7 DEF Alloc
  <1> QED BY <1>2, <1>3, <1>4
          DEF Alloc, StoreSize, StoreType, StoreFlags, Publish, Store, At,
              Building, Filling

LEMMA FreeInv ==
  ASSUME Inv, NEW p \in Procs, FreeObject(p)
  PROVE  Inv'
  <1>1. CASE Release(p) \/ ReleaseFails(p)
    BY <1>1, ReleaseInv
  <1>2. CASE pc[p] \in {"mark", "poison"}
    <2> DEFINE c == req[p].obj
    <2>1. c \in Cells /\ raw[p] = Base[p] + c /\ Freeing(p, c)
      BY <1>2 DEF Freeing, Killing, Inv, LabelsFit, PointersFit, Pointed, TypeOK
    <2>2. Header(p) = header[c]
      BY <2>1, CellOf DEF Header
    <2>3. /\ header[c] \in [size : 0 .. MaxSize, type : Types \cup {0},
                            freed : BOOLEAN]
          /\ seen[p] \in 0 .. MaxSize
      BY <2>1 DEF Inv, TypeOK
    <2>4. CASE MarkFreed(p)
      <3> DEFINE h == [header[c] EXCEPT !.freed = TRUE]
      <3>1. Store(p, pc[p], h, "poison") /\ UNCHANGED <<asked, sure>>
        BY <2>2, <2>4 DEF MarkFreed, Store, At
      <3>2. h \in [size : 0 .. MaxSize, type : Types \cup {0}, freed : BOOLEAN]
            /\ h.freed
        BY <2>3
      <3> HIDE DEF h
      <3> QED BY <1>2, <3>1, <3>2, KillingStore
    <2>5. CASE Poison(p)
      <3> DEFINE h == [header[c] EXCEPT !.type = 0, !.size = seen[p]]
      <3>1. pc[p] = "poison" /\ Store(p, pc[p], h, "release")
            /\ UNCHANGED <<asked, sure>>
        BY <2>2, <2>5 DEF Poison, Store, At
      <3>2. h \in [size : 0 .. MaxSize, type : Types \cup {0}, freed : BOOLEAN]
            /\ h.freed
        BY <2>1, <2>3, <3>1 DEF Inv, HeadersFit
      <3> HIDE DEF h
      <3> QED BY <1>2, <3>1, <3>2, KillingStore
    <2> QED BY <1>1, <1>2, <2>4, <2>5 DEF FreeObject, Reread, At
  <1>3. CASE Reread(p)
    <2>1. pc[p] = "reread" /\ pc[p] \in Reading /\ pc[p] \in Pointed
      BY <1>3 DEF Reread, At, Reading, Pointed
    <2>2. /\ raw[p] = Base[p] + req[p].obj /\ req[p].obj \in Cells
          /\ raw[p] \in Words /\ answer[p] \in Statuses
          /\ req[p].op = "free" /\ sure[p] # "gone"
      BY <2>1, HandleFacts DEF Inv, PointersFit, TypeOK, LabelsFit, SureFits
    <2>3. Header(p) = header[req[p].obj] /\ Header(p).size \in 0 .. MaxSize
      BY <2>2, CellOf DEF Header, Inv, TypeOK
    <2>4. /\ raw' = [raw EXCEPT ![p] = raw[p]]
          /\ seen' = [seen EXCEPT ![p] = Header(p).size]
          /\ answer' = [answer EXCEPT ![p] = answer[p]]
          /\ pc' = [pc EXCEPT ![p] = "mark"]
          /\ UNCHANGED <<shared, req, calls, crashed, ghosts, sure>>
      BY <1>3 DEF Reread, Goto, Inv, TypeOK
    <2> QED BY <2>1, <2>2, <2>3, <2>4, ReadingStep
  <1> QED BY <1>1, <1>2, <1>3 DEF FreeObject, MarkFreed, Poison, Store, At

LEMMA InitInv == Init => Inv
  <1> SUFFICES ASSUME Init PROVE Inv
    OBVIOUS
  <1>1. \A p \in Procs : pc[p] = "idle" /\ req[p] = NoRequest /\ sure[p] = "unsure"
    BY DEF Init
  <1>2. \A p \in Procs, c \in Cells : ~Making(p, c) /\ ~Freeing(p, c)
    BY <1>1 DEF Making, Freeing, Building, Filling, Reading, Killing
  <1>3. LabelsFit
    <2>1. NoRequest.op \notin Accessors \cup {"free", "alloc"}
      BY DEF NoRequest, Accessors
    <2> QED BY <1>1, <2>1 DEF LabelsFit, Building, Filling, Reading, Killing
  <1>4. PointersFit /\ SureFits
    BY <1>1 DEF PointersFit, SureFits, Pointed, Freeing, Building, Filling,
                Reading, Killing
  <1>5. SpansFit
    BY CellFacts DEF Init, SpansFit
  <1>6. OneOwner /\ HeadersFit /\ UnmarkedIsWhole
    BY <1>2 DEF Init, HeapInit, OneOwner, HeadersFit, UnmarkedIsWhole
  <1> QED BY <1>3, <1>4, <1>5, <1>6, InitType DEF Inv

LEMMA NextInv == Inv /\ [Next]_vars => Inv'
  <1> SUFFICES ASSUME Inv, [Next]_vars PROVE Inv'
    OBVIOUS
  <1>1. ASSUME NEW p \in Procs, NEW r \in Requests, Call(p, r) PROVE Inv'
    BY <1>1, CallInv
  <1>2. ASSUME NEW p \in Procs, Alloc(p) PROVE Inv'
    BY <1>2, AllocInv
  <1>3. ASSUME NEW p \in Procs, Resolve(p) PROVE Inv'
    BY <1>3, ResolveInv
  <1>4. ASSUME NEW p \in Procs, FreeObject(p) PROVE Inv'
    BY <1>4, FreeInv
  <1>5. ASSUME NEW p \in Procs, Return(p) PROVE Inv'
    BY <1>5, LeaveInv
  <1>6. ASSUME NEW p \in Procs, Crash(p) PROVE Inv'
    <2>1. /\ crashed' \subseteq Procs /\ calls' = calls
          /\ UNCHANGED <<shared, pc, req, raw, seen, answer, ghosts, sure>>
      BY <1>6 DEF Crash, Inv, TypeOK
    <2> QED BY <2>1, StillInv
  <1>7. CASE UNCHANGED vars
    <2>1. /\ crashed' \subseteq Procs /\ calls' = calls
          /\ UNCHANGED <<shared, pc, req, raw, seen, answer, ghosts, sure>>
      BY <1>7 DEF vars, Inv, TypeOK
    <2> QED BY <2>1, StillInv
  <1> QED BY <1>1, <1>2, <1>3, <1>4, <1>5, <1>6, <1>7 DEF Next

-----------------------------------------------------------------------------
(* Headers, locals and answers of the object store keep their types, and   *)
(* no object grows past its size field.                                    *)
THEOREM ObjectStoreTypeCorrect == Spec => []TypeOK
  <1>1. Inv => TypeOK
    BY DEF Inv
  <1> QED BY <1>1, InitInv, NextInv, PTL DEF Spec

(* Whatever processes call, and wherever they die, a handle without the    *)
(* FREED mark in its header denotes a whole object.                        *)
THEOREM ObjectStoreUnmarkedIsWhole == Spec => []UnmarkedIsWhole
  <1>1. Inv => UnmarkedIsWhole
    BY DEF Inv
  <1> QED BY <1>1, InitInv, NextInv, PTL DEF Spec

\* Nobody reports the lock of the allocator before it is damaged.
DamageNoted == \A p \in Procs :
  pc[p] = "return" /\ answer[p] = "SYSTEM_ERROR" => AllocatorDamaged

\* The dead stay where they died.
LEMMA DamageStays ==
  ASSUME Inv, [Next]_vars, AllocatorDamaged
  PROVE  AllocatorDamaged'
  <1>1. PICK q \in crashed : InAllocator(q)
    BY DEF AllocatorDamaged
  <1>2. q \in Procs /\ q \in crashed' /\ pc'[q] = pc[q] /\ req'[q] = req[q]
    <2>1. CASE UNCHANGED vars
      BY <1>1, <2>1 DEF vars, Inv, TypeOK
    <2>2. CASE Next
      <3>1. PICK p \in Procs : \/ \E r \in Requests : Call(p, r)
                               \/ Alloc(p) \/ Resolve(p) \/ FreeObject(p)
                               \/ Return(p) \/ Crash(p)
        BY <2>2 DEF Next
      <3>2. CASE Crash(p)
        BY <1>1, <3>2 DEF Crash, Inv, TypeOK
      <3>3. CASE \E r \in Requests : Call(p, r)
        BY <1>1, <3>3
           DEF Call, CallAlloc, CallAccessor, CallFree, At, Goto, Inv, TypeOK
      <3>4. CASE Alloc(p)
        BY <1>1, <3>4
           DEF Alloc, AllocFail, AllocTake, StoreSize, StoreType, StoreFlags,
               Publish, Store, Deliver, At, Goto, Inv, TypeOK
      <3>5. CASE Resolve(p)
        BY <1>1, <3>5
           DEF Resolve, FindHeader, FindFlag, GetHeader, ReadSize, FindObject,
               FindFullFlag, Resolved, FindSpan, Check, Deliver, At, Goto, Inv,
               TypeOK
      <3>6. CASE FreeObject(p)
        BY <1>1, <3>6
           DEF FreeObject, Reread, MarkFreed, Poison, Release, ReleaseFails,
               Store, Deliver, At, Goto, Inv, TypeOK
      <3>7. CASE Return(p)
        BY <1>1, <3>7 DEF Return, At, Goto, Inv, TypeOK
      <3> QED BY <3>1, <3>2, <3>3, <3>4, <3>5, <3>6, <3>7
    <2> QED BY <2>1, <2>2
  <1> QED BY <1>1, <1>2 DEF AllocatorDamaged, InAllocator

LEMMA DamageNotedStep ==
  ASSUME Inv, [Next]_vars, DamageNoted
  PROVE  DamageNoted'
  <1> SUFFICES ASSUME NEW q \in Procs, pc'[q] = "return",
                      answer'[q] = "SYSTEM_ERROR", ~AllocatorDamaged
               PROVE  FALSE
    BY DamageStays DEF DamageNoted
  <1>1. ~(pc[q] = "return" /\ answer[q] = "SYSTEM_ERROR")
    BY DEF DamageNoted
  <1>2. PICK p \in Procs : \/ \E r \in Requests : Call(p, r)
                           \/ Alloc(p) \/ Resolve(p) \/ FreeObject(p)
                           \/ Return(p) \/ Crash(p)
    BY <1>1 DEF Next, vars
  <1> USE DEF Goto, Inv, TypeOK
  <1>3. CASE Crash(p)
    BY <1>1, <1>3 DEF Crash
  <1>4. CASE \E r \in Requests : Call(p, r)
    BY <1>1, <1>4 DEF Call, CallAlloc, CallAccessor, CallFree
  <1>5. CASE Alloc(p)
    BY <1>1, <1>5
       DEF Alloc, AllocFail, AllocTake, StoreSize, StoreType, StoreFlags,
           Publish, Store, Deliver
  <1>6. CASE Resolve(p)
    BY <1>1, <1>6
       DEF Resolve, FindHeader, FindFlag, GetHeader, ReadSize, FindObject,
           FindFullFlag, Resolved, FindSpan, Check, Deliver, Rejection
  <1>7. CASE FreeObject(p)
    BY <1>1, <1>7
       DEF FreeObject, Reread, MarkFreed, Poison, Release, ReleaseFails,
           Store, Deliver
  <1>8. CASE Return(p)
    BY <1>1, <1>8 DEF Return
  <1> QED BY <1>2, <1>3, <1>4, <1>5, <1>6, <1>7, <1>8

(* Accessors and object_store_free accept a handle that is good all along, *)
(* and turn down one whose object was freed and not replaced.  Only a free *)
(* after a death inside the allocator may fail, with SYSTEM_ERROR.         *)
THEOREM ObjectStoreHandlesTold == Spec => []HandlesTold
  <1>1. Init => DamageNoted
    BY DEF Init, DamageNoted
  <1>2. Inv /\ DamageNoted /\ [Next]_vars => DamageNoted'
    BY DamageNotedStep
  <1>3. Inv /\ DamageNoted => HandlesTold
    BY DEF Inv, SureFits, HandlesTold, DamageNoted
  <1> QED BY <1>1, <1>2, <1>3, InitInv, NextInv, PTL DEF Spec
============================================================================
