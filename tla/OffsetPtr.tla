----------------------------- MODULE OffsetPtr -----------------------------
(***************************************************************************)
(* src/core/offset_ptr.c: what is shared is an offset from the base of the *)
(* region; what a process works with is an address in its own mapping.     *)
(* Addresses, offsets and sizes are 64-bit words: sums are modulo Word.    *)
(***************************************************************************)
EXTENDS Integers

CONSTANT Word      \* UINT64_MAX + 1

Words == 0 .. Word - 1

\* offset_ptr_null() is offset 0, and NULL address 0.
NullOffset == 0

offset_ptr_is_in_bounds(size, offset, span) ==
  /\ offset # NullOffset
  /\ offset < size
  /\ span <= size - offset

\* The address, or 0.
offset_ptr_try_resolve(base, size, offset, span) ==
  IF base # 0 /\ offset_ptr_is_in_bounds(size, offset, span)
  THEN (base + offset) % Word
  ELSE 0

\* The offset, or null.
offset_ptr_try_from_raw(base, size, address) ==
  LET end == (base + size) % Word IN
  IF /\ base # 0 /\ address # 0
     /\ ~(end < base) /\ ~(address < base) /\ ~(address >= end)
  THEN (address - base) % Word
  ELSE NullOffset

\* A region mapped at base, all of it below the top of the address space.
Mapped(base, size) == base \in Nat \ {0} /\ size \in Nat /\ base + size < Word
============================================================================
