---------------------------- MODULE AbstractHeap ----------------------------
(***************************************************************************)
(* What allocator_alloc and allocator_free promise to the code above them: *)
(* memory is handed to one caller at a time and is not handed out again    *)
(* before somebody frees it.  Allocator is shown to implement this; the    *)
(* object store and the containers are built on it.                        *)
(*                                                                         *)
(* A cell is what one call to allocator_alloc returns.  Sizes are left     *)
(* out: every request fits every cell.                                     *)
(***************************************************************************)
EXTENDS Naturals, Sequences

CONSTANTS
  Procs,     \* processes that map the region
  Cells,
  Null       \* offset_ptr_null()

ASSUME CellsAssumption == Null \notin Cells

VARIABLES
  allocated, \* cells that belong to somebody
  given      \* cells the present call of each process has in hand, in order

HeapInit == allocated = {} /\ given = [p \in Procs |-> <<>>]

\* allocator_alloc returns cell c to a call of process p.
Allocate(p, c) ==
  /\ c \in Cells \ allocated
  /\ allocated' = allocated \cup {c}
  /\ given' = [given EXCEPT ![p] = Append(@, c)]

\* allocator_free(c).  The allocator knows no owners: whoever names an
\* allocated cell frees it, and the free of a free cell is turned down.
Free(c) == allocated' = allocated \ {c}

\* The call returns, or what it had in hand is now linked somewhere.
Settle(p) == given' = [given EXCEPT ![p] = <<>>] /\ UNCHANGED allocated

HeapNext == \E p \in Procs :
  \/ \E c \in Cells : Allocate(p, c) \/ (Free(c) /\ UNCHANGED given)
  \/ Settle(p)

HeapSpec == HeapInit /\ [][HeapNext]_<<allocated, given>>
=============================================================================
