--------------------------- MODULE MCObjectStore ---------------------------
(* The object store on a small instance.                                   *)
EXTENDS ObjectStore, TLC

\* Each process maps the region somewhere else.
MCBase == [p \in Procs |-> IF p = CHOOSE q \in Procs : TRUE THEN 2 ELSE 9]
============================================================================
