------------------------- MODULE MCRegionDirectory -------------------------
(* The region directory on small instances.                                *)
EXTENDS RegionDirectory

\* One process makes two calls, the others one each.
TwoAndOne == [p \in Procs |-> IF p = CHOOSE q \in Procs : TRUE THEN 2 ELSE 1]
OneEach == [p \in Procs |-> 1]
============================================================================
