------------------------- MODULE MCRegionLifecycle -------------------------
(* The life of a store on small instances.                                 *)
EXTENDS RegionLifecycle, TLC

\* Processes and regions are interchangeable.
Symmetry == Permutations(Procs) \cup Permutations(Regions)
============================================================================
