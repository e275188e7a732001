----------------------------- MODULE MCRingBuf -----------------------------
(* The ring buffer on small instances.                                     *)
EXTENDS RingBuf, TLC

\* Processes and elements are interchangeable.
Symmetry == Permutations(Procs) \cup Permutations(Values)
============================================================================
