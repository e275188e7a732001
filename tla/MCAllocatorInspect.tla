------------------------ MODULE MCAllocatorInspect ------------------------
(* The unlocked readers beside a few allocator threads.                    *)
EXTENDS AllocatorInspect, TLC

Symmetry == Permutations(Threads)
============================================================================
