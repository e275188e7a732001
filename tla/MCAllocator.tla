---------------------------- MODULE MCAllocator ----------------------------
(* Instances of Allocator for TLC: lengths in units of 8 bytes, so that    *)
(* header, prefix and alignment are those of the x86-64 build.             *)
EXTENDS Allocator, TLC

Symmetry == Permutations(Threads)
============================================================================
