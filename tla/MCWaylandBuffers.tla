--------------------------- MODULE MCWaylandBuffers ----------------------------
(* WaylandBuffers for TLC: two sizes, three buffers and two resizes.       *)
EXTENDS WaylandBuffers, TLC

Symmetry == Permutations(Sizes) \cup Permutations(Buffers)
================================================================================
