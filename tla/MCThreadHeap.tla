----------------------------- MODULE MCThreadHeap -----------------------------
(***************************************************************************)
(* ThreadHeap on small chunks: alignments 1 and 2, small requests of up to *)
(* 2 bytes, bins of the step-split allocator for 1 .. 8 bytes.             *)
(***************************************************************************)
EXTENDS ThreadHeap, TLC

CONSTANTS
  LargeChunks   \* the chunks of the second region

MCMemorySize == [c \in Chunks |-> RegionSizes[IF c \in LargeChunks THEN 2 ELSE 1]]
MCRegionSizes == <<4, 8>>

\* Chunks of one region are alike.
Symmetry == Permutations(LargeChunks) \cup Permutations(Chunks \ LargeChunks)

===============================================================================
