----------------------------- MODULE MCChunkPool -----------------------------
(* ChunkPool with what TLC needs. *)
EXTENDS ChunkPool, TLC

\* The pools do not tell threads apart.
Symmetry == Permutations(Threads)
=============================================================================
