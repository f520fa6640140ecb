-------------------------- MODULE MCChunkPoolRounds --------------------------
(* ChunkPoolRounds with what TLC needs. *)
EXTENDS ChunkPoolRounds, TLC

\* attempts and rounds of this value never run out.
NoLimit == -1

\* The pools do not tell threads apart.
Symmetry == Permutations(Threads)
=============================================================================
