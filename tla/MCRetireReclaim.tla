-------------------------- MODULE MCRetireReclaim --------------------------
(* RetireReclaim with what TLC needs. *)
EXTENDS RetireReclaim, TLC

\* Neither the threads nor the arenas are told apart by the protocol.
Symmetry == Permutations(Threads) \cup Permutations(Arenas)
=============================================================================
