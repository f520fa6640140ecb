------------------------------ MODULE FastArenas ------------------------------
(***************************************************************************)
(* The arenas of one thread-local allocator (fast_arena.hpp): one is made  *)
(* in a chunk of memory, blocks are cut off at its top, and it is reset    *)
(* when as many bytes have come back as were cut off.  Sizes and           *)
(* alignments are in bytes here, since alignment is what the bins and the  *)
(* checks of the arena are about; RetireReclaim follows the threads that   *)
(* race for the word `retired`.                                            *)
(***************************************************************************)
EXTENDS Integers, FiniteSets, SequencesExt

CONSTANTS
  Chunks,            \* chunks the arenas are made in
  NoChunk,           \* the null FastArena*
  MemorySize,        \* size of each chunk
  Sizes,             \* sizes of requests
  MinAlignmentLog2,  \* conf_fast_arena_min_alignment_log2
  MaxAlignmentLog2   \* conf_fast_arena_max_alignment_log2

\* intpow2, defined step by step because that is how it can be proved about.
IntPow2[n \in Nat] == IF n = 0 THEN 1 ELSE 2 * IntPow2[n - 1]

AlignmentIds == 0 .. MaxAlignmentLog2 - MinAlignmentLog2

\* get_alignment
AlignmentOf(id) == IntPow2[MinAlignmentLog2 + id]

Alignments == {AlignmentOf(id) : id \in AlignmentIds}

\* funcs.hpp, for values far enough from the end of the word
AlignUp(value, alignment) == ((value + alignment - 1) \div alignment) * alignment
IsAligned(value, alignment) == value % alignment = 0

ASSUME ChunkAssumption ==
  /\ IsFiniteSet(Chunks) /\ NoChunk \notin Chunks
  /\ MemorySize \in [Chunks -> Nat \ {0}]
ASSUME SizesAssumption == Sizes \subseteq Nat \ {0} /\ IsFiniteSet(Sizes)
ASSUME AlignmentAssumption ==
  /\ MinAlignmentLog2 \in Nat /\ MaxAlignmentLog2 \in Nat
  /\ MinAlignmentLog2 <= MaxAlignmentLog2
\* Chunk sizes are powers of two not below the largest alignment (conf.hpp).
ASSUME ChunkAlignmentAssumption ==
  \A c \in Chunks, a \in Alignments : IsAligned(MemorySize[c], a)

VARIABLES
  arena,   \* the FastArena in each chunk
  live     \* how many blocks of each size clients hold in each chunk

arenaVars == <<arena, live>>

\* locate_alignment, for alignments the allocators support
AlignmentId(alignment) == CHOOSE id \in AlignmentIds : AlignmentOf(id) = alignment

NoArena == [type |-> "none", alignment |-> 0, top |-> 0, freed |-> 0, retired |-> 0]

\* FastArenaView::create
NewArena(type, alignment) ==
  [type |-> type, alignment |-> alignment, top |-> 0, freed |-> 0, retired |-> 0]

Remaining(c) == MemorySize[c] - arena[c].top
CanAllocate(c, size) == AlignUp(size, arena[c].alignment) <= Remaining(c)
Resettable(a) == a.freed = a.top

\* What the operations make of an arena.  The words of retire_allocation and
\* release_reclaimed are taken as they are: the size passed, not the aligned one.
\* Wrong on purpose: the bump pointer moves by the size as passed.
Acquired_Unaligned(a, size) == [a EXCEPT !.top = @ + size]

Acquired(a, size) == [a EXCEPT !.top = @ + AlignUp(size, a.alignment)]

\* Wrong on purpose: the size is not aligned.
Released_Unaligned(a, size) == [a EXCEPT !.freed = @ + size]

Released(a, size) == [a EXCEPT !.freed = @ + AlignUp(size, a.alignment)]
Retired(a, size) == [a EXCEPT !.retired = @ + size]
Reclaimed(a) == [a EXCEPT !.freed = @ + a.retired, !.retired = 0]

\* The CUW3_CHECKs of release_reclaimed.
Reclaimable(a) == IsAligned(a.retired, a.alignment) /\ a.freed + a.retired <= a.top

\* A client comes by a block of the chunk, or parts with one.
Handed(c, size) == live' = [live EXCEPT ![c][size] = @ + 1]
TakenBack(c, size) == live[c][size] > 0 /\ live' = [live EXCEPT ![c][size] = @ - 1]

===============================================================================
