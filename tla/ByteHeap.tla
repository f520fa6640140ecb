-------------------------------- MODULE ByteHeap --------------------------------
(***************************************************************************)
(* What the heap of one thread promises about bytes, with no word about    *)
(* bins, bump pointers or what comes back when:                            *)
(*   - a request is answered with a block of its size, out of a chunk that *)
(*     hands out blocks of its alignment, or refused;                      *)
(*   - the blocks in use of a chunk fit into it, side by side;             *)
(*   - a chunk changes its alignment or goes elsewhere only when nothing   *)
(*     of it is in use.                                                    *)
(* ThreadHeap is shown to implement this specification.                    *)
(***************************************************************************)
EXTENDS Naturals, Functions

CONSTANTS
  Chunks,
  MemorySize,     \* size of each chunk
  Sizes,          \* sizes of requests
  Alignments,
  Padded(_, _)    \* the bytes a block of a size takes among blocks of an alignment

VARIABLES
  alignment,  \* of the blocks of each chunk, 0 while the heap has no use for it
  live,       \* how many blocks of each size clients hold in each chunk
  request     \* the request under way

vars == <<alignment, live, request>>

NoRequest == [size |-> 0, alignment |-> 0]

Init ==
  /\ alignment = [c \in Chunks |-> 0]
  /\ live = [c \in Chunks |-> [size \in Sizes |-> 0]]
  /\ request = NoRequest

InUse(c) == SumFunction([size \in Sizes |-> live[c][size] * Padded(size, alignment[c])])

Ask(size, a) ==
  /\ request = NoRequest
  /\ request' = [size |-> size, alignment |-> a]
  /\ UNCHANGED <<alignment, live>>

Refuse ==
  /\ request # NoRequest
  /\ request' = NoRequest
  /\ UNCHANGED <<alignment, live>>

\* A chunk nothing is in use of serves the alignment asked for from now on.
Map(c) ==
  /\ request # NoRequest
  /\ alignment[c] = 0
  /\ alignment' = [alignment EXCEPT ![c] = request.alignment]
  /\ UNCHANGED <<live, request>>

Answer(c) ==
  /\ request # NoRequest
  /\ alignment[c] = request.alignment
  /\ live' = [live EXCEPT ![c][request.size] = @ + 1]
  /\ InUse(c)' <= MemorySize[c]
  /\ request' = NoRequest
  /\ UNCHANGED alignment

Unmapped(c) == [alignment EXCEPT ![c] = 0]

Nothing(c) == \A size \in Sizes : live[c][size] = 0

\* A block is freed, by whatever thread; the last one of a chunk may take it along.
Free(c, size) ==
  /\ live[c][size] > 0
  /\ live' = [live EXCEPT ![c][size] = @ - 1]
  /\ \/ UNCHANGED alignment
     \/ alignment' = Unmapped(c) /\ Nothing(c)'
  /\ UNCHANGED request

Unmap(c) ==
  /\ Nothing(c)
  /\ alignment' = Unmapped(c)
  /\ UNCHANGED <<live, request>>

Next ==
  \/ \E size \in Sizes, a \in Alignments : Ask(size, a)
  \/ Refuse
  \/ \E c \in Chunks : Map(c) \/ Answer(c) \/ Unmap(c)
  \/ \E c \in Chunks, size \in Sizes : Free(c, size)

Spec == Init /\ [][Next]_vars
=============================================================================
