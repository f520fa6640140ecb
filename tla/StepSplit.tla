------------------------------- MODULE StepSplit -------------------------------
(***************************************************************************)
(* The bins of the step-split allocator                                    *)
(* (fast_arena_step_split_allocator.hpp).  Sizes are cut into steps, whose *)
(* lengths double, and each step into as many splits; a bin holds the      *)
(* arenas whose room lies in one split.  A request is looked for from the  *)
(* first bin on whose arenas must all have room for it, so its size is     *)
(* rounded up where the room of an arena is rounded down.  In front of the *)
(* bins of each alignment there is one cached arena.                       *)
(***************************************************************************)
EXTENDS FastArenas

CONSTANTS
  NumSplitsLog2,   \* num_splits_log2
  MinStepLog2,     \* min_arena_step_size_log2
  MaxStepLog2      \* max_arena_step_size_log2

\* FastArenaBinsInfo::create, and that a step of one byte, which create() lets pass, is
\* not asked for (cuw3.cpp): there the offset of size zero in its step is below zero.
ASSUME StepAssumption ==
  /\ NumSplitsLog2 \in Nat /\ MinStepLog2 \in Nat /\ MaxStepLog2 \in Nat
  /\ NumSplitsLog2 <= MinStepLog2 /\ MinStepLog2 <= MaxStepLog2 /\ MinStepLog2 > 0
  /\ MaxAlignmentLog2 <= MaxStepLog2 + 1

VARIABLES
  split,       \* FastArenaBins::step_split_entries
  splitTotal   \* FastArenaBins::total_arenas

splitVars == <<split, splitTotal>>

NumSplits == IntPow2[NumSplitsLog2]
NumSteps == MaxStepLog2 - MinStepLog2 + 1
BinIds == 0 .. NumSplits * (NumSteps + 1)

MinAllocSize == IntPow2[MinStepLog2 - NumSplitsLog2]
MaxAllocSize == IntPow2[MaxStepLog2 + 1]

IntLog2(n) == IF n = 0 THEN 0 ELSE CHOOSE k \in 0 .. n : IntPow2[k] <= n /\ n < IntPow2[k + 1]

\* get_step_split_info: sizes below the first step belong to step zero, which is as
\* long as the first one.
StepLog2(size) == Max({MinStepLog2, Min({IntLog2(size), MaxStepLog2})})
InStepZero(size) == Min({IntLog2(size), MaxStepLog2}) < MinStepLog2
StepId(size) == IF InStepZero(size) THEN 0 ELSE StepLog2(size) - MinStepLog2 + 1
StepBase(size) == IF InStepZero(size) THEN 0 ELSE IntPow2[StepLog2(size)]
SplitSize(size) == IntPow2[StepLog2(size) - NumSplitsLog2]

StepSplitId(size, offset) ==
  LET splitId == ((size + offset - StepBase(size)) * NumSplits) \div IntPow2[StepLog2(size)]
  IN  StepId(size) * NumSplits + Min({splitId, NumSplits})

\* Wrong on purpose: an exact multiple is rounded up to the next split.
SizeBin_OffByOne(size) == StepSplitId(size, SplitSize(size))

\* Wrong on purpose: the room of an arena is rounded up like a size.
ArenaBin_RoundsUp(room) == StepSplitId(room, SplitSize(room) - 1)

\* locate_step_split_size, locate_step_split_arena
SizeBin(size) == StepSplitId(size, SplitSize(size) - 1)
ArenaBin(room) == StepSplitId(room, 0)

\* get_step_split_size of step_split_id_to_info: the least room in a bin.  The last
\* split of a step may be numbered as the first of the next.
BinBase(bin) ==
  LET step == bin \div NumSplits
      log2 == IF step = 0 THEN MinStepLog2 ELSE MinStepLog2 + step - 1
  IN  (IF step = 0 THEN 0 ELSE IntPow2[log2]) + (bin % NumSplits) * IntPow2[log2 - NumSplitsLog2]

\* min_step_split_id, min_alloc_size of an alignment
MinBin(id) == SizeBin(AlignUp(MinAllocSize, AlignmentOf(id)))
MinAllocOf(id) == BinBase(MinBin(id))

\* locate_step_split_size_clamped, locate_step_split_arena_clamped: bin zero holds
\* what is too small for the alignment.
SizeBinClamped(id, size) == Max({SizeBin(size), MinBin(id)})
ArenaBinClamped(id, room) == IF ArenaBin(room) < MinBin(id) THEN 0 ELSE ArenaBin(room)

EmptySplitEntry ==
  [cached |-> NoChunk, arenas |-> [bin \in BinIds |-> <<>>], present |-> {}]

SplitInit ==
  /\ split = [id \in AlignmentIds |-> EmptySplitEntry]
  /\ splitTotal = 0

CachedServes(id, sizeAligned) ==
  split[id].cached # NoChunk /\ sizeAligned <= Remaining(split[id].cached)

\* get_first_set looks at the bits from the given one on.
BinsFrom(id, bin) == {b \in split[id].present : b >= bin}

AcquireCached(sizeAligned, id, c) ==
  /\ CachedServes(id, sizeAligned)
  /\ c = split[id].cached
  /\ split' = [split EXCEPT ![id].cached = NoChunk]

AcquireBin(sizeAligned, id, c) ==
  /\ ~CachedServes(id, sizeAligned)
  /\ LET bins == BinsFrom(id, SizeBinClamped(id, sizeAligned))
         bin == Min(bins)
         list == split[id].arenas[bin]
     IN  /\ bins # {}
         /\ c = Head(list)
         /\ split' = [split EXCEPT ![id].arenas[bin] = Tail(list),
                                   ![id].present = IF Len(list) = 1 THEN @ \ {bin} ELSE @]

\* acquire_arena: an arena for the request, taken out of the bins.
SplitAcquire(size, id, c) ==
  /\ AlignUp(size, AlignmentOf(id)) <= MaxAllocSize
  /\ \/ AcquireCached(AlignUp(size, AlignmentOf(id)), id, c)
     \/ AcquireBin(AlignUp(size, AlignmentOf(id)), id, c)
  /\ splitTotal' = splitTotal - 1

\* NoResource
SplitMiss(size, id) ==
  LET sizeAligned == AlignUp(size, AlignmentOf(id))
  IN  /\ sizeAligned <= MaxAllocSize
      /\ ~CachedServes(id, sizeAligned)
      /\ BinsFrom(id, SizeBinClamped(id, sizeAligned)) = {}
      /\ UNCHANGED splitVars

\* put_arena_: the bit is set by the first arena of a list only.
PutSplit(entry, id, c, room) ==
  LET bin == ArenaBinClamped(id, room)
  IN  [entry EXCEPT !.arenas[bin] = <<c>> \o @,
                    !.present = IF entry.arenas[bin] = <<>> THEN @ \cup {bin} ELSE @]

\* Wrong on purpose: the arena that made way is put where the new one would be.
SplitReleased_WrongRoom(entry, id, c, room) ==
  IF entry.cached = NoChunk THEN [entry EXCEPT !.cached = c]
  ELSE IF room >= 2 * Remaining(entry.cached)
       THEN PutSplit([entry EXCEPT !.cached = c], id, entry.cached, room)
       ELSE PutSplit(entry, id, c, room)

\* release_arena_: the cached arena makes way for one with twice its room.
SplitReleased(entry, id, c, room) ==
  IF entry.cached = NoChunk THEN [entry EXCEPT !.cached = c]
  ELSE IF room >= 2 * Remaining(entry.cached)
       THEN PutSplit([entry EXCEPT !.cached = c], id, entry.cached, Remaining(entry.cached))
       ELSE PutSplit(entry, id, c, room)

\* Wrong on purpose: the bit stays.
SplitExtracted_KeepBit(entry, id, c) ==
  IF entry.cached = c THEN [entry EXCEPT !.cached = NoChunk]
  ELSE [entry EXCEPT !.arenas = [b \in BinIds |-> RemoveFirst(entry.arenas[b], c)]]

\* extract_arena: the arena is unlinked from the list it is in, and the bit of the
\* bin its room points to is cleared if that bin is empty then.
SplitExtracted(entry, id, c) ==
  IF entry.cached = c THEN [entry EXCEPT !.cached = NoChunk]
  ELSE LET bin == ArenaBinClamped(id, Remaining(c))
           arenas == [b \in BinIds |-> RemoveFirst(entry.arenas[b], c)]
       IN  [entry EXCEPT !.arenas = arenas,
                         !.present = IF arenas[bin] = <<>> THEN @ \ {bin} ELSE @]

-----------------------------------------------------------------------------
(* What the classification should be, said without logarithms: the bins    *)
(* of an alignment cut the sizes at their bases, from the first that is    *)
(* used; an arena belongs to the last bin whose base its room reaches, a   *)
(* request to the first whose base reaches it.                             *)

\* The sizes of requests that are looked for from the wrong bin on.
WrongSizes ==
  [id \in AlignmentIds |->
    {size \in 0 .. MaxAllocSize :
      LET bin == SizeBinClamped(id, size)
          need == Max({size, MinAllocOf(id)})
      IN  ~ /\ bin \in BinIds /\ BinBase(bin) >= need
            /\ \A b \in BinIds : b < bin => BinBase(b) < need}]

\* The rooms of arenas that are put in the wrong bin.
WrongRooms ==
  [id \in AlignmentIds |->
    {room \in 0 .. 2 * MaxAllocSize :
      LET bin == ArenaBinClamped(id, room)
      IN  ~ IF room < MinAllocOf(id) THEN bin = 0
            ELSE /\ bin \in BinIds /\ BinBase(bin) <= room
                 /\ \A b \in BinIds : b > bin => room < BinBase(b)}]

\* For every alignment that has bins: each arena in the bin of a request or a later
\* one has room for it, no bin is left out that holds only such arenas, and all sizes
\* have a bin (get_step_split_info, step_split_id_to_info).
ClassesMeet ==
  \A id \in DOMAIN split :
    /\ DOMAIN split[id].arenas = BinIds
    /\ WrongSizes[id] = {} /\ WrongRooms[id] = {}

===============================================================================
