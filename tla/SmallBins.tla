------------------------------- MODULE SmallBins -------------------------------
(***************************************************************************)
(* The bins of the small allocator (fast_arena_small_allocator.hpp).  For  *)
(* each alignment there is a current arena and three lists: arenas with    *)
(* room for any small request, arenas with less, and arenas given up.  An  *)
(* arena from the first list is handed out without looking at its room.    *)
(* All of it is used by the owner of the allocator alone; every operation  *)
(* of the bins is one step.                                                *)
(***************************************************************************)
EXTENDS FastArenas

CONSTANTS
  CutoffConfig   \* FastArenaSmallBinsConfig::size_cutoff

ASSUME CutoffAssumption == CutoffConfig \in Nat \ {0}

VARIABLES
  small,       \* FastArenaSmallBins::bins
  smallTotal   \* FastArenaSmallBins::total_arenas

smallVars == <<small, smallTotal>>

\* FastArenaSmallBins::create
SizeCutoff == AlignUp(CutoffConfig, IntPow2[MaxAlignmentLog2])

EmptySmallBin == [current |-> NoChunk, free |-> <<>>, cutoff |-> <<>>, recycled |-> <<>>]

SmallInit ==
  /\ small = [id \in AlignmentIds |-> EmptySmallBin]
  /\ smallTotal = 0

WorthKeeping(c, size) == size <= 2 * Remaining(c)

\* acquire, the first step: what becomes of a current arena without room.
DropCurrent(bin, size) ==
  IF bin.current # NoChunk /\ ~WorthKeeping(bin.current, size)
  THEN [bin EXCEPT !.current = NoChunk, !.recycled = <<bin.current>> \o @]
  ELSE bin

CurrentServes(bin, size) == bin.current # NoChunk /\ CanAllocate(bin.current, size)
CutoffServes(bin, size) == bin.cutoff # <<>> /\ CanAllocate(Head(bin.cutoff), size)

\* acquire, the last step: only the first arena of the list is looked at.
DropCutoffHead(bin, size) ==
  IF bin.cutoff # <<>> /\ ~WorthKeeping(Head(bin.cutoff), size)
  THEN [bin EXCEPT !.cutoff = Tail(@), !.recycled = <<Head(bin.cutoff)>> \o @]
  ELSE bin

AcquireCurrent(size, id, c) ==
  /\ CurrentServes(small[id], size)
  /\ c = small[id].current
  /\ small' = [small EXCEPT ![id].current = NoChunk]

AcquireFree(size, id, c) ==
  /\ ~CurrentServes(small[id], size)
  /\ small[id].free # <<>>
  /\ c = Head(small[id].free)
  /\ small' = [small EXCEPT ![id] = [DropCurrent(@, size) EXCEPT !.free = Tail(small[id].free)]]

AcquireCutoff(size, id, c) ==
  /\ ~CurrentServes(small[id], size)
  /\ small[id].free = <<>>
  /\ CutoffServes(small[id], size)
  /\ c = Head(small[id].cutoff)
  /\ small' = [small EXCEPT ![id] = [DropCurrent(@, size) EXCEPT !.cutoff = Tail(small[id].cutoff)]]

\* An arena for the request, taken out of the bins.
SmallAcquire(size, id, c) ==
  /\ \/ AcquireCurrent(size, id, c)
     \/ AcquireFree(size, id, c)
     \/ AcquireCutoff(size, id, c)
  /\ smallTotal' = smallTotal - 1

\* Wrong on purpose: the count goes down before the answer is looked at.
SmallMiss_Counts(size, id) ==
  /\ ~CurrentServes(small[id], size)
  /\ small[id].free = <<>>
  /\ ~CutoffServes(small[id], size)
  /\ small' = [small EXCEPT ![id] = DropCutoffHead(DropCurrent(@, size), size)]
  /\ smallTotal' = smallTotal - 1

\* NoResource: no list has an arena for the request, or it was not looked at.
SmallMiss(size, id) ==
  /\ ~CurrentServes(small[id], size)
  /\ small[id].free = <<>>
  /\ ~CutoffServes(small[id], size)
  /\ small' = [small EXCEPT ![id] = DropCutoffHead(DropCurrent(@, size), size)]
  /\ UNCHANGED smallTotal

PutSmall(bin, c, room) ==
  IF room >= SizeCutoff THEN [bin EXCEPT !.free = <<c>> \o @]
                        ELSE [bin EXCEPT !.cutoff = <<c>> \o @]

\* Wrong on purpose: the larger arena is made current, the other one forgotten.
SmallReleased_Forgets(bin, c, room) ==
  IF bin.current = NoChunk \/ room > 2 * Remaining(bin.current)
  THEN [bin EXCEPT !.current = c]
  ELSE PutSmall(bin, c, room)

\* Wrong on purpose: the arena that made way is filed by the room of the other one.
SmallReleased_WrongRoom(bin, c, room) ==
  IF bin.current = NoChunk THEN [bin EXCEPT !.current = c]
  ELSE IF room > 2 * Remaining(bin.current)
       THEN PutSmall([bin EXCEPT !.current = c], bin.current, room)
       ELSE PutSmall(bin, c, room)

\* release: `room` is what is left in c, which may have changed since it was taken.
SmallReleased(bin, c, room) ==
  IF bin.current = NoChunk THEN [bin EXCEPT !.current = c]
  ELSE IF room > 2 * Remaining(bin.current)
       THEN PutSmall([bin EXCEPT !.current = c], bin.current, Remaining(bin.current))
       ELSE PutSmall(bin, c, room)

\* extract: list_erase takes the arena out of whichever list it is in.
SmallExtracted(bin, c) ==
  IF bin.current = c THEN [bin EXCEPT !.current = NoChunk]
  ELSE [bin EXCEPT !.free = RemoveFirst(@, c), !.cutoff = RemoveFirst(@, c), !.recycled = RemoveFirst(@, c)]

===============================================================================
