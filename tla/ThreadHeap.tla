------------------------------- MODULE ThreadHeap -------------------------------
(***************************************************************************)
(* The heap of one thread (allocator.hpp, thread_local_allocator.hpp): the *)
(* small and the step-split allocator over the arenas, and under them the  *)
(* chunks, which come from the pools all threads share or from the thread's*)
(* cache of chunks it no longer needed.  The owner's calls are made of the *)
(* steps below; between any two of them other threads may retire blocks.   *)
(* Arenas are created with their flag down, as retire_reclaim.hpp means    *)
(* them to be: every arena with retired blocks is reclaimed some day.      *)
(***************************************************************************)
EXTENDS SmallBins, StepSplit

CONSTANTS
  RegionSizes,       \* chunk sizes of the regions, ascending
  MaxCachedRegion,   \* conf_max_cached_chunk_size_id, counted from 1
  RetireUnaligned,   \* do other threads free blocks whose size is not aligned?
  RetireLimit,       \* bound on the bytes that wait to be reclaimed
  StorageLimit       \* bound on total_chunk_storage_size

Regions == 1 .. Len(RegionSizes)

ASSUME RegionAssumption ==
  /\ RegionSizes \in Seq(Nat) /\ RegionSizes # <<>>
  /\ \A r, s \in Regions : r < s => RegionSizes[r] < RegionSizes[s]
  /\ \A c \in Chunks : \E r \in Regions : MemorySize[c] = RegionSizes[r]
ASSUME BoundAssumption ==
  /\ MaxCachedRegion \in Regions /\ RetireLimit \in Nat /\ StorageLimit \in Nat
  /\ RetireUnaligned \in BOOLEAN

VARIABLES
  hand,    \* allocate: the request under way, and the arena taken for it
  pool,    \* chunks in the pools of the regions
  cache,   \* ThreadLocalAllocator::cached_chunks
  storage, \* ThreadLocalAllocator::total_chunk_storage_size
  lost     \* chunks of arenas that a reclaim emptied; nobody gives them back

chunkVars == <<pool, cache, storage, lost>>
vars == <<arenaVars, smallVars, splitVars, hand, chunkVars>>

RegionOf(c) == CHOOSE r \in Regions : RegionSizes[r] = MemorySize[c]

NoRequest == [size |-> 0, alignment |-> 0, arena |-> NoChunk]
Requests == [size : Sizes, alignment : Alignments, arena : Chunks \cup {NoChunk}]

\* Allocator::allocate leaves small sizes to the small allocator.
TypeFor(size) == IF size <= SizeCutoff THEN "small" ELSE "split"

Init ==
  /\ arena = [c \in Chunks |-> NoArena]
  /\ live = [c \in Chunks |-> [size \in Sizes |-> 0]]
  /\ SmallInit
  /\ SplitInit
  /\ hand = NoRequest
  /\ pool = Chunks
  /\ cache = [r \in Regions |-> NoChunk]
  /\ storage = 0
  /\ lost = {}

-----------------------------------------------------------------------------
(* allocate: take an arena out of the bins or make one, cut the block off, *)
(* put the arena back.                                                     *)

\* acquire() of the allocator in charge; NoChunk stands for NoResource.  What it
\* refuses (Failed) changes nothing.
Acquire(size, alignment, c) ==
  /\ hand = NoRequest
  /\ LET id == AlignmentId(alignment)
     IN  \/ /\ TypeFor(size) = "small"
            /\ \/ SmallAcquire(size, id, c)
               \/ c = NoChunk /\ SmallMiss(size, id)
            /\ UNCHANGED splitVars
         \/ /\ TypeFor(size) = "split"
            /\ \/ SplitAcquire(size, id, c)
               \/ c = NoChunk /\ SplitMiss(size, id)
            /\ UNCHANGED smallVars
  /\ hand' = [size |-> size, alignment |-> alignment, arena |-> c]
  /\ UNCHANGED <<arenaVars, chunkVars>>

NeedsArena == hand # NoRequest /\ hand.arena = NoChunk

\* allocate_chunk_: a thread that has much asks for large chunks.
Demand == Max({AlignUp(hand.size, hand.alignment),
               Min({RegionSizes[Len(RegionSizes)], storage})})

\* search_suitable_region, and the regions tried after it
SuitableRegions == {r \in Regions : Demand <= RegionSizes[r]}

CachedRegions == {r \in SuitableRegions : r <= MaxCachedRegion /\ cache[r] # NoChunk}

\* construct_arena_
Construct(c) ==
  /\ arena' = [arena EXCEPT ![c] = NewArena(TypeFor(hand.size), hand.alignment)]
  /\ hand' = [hand EXCEPT !.arena = c]
  /\ UNCHANGED <<live, smallVars, splitVars, lost>>

TakeCachedChunk ==
  /\ NeedsArena /\ CachedRegions # {}
  /\ LET r == Min(CachedRegions)
     IN  Construct(cache[r]) /\ cache' = [cache EXCEPT ![r] = NoChunk]
  /\ UNCHANGED <<pool, storage>>

\* What the pools give depends on the other threads; a region may look empty though
\* it is not (NullIsGenuine), so that any suitable region may be the one.
CanTakeFresh(c) ==
  /\ NeedsArena /\ CachedRegions = {}
  /\ c \in pool /\ RegionOf(c) \in SuitableRegions
  /\ storage + MemorySize[c] <= StorageLimit

TakeFreshChunk(c) ==
  /\ CanTakeFresh(c)
  /\ pool' = pool \ {c}
  /\ storage' = storage + MemorySize[c]
  /\ Construct(c)
  /\ UNCHANGED cache

\* The commit fails: the chunk goes back, the count stays up, the call returns null.
CommitFails(c) ==
  /\ CanTakeFresh(c)
  /\ storage' = storage + MemorySize[c]
  /\ hand' = NoRequest
  /\ UNCHANGED <<arenaVars, smallVars, splitVars, pool, cache, lost>>

OutOfMemory ==
  /\ NeedsArena /\ CachedRegions = {}
  /\ hand' = NoRequest
  /\ UNCHANGED <<arenaVars, smallVars, splitVars, chunkVars>>

\* The arena goes to the bins of its allocator, for what room it has then.
SmallPut(c, id, room) ==
  /\ arena[c].type = "small"
  /\ small' = [small EXCEPT ![id] = SmallReleased(@, c, room)]
  /\ smallTotal' = smallTotal + 1
  /\ UNCHANGED splitVars

SplitPut(c, id, room) ==
  /\ arena[c].type = "split"
  /\ split' = [split EXCEPT ![id] = SplitReleased(@, id, c, room)]
  /\ splitTotal' = splitTotal + 1
  /\ UNCHANGED smallVars

\* allocate() of the allocator the arena belongs to.  That the arena has room is a
\* CUW3_CHECK in the code.
Allocate ==
  LET c == hand.arena
      id == AlignmentId(arena[c].alignment)
      now == Acquired(arena[c], hand.size)
      room == MemorySize[c] - now.top
  IN  /\ c # NoChunk
      /\ CanAllocate(c, hand.size)
      /\ arena' = [arena EXCEPT ![c] = now]
      /\ Handed(c, hand.size)
      /\ SmallPut(c, id, room) \/ SplitPut(c, id, room)
      /\ hand' = NoRequest
      /\ UNCHANGED chunkVars

-----------------------------------------------------------------------------
(* deallocate and reclaim, between two calls of allocate.                  *)

\* The arena leaves the bins of its allocator.
SmallExtract(c, id) ==
  /\ arena[c].type = "small"
  /\ small' = [small EXCEPT ![id] = SmallExtracted(@, c)]
  /\ smallTotal' = smallTotal - 1
  /\ UNCHANGED splitVars

SplitExtract(c, id) ==
  /\ arena[c].type = "split"
  /\ split' = [split EXCEPT ![id] = SplitExtracted(@, id, c)]
  /\ splitTotal' = splitTotal - 1
  /\ UNCHANGED smallVars

Extract(c) ==
  LET id == AlignmentId(arena[c].alignment)
  IN  SmallExtract(c, id) \/ SplitExtract(c, id)

\* The arena leaves the bins and comes back, which may be to another place.
SmallRefile(c, id) ==
  /\ arena[c].type = "small"
  /\ small' = [small EXCEPT ![id] = SmallReleased(SmallExtracted(@, c), c, Remaining(c))]
  /\ UNCHANGED <<smallTotal, splitVars>>

SplitRefile(c, id) ==
  /\ arena[c].type = "split"
  /\ split' = [split EXCEPT ![id] = SplitReleased(SplitExtracted(@, id, c), id, c, Remaining(c))]
  /\ UNCHANGED <<splitTotal, smallVars>>

\* Wrong on purpose: the slot is taken whether it is free or not.
CacheOrReturn_Overwrite(c) ==
  cache' = [cache EXCEPT ![RegionOf(c)] = c] /\ UNCHANGED <<pool, storage>>

\* Wrong on purpose: the bytes of a chunk that is kept are taken off the count.
CacheOrReturn_Uncount(c) ==
  LET r == RegionOf(c)
  IN  /\ storage' = storage - MemorySize[c]
      /\ IF r <= MaxCachedRegion /\ cache[r] = NoChunk
         THEN cache' = [cache EXCEPT ![r] = c] /\ UNCHANGED pool
         ELSE pool' = pool \cup {c} /\ UNCHANGED cache

\* deallocate_chunk_
CacheOrReturn(c) ==
  LET r == RegionOf(c)
  IN  IF r <= MaxCachedRegion /\ cache[r] = NoChunk
      THEN cache' = [cache EXCEPT ![r] = c] /\ UNCHANGED <<pool, storage>>
      ELSE pool' = pool \cup {c} /\ storage' = storage - MemorySize[c] /\ UNCHANGED cache

\* deallocate_owner_: the owner frees a block of its own.
Free(c, size) ==
  LET now == Released(arena[c], size)
  IN  /\ hand = NoRequest
      /\ TakenBack(c, size)
      /\ \/ /\ ~Resettable(now)
            /\ arena' = [arena EXCEPT ![c] = now]
            /\ UNCHANGED <<smallVars, splitVars, pool, cache, storage>>
         \/ /\ Resettable(now)
            /\ Extract(c)
            /\ arena' = [arena EXCEPT ![c] = NoArena]
            /\ CacheOrReturn(c)
      /\ UNCHANGED <<hand, lost>>

\* deallocate_non_owner_: another thread frees a block.
Retire(c, size) ==
  /\ TakenBack(c, size)
  /\ RetireUnaligned \/ IsAligned(size, arena[c].alignment)
  /\ SumFunction([d \in Chunks |-> arena[d].retired]) + size <= RetireLimit
  /\ arena' = [arena EXCEPT ![c] = Retired(@, size)]
  /\ UNCHANGED <<smallVars, splitVars, hand, chunkVars>>

\* reclaim of an arena some thread retired blocks of; of an arena that is empty
\* then, nobody gives the chunk back.
Reclaim(c) ==
  LET now == Reclaimed(arena[c])
      id == AlignmentId(arena[c].alignment)
  IN  /\ hand = NoRequest
      /\ arena[c].retired > 0 /\ Reclaimable(arena[c])
      /\ \/ /\ Resettable(now)
            /\ Extract(c)
            /\ arena' = [arena EXCEPT ![c] = NoArena]
            /\ lost' = lost \cup {c}
         \/ /\ ~Resettable(now)
            /\ SmallRefile(c, id) \/ SplitRefile(c, id)
            /\ arena' = [arena EXCEPT ![c] = now]
            /\ UNCHANGED lost
      /\ UNCHANGED <<live, hand, pool, cache, storage>>

\* free_tla_resources, by a thread that cleans up the TLA while it is in the
\* graveyard; if it is not empty it may be adopted later, as it is.
FreeTlaResources ==
  /\ hand = NoRequest
  /\ \E r \in Regions : cache[r] # NoChunk
  /\ pool' = pool \cup {cache[r] : r \in {r \in Regions : cache[r] # NoChunk}}
  /\ cache' = [r \in Regions |-> NoChunk]
  /\ UNCHANGED <<arenaVars, smallVars, splitVars, hand, storage, lost>>

Next ==
  \/ \E size \in Sizes, alignment \in Alignments, c \in Chunks \cup {NoChunk} :
       Acquire(size, alignment, c)
  \/ TakeCachedChunk
  \/ OutOfMemory
  \/ Allocate
  \/ FreeTlaResources
  \/ \E c \in Chunks : TakeFreshChunk(c) \/ CommitFails(c) \/ Reclaim(c)
  \/ \E c \in Chunks, size \in Sizes : Free(c, size) \/ Retire(c, size)

Spec == Init /\ [][Next]_vars

-----------------------------------------------------------------------------
(* Properties.                                                             *)

ArenaTypes == {"none", "small", "split"}

ArenaOK(c) ==
  /\ arena[c].type \in ArenaTypes
  /\ arena[c].alignment \in Alignments \cup {0}
  /\ {arena[c].top, arena[c].freed, arena[c].retired} \subseteq 0 .. MemorySize[c]

\* Types; a block is cut off inside its chunk, and no more comes back than was cut
\* off (acquire, release of FastArenaView).
TypeOK ==
  /\ DOMAIN arena = Chunks /\ \A c \in Chunks : ArenaOK(c)
  /\ live \in [Chunks -> [Sizes -> Nat]]
  /\ hand \in Requests \cup {NoRequest}
  /\ pool \subseteq Chunks /\ lost \subseteq Chunks
  /\ cache \in [Regions -> Chunks \cup {NoChunk}]
  /\ storage \in 0 .. StorageLimit
  /\ smallTotal \in Nat /\ splitTotal \in Nat

Listed(lists) == UNION {ToSet(lists[l]) : l \in DOMAIN lists}

\* A bin holds a set of arenas: each once, in one of its lists or alone in front.
HoldsOnce(lists, front, set) ==
  /\ \A l \in DOMAIN lists : IsInjective(lists[l]) /\ front \notin ToSet(lists[l])
  /\ \A l, m \in DOMAIN lists : l # m => ToSet(lists[l]) \cap ToSet(lists[m]) = {}
  /\ set = (Listed(lists) \cup {front}) \ {NoChunk}

SmallLists(bin) == [list \in {"free", "cutoff", "recycled"} |-> bin[list]]

\* The arenas that should be in the bins of an alignment: all but the one in hand.
Filed(type, id) ==
  {c \in Chunks : /\ arena[c].type = type /\ AlignmentId(arena[c].alignment) = id
                  /\ hand.arena # c}

Cached == {cache[r] : r \in Regions} \ {NoChunk}

\* A chunk is in one place: with an arena, which is in one list of its own
\* allocator's bins for its own alignment or in hand, or without one, in the pools,
\* in the slot of its region in the cache, or lost.  The lists are intrusive, so an
\* arena that is in two of them tears both (put_arena, FastArenaSmallBin::release,
\* deallocate_chunk_).
ChunkOnce ==
  /\ \A id \in AlignmentIds :
       /\ HoldsOnce(SmallLists(small[id]), small[id].current, Filed("small", id))
       /\ HoldsOnce(split[id].arenas, split[id].cached, Filed("split", id))
  /\ hand.arena # NoChunk => arena[hand.arena].type # "none"
  /\ {c \in Chunks : arena[c].type = "none"} = pool \cup Cached \cup lost
  /\ pool \cap Cached = {} /\ pool \cap lost = {} /\ Cached \cap lost = {}
  /\ \A r \in Regions : cache[r] # NoChunk => RegionOf(cache[r]) = r

\* An arena is where its room says, all the time it is filed: a bin of the step-split
\* allocator holds the arenas of its class and its bit says whether there are any, the
\* lists of the small allocator are told apart by the cutoff.  extract_arena and
\* acquire_bin_arena look for arenas by their room; nothing moves them when a block
\* comes back.
FiledByRoom ==
  \A id \in AlignmentIds :
    /\ \A bin \in BinIds :
         /\ \A c \in ToSet(split[id].arenas[bin]) : ArenaBinClamped(id, Remaining(c)) = bin
         /\ bin \in split[id].present <=> split[id].arenas[bin] # <<>>
    /\ \A c \in ToSet(small[id].free) : Remaining(c) >= SizeCutoff
    /\ \A c \in ToSet(small[id].cutoff \o small[id].recycled) : Remaining(c) < SizeCutoff

\* total_arenas counts what is filed: a TLA is destroyed when both counts are zero
\* (empty(), cuw3.cpp), whatever is in its bins.
TotalsCount ==
  LET filed(type) == {c \in Chunks : arena[c].type = type /\ hand.arena # c}
  IN  smallTotal = Cardinality(filed("small")) /\ splitTotal = Cardinality(filed("split"))

\* The arena taken for a request has room for it and its alignment, though acquire()
\* of the small allocator does not look at the arenas of its first list and the
\* step-split allocator goes by the bin alone: allocate() aborts otherwise.
RequestFits ==
  hand.arena # NoChunk =>
    /\ arena[hand.arena].alignment = hand.alignment
    /\ arena[hand.arena].type = TypeFor(hand.size)
    /\ CanAllocate(hand.arena, hand.size)

\* What an arena must have left to be found for a request at any rate.
RoomFor(size, id) ==
  IF TypeFor(size) = "small" THEN SizeCutoff
  ELSE Min({BinBase(bin) : bin \in {b \in BinIds :
              BinBase(b) >= AlignUp(size, AlignmentOf(id)) /\ BinBase(b) >= MinAllocOf(id)}})

\* A chunk is asked for only when no arena of the alignment has the room of a whole
\* class left (acquire_arena), or of the cutoff (FastArenaSmallBin::acquire).
NothingMissed ==
  NeedsArena =>
    LET id == AlignmentId(hand.alignment)
    IN  \A c \in Chunks :
          arena[c].type = TypeFor(hand.size) /\ arena[c].alignment = hand.alignment
            => Remaining(c) < RoomFor(hand.size, id)

LiveBytes(c) ==
  IF arena[c].type = "none" THEN SumFunction(live[c])
  ELSE SumFunction([size \in Sizes |-> live[c][size] * AlignUp(size, arena[c].alignment)])

\* What was cut off an arena has come back, waits to be reclaimed, or is in use; so
\* an arena is reset, and its chunk given away, when nothing of it is in use
\* (release, release_reclaimed, reset of FastArenaView).
BytesAccounted ==
  \A c \in Chunks : arena[c].top = arena[c].freed + arena[c].retired + LiveBytes(c)

HeldBytes == SumFunctionOnSet(MemorySize, Chunks \ pool)

\* total_chunk_storage_size is never below what the thread has: it is taken off again
\* chunk by chunk, and below zero it would wrap (deallocate_chunk_).
StorageCovers == storage >= HeldBytes

\* "we will keep track of total amount of allocated chunks" (allocator.hpp:165)
StorageCounts == storage = HeldBytes

\* "size is not aligned" (fast_arena.hpp:121): what release_reclaimed checks of the
\* bytes a reclaim finds in an arena.
ReclaimedIsAligned ==
  \A c \in Chunks : arena[c].retired > 0 => IsAligned(arena[c].retired, arena[c].alignment)

\* Where other threads free aligned sizes only, a reclaim finds whole blocks and no more
\* than were cut off, at any time: the checks of release_reclaimed never fail.
ReclaimChecksHold ==
  ~RetireUnaligned =>
    \A c \in Chunks : arena[c].type # "none" => Reclaimable(arena[c])

\* The heap keeps its promises about bytes, whatever the bins do with the arenas and
\* whenever blocks come back, of any size the clients pass.
Bytes == INSTANCE ByteHeap
           WITH Padded <- AlignUp,
                alignment <- [c \in Chunks |-> arena[c].alignment],
                request <- [size |-> hand.size, alignment |-> hand.alignment]
ImplementsByteHeap == Bytes!Spec
=============================================================================
