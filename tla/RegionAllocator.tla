---------------------------- MODULE RegionAllocator ----------------------------
(***************************************************************************)
(* The layout of the region chunk allocator, and its use one call at a     *)
(* time (region_chunk_allocator.hpp).  Regions of different chunk sizes    *)
(* lie one behind the other in one piece of reserved memory, the handles   *)
(* of their chunks one behind the other in another.  A block that is freed *)
(* is only an address: region, chunk, handle and pool are computed from    *)
(* it.  How threads interleave inside a pool is the matter of ChunkPool.   *)
(***************************************************************************)
EXTENDS Naturals, Sequences

CONSTANTS
  RegionSizes,       \* 2^x for the entries x of region_sizes of the configuration
  ChunkSizes,        \* 2^x for the entries x of region_chunk_sizes
  RegionAlignments,
  Splits,            \* the values of contention_split
  MaxRegions,        \* conf_max_region_sizes
  HandleSize,
  RegionsBase,       \* RegionChunkAllocator::regions, an address
  HandlesBase,       \* RegionChunkAllocator::handles, an address
  NullValue          \* region_chunk_allocator_null_value

\* What create() of the specs and of the pools and conf.hpp check, of powers of two the
\* divisibility; that both memories
\* are aligned is what vmem_alloc_aligned is asked for.  HandlesBase is aligned to
\* pages, handles are smaller: index_from_handle needs more than handle_alignment.
ASSUME ConfigAssumption ==
  /\ RegionSizes \subseteq Nat \ {0} /\ ChunkSizes \subseteq Nat \ {0}
  /\ RegionAlignments \subseteq Nat \ {0} /\ Splits \subseteq Nat \ {0}
  /\ \A a, b \in ChunkSizes \cup RegionAlignments : a <= b => b % a = 0
  /\ MaxRegions \in Nat \ {0} /\ HandleSize \in Nat \ {0}
  /\ RegionsBase \in Nat /\ HandlesBase \in Nat
  /\ \A a \in RegionAlignments : RegionsBase % a = 0
  /\ HandlesBase % HandleSize = 0
  /\ NullValue \notin Nat

VARIABLES
  config,        \* RegionChunkAllocatorSpecsConfig, and contention_split
  specs,         \* RegionChunkAllocatorSpecs::region_specs, so far
  regionOffset,  \* where the next region starts; then total_regions_size
  handleOffset,  \* the first handle of the next region; then num_handles
  list,          \* free_list of the pool <<region, split>>, as a sequence
  top,           \* free_stack of the pool
  given          \* the chunks that clients hold: RegionChunkAllocation

specVars == <<config, specs, regionOffset, handleOffset>>
poolVars == <<list, top>>
vars == <<specVars, poolVars, given>>

Ascending(s) == \A i, j \in 1 .. Len(s) : i < j => s[i] < s[j]

Configs ==
  {c \in [sizes : UNION {[1 .. n -> RegionSizes] : n \in 1 .. MaxRegions},
          chunks : UNION {[1 .. n -> ChunkSizes] : n \in 1 .. MaxRegions},
          alignment : RegionAlignments,
          splits : Splits] :
     Len(c.sizes) = Len(c.chunks) /\ Ascending(c.chunks)}

\* Regions are numbered from 1 here, chunks, handles and splits from 0.
NumRegions == Len(config.sizes)
Regions == 1 .. NumRegions
SplitsOf == 0 .. config.splits - 1
Pools == Regions \X SplitsOf

-----------------------------------------------------------------------------
(* RegionChunkAllocatorSpecs                                               *)

Align(value, alignment) == ((value + alignment - 1) \div alignment) * alignment

\* region_size: of all regions if they are configured alike, else 0.
EqualSize == IF \A i \in Regions : config.sizes[i] = config.sizes[1]
             THEN Align(config.sizes[1], config.alignment)
             ELSE 0

\* RegionSpec of the region that is laid out next.
NewSpec(size, chunkSize) ==
  [region_offset |-> regionOffset, region_size |-> size, chunk_size |-> chunkSize,
   handle_offset |-> handleOffset, num_handles |-> size \div chunkSize]

\* Wrong on purpose: the sizes are taken as configured, not aligned.
AddRegion_Unaligned ==
  LET i == Len(specs) + 1
      size == config.sizes[i]
      spec == NewSpec(size, config.chunks[i])
  IN /\ i \in Regions
     /\ specs' = Append(specs, spec)
     /\ regionOffset' = regionOffset + size
     /\ handleOffset' = handleOffset + spec.num_handles
     /\ UNCHANGED <<config, poolVars, given>>

\* create(), one turn of the loop over the regions.
AddRegion ==
  LET i == Len(specs) + 1
      size == Align(config.sizes[i], config.alignment)
      spec == NewSpec(size, config.chunks[i])
  IN /\ i \in Regions
     /\ specs' = Append(specs, spec)
     /\ regionOffset' = regionOffset + size
     /\ handleOffset' = handleOffset + spec.num_handles
     /\ UNCHANGED <<config, poolVars, given>>

\* All regions are laid out.
Created == Len(specs) = NumRegions

\* get_last_offset, what region_search_sentinels hold.
RegionEnd(r) == specs[r].region_offset + specs[r].region_size

\* get_last_handle
HandleEnd(r) == specs[r].handle_offset + specs[r].num_handles

\* Wrong on purpose: the end of a region is taken to belong to it.
SearchHostingRegion_Inclusive(relptr) ==
  LET found == {r \in Regions : relptr <= RegionEnd(r)}
  IN IF found = {} THEN NullValue
     ELSE CHOOSE r \in found : \A q \in found : r <= q

\* The first region that ends behind the address.
SearchHostingRegion(relptr) ==
  LET found == {r \in Regions : relptr < RegionEnd(r)}
  IN IF found = {} THEN NullValue
     ELSE CHOOSE r \in found : \A q \in found : r <= q

\* locate_chunk: by division if all regions are equal, else by search.
HostingRegion(relptr) == IF EqualSize # 0 THEN relptr \div EqualSize + 1
                                          ELSE SearchHostingRegion(relptr)

\* locate_chunk_common_
ChunkOf(relptr, r) == (relptr - specs[r].region_offset) \div specs[r].chunk_size

-----------------------------------------------------------------------------
(* RegionChunkAllocatorPools                                               *)

MinOf(a, b) == IF a <= b THEN a ELSE b

\* Wrong on purpose: rounded down, so the last pools leave handles out.
HandlesPerSplit_Down(r) == specs[r].num_handles \div config.splits

HandlesPerSplit(r) == (specs[r].num_handles + config.splits - 1) \div config.splits

\* first_handle and last_handle of a pool, the latter in split_search_sentinels.
FirstHandle(r, s) ==
  specs[r].handle_offset + MinOf(HandlesPerSplit(r) * s, specs[r].num_handles)
LastHandle(r, s) ==
  specs[r].handle_offset + MinOf(HandlesPerSplit(r) * (s + 1), specs[r].num_handles)

\* The first pool of the region that ends behind the handle.
SearchPoolSplit(r, handle) ==
  LET found == {s \in SplitsOf : handle < LastHandle(r, s)}
  IN IF found = {} THEN NullValue
     ELSE CHOOSE s \in found : \A q \in found : s <= q

-----------------------------------------------------------------------------
(* RegionChunkAllocator: addresses.                                        *)

BelongsAnyRegion(ptr) == RegionsBase <= ptr /\ ptr < RegionsBase + regionOffset

Allocation(r, chunk, handle, split) ==
  [region |-> r, chunk |-> chunk, handle |-> handle, split |-> split]
NullAllocation == Allocation(NullValue, 0, 0, 0)

PtrToAllocation(ptr) ==
  IF ~ BelongsAnyRegion(ptr) THEN NullAllocation
  ELSE LET relptr == ptr - RegionsBase
           r == HostingRegion(relptr)
           handle == specs[r].handle_offset + ChunkOf(relptr, r)
       IN Allocation(r, ChunkOf(relptr, r), handle, SearchPoolSplit(r, handle))

\* region_data_to_memory_no_check: where the chunk and its handle are.
ChunkStart(a) == RegionsBase + specs[a.region].region_offset
                             + a.chunk * specs[a.region].chunk_size
HandleStart(handle) == HandlesBase + handle * HandleSize

ChunkBytes(a) == ChunkStart(a) .. ChunkStart(a) + specs[a.region].chunk_size - 1

\* The handles are laid out without gaps: total_handles_size.
HandlesEnd == HandlesBase + handleOffset * HandleSize

IndexFromHandle(ptr) ==
  IF HandlesBase <= ptr /\ ptr < HandlesEnd /\ ptr % HandleSize = 0
  THEN (ptr - HandlesBase) \div HandleSize
  ELSE NullValue

HandleFromIndex(handle) == IF handle < handleOffset THEN HandleStart(handle)
                                                    ELSE NullValue

-----------------------------------------------------------------------------
(* RegionChunkAllocator: calls.                                            *)

Init ==
  /\ config \in Configs
  /\ specs = <<>>
  /\ regionOffset = 0
  /\ handleOffset = 0
  /\ list = [p \in Pools |-> <<>>]
  /\ top = [p \in Pools |-> 0]
  /\ given = {}

\* RegionChunkAllocatorPools::create; top counts from the first handle of the pool.
PoolRoom(p) == LastHandle(p[1], p[2]) - FirstHandle(p[1], p[2])

\* Wrong on purpose: the end of the stack is one too far.
Available_OffByOne(p) == list[p] # <<>> \/ top[p] <= PoolRoom(p)

Available(p) == list[p] # <<>> \/ top[p] < PoolRoom(p)

\* The handle that comes next out of a pool: the list goes first.
NextHandle(p) == IF list[p] # <<>> THEN Head(list[p])
                                   ELSE FirstHandle(p[1], p[2]) + top[p]

\* allocate_chunk with a step of 1: the first pool from start on that has something.
AllocateChunk(r, start) ==
  /\ Created
  /\ \E k \in SplitsOf :
       LET split(i) == (start + i) % config.splits
           p == <<r, split(k)>>
           handle == NextHandle(p)
       IN /\ Available(p)
          /\ \A i \in 0 .. k - 1 : ~ Available(<<r, split(i)>>)
          /\ IF list[p] # <<>>
               THEN /\ list' = [list EXCEPT ![p] = Tail(@)]
                    /\ UNCHANGED top
               ELSE /\ top' = [top EXCEPT ![p] = @ + 1]
                    /\ UNCHANGED list
          /\ given' = given \cup
               {Allocation(r, handle - specs[r].handle_offset, handle, split(k))}
  /\ UNCHANGED specVars

\* deallocate_chunk(void*): all there is to find the chunk is an address in it.
DeallocateChunk(a, ptr) ==
  LET found == PtrToAllocation(ptr)
      p == <<found.region, found.split>>
  IN /\ a \in given
     /\ ptr \in ChunkBytes(a)
     /\ list' = [list EXCEPT ![p] = <<found.handle>> \o @]
     /\ given' = given \ {a}
     /\ UNCHANGED <<specVars, top>>

Next ==
  \/ AddRegion
  \/ \E r \in Regions, start \in SplitsOf : AllocateChunk(r, start)
  \/ \E a \in given : \E ptr \in ChunkBytes(a) : DeallocateChunk(a, ptr)

Spec == Init /\ [][Next]_vars

-----------------------------------------------------------------------------
(* Properties.                                                             *)

SpecType == [region_offset : Nat, region_size : Nat \ {0}, chunk_size : Nat \ {0},
             handle_offset : Nat, num_handles : Nat]

\* The parts of a pool are handles of that pool.
TypeOK ==
  /\ config \in Configs
  /\ specs \in Seq(SpecType)
  /\ Len(specs) <= NumRegions
  /\ regionOffset \in Nat
  /\ handleOffset \in Nat
  /\ DOMAIN list = Pools
  /\ top \in [Pools -> Nat]
  /\ IF Created
       THEN \A p \in Pools :
              /\ list[p] \in Seq(FirstHandle(p[1], p[2]) .. LastHandle(p[1], p[2]) - 1)
              /\ top[p] <= PoolRoom(p)
       ELSE /\ list = [p \in Pools |-> <<>>]
            /\ top = [p \in Pools |-> 0]
            /\ given = {}
  /\ \A a \in given :
       /\ <<a.region, a.split>> \in Pools
       /\ a.handle \in FirstHandle(a.region, a.split) .. LastHandle(a.region, a.split) - 1
       /\ a = Allocation(a.region, a.handle - specs[a.region].handle_offset,
                         a.handle, a.split)

\* Whatever address in a chunk a block starts at, freeing it leads back to the very
\* region, chunk, handle and pool the chunk was taken from, with equal regions and
\* with different ones, empty regions among them, and with splits that do not come
\* out even; and the chunk's handle is found by its number and by its address.
ComesHome ==
  \A a \in given :
    /\ \A ptr \in ChunkBytes(a) : PtrToAllocation(ptr) = a
    /\ HandleFromIndex(a.handle) = HandleStart(a.handle)
    /\ IndexFromHandle(HandleStart(a.handle)) = a.handle

\* Chunks in use, whatever their regions, lie in the memory reserved for them, where an
\* arena of any alignment up to the region's and the chunk's size may be built, and no
\* two share a byte or a handle.
MemoryApart ==
  \A a \in given :
    /\ \A ptr \in ChunkBytes(a) : BelongsAnyRegion(ptr)
    /\ ChunkStart(a) % MinOf(config.alignment, specs[a.region].chunk_size) = 0
    /\ a.handle < handleOffset
    /\ \A b \in given \ {a} : /\ ChunkBytes(a) \cap ChunkBytes(b) = {}
                              /\ a.handle # b.handle

Above(p, h) == FirstHandle(p[1], p[2]) + top[p] <= h /\ h < LastHandle(p[1], p[2])

\* Where a handle is: with a client, at a position of a list, or not yet used.
GivenSpots(h) == {<<"given", 0, <<a.region, a.split>>>> : a \in {b \in given : b.handle = h}}
ListSpots(p, h) == {<<"listed", i, p>> : i \in {j \in 1 .. Len(list[p]) : list[p][j] = h}}
FreshSpots(h) == {<<"fresh", 0, p>> : p \in {q \in Pools : Above(q, h)}}
Spots(h) == UNION {GivenSpots(h), FreshSpots(h), UNION {ListSpots(p, h) : p \in Pools}}

\* No handle is lost between the regions, their pools and the clients, and none is in
\* two of these places.
EachHandleOnce ==
  Created => \A h \in 0 .. handleOffset - 1 : \E x \in Spots(h) : Spots(h) = {x}
=============================================================================
