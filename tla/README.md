# cuw3 in TLA+

cuw3 is a lock-free arena allocator in C++20 (`src/cuw3`). Every thread has a
thread-local allocator (TLA) that carves blocks out of arenas; a block may be
freed by any thread; the chunks of memory under the arenas come from pools that
all threads share without locks. This directory holds TLA+ models of its
concurrent core, TLC runs that check them on small instances, and proofs checked
by TLAPS that carry the safety properties to every value of the constants.

Paths below are relative to `src/cuw3/include/cuw3/`, `cuw3.cpp` is
`src/cuw3/src/cuw3.cpp`.

## 1. The system

| component | state | operations | shared with |
|---|---|---|---|
| retire-reclaim scheme (`retire_reclaim.hpp`) | a packed word (pointer or count, retired flag), a next pointer, a postponed list | `retire_data`, `retire_ptr` (any thread), `reclaim`, `reclaim_reset` (one reclaiming thread) | every thread that frees a foreign block |
| fast arena (`fast_arena.hpp`) | bump pointer `top`, byte count `freed`, a retire-reclaim entry, list links | `acquire`, `release`, `reset`, `retire_allocation`, `reclaim_allocations` | owner alone, except the retire-reclaim entry |
| small allocator (`fast_arena_small_allocator.hpp`) | per alignment: a current arena and three lists; the root of the retired arenas | `acquire`, `allocate`, `deallocate`, `retire`, `reclaim_arenas`, `reclaim_arena`, `postpone` | owner alone, except the root |
| step-split allocator (`fast_arena_step_split_allocator.hpp`) | per alignment and size step: lists of arenas under bitmaps, a cached arena; a root | the same | the same |
| region chunk allocator: specs (`region_chunk_allocator.hpp`) | the layout: offset, size, chunk size and handles of every region; the shares of the splits | `create`, `locate_chunk`, `search_pool_split`, `ptr_to_allocation`, `index_from_handle` | all threads, read-only |
| region chunk allocator: pools (`region_chunk_allocator.hpp`, `atomic.hpp`) | per region and split: a versioned list of handles that came back, a stack of handles never used | `allocate_chunk`, `deallocate_chunk` | all threads |
| thread graveyard (`thread_graveyard.hpp`, `atomic.hpp`) | a push-snatch list of dead TLAs | `put_thread`, `acquire`, `release_thread` | all threads |
| allocator and TLA (`allocator.hpp`, `thread_local_allocator.hpp`, `cuw3.cpp`) | whose TLA it is, a cached chunk per region, counters that trigger cleanups | `allocate`, `deallocate`, `reclaim`, thread exit, cleanup of dead TLAs, adoption | arenas and roots through the scheme above |
| lists, packed pointers, bitmaps, integer helpers | none of their own | pure operations | - |
| creation (`cuw3.cpp`, `allocator.hpp`, `vmem.cpp`) | the memories of the allocator, mapped one after the other | `cuw3_create_allocator`, `AllocatorMemoryBundle::from`, `release`, `vmem_alloc_aligned`, `vmem_free` | once per process |

How they interact. `cuw3_alloc` asks the bins of the thread's TLA for an arena
with room; if there is none, a chunk is taken from the TLA's cache or from the
pools and an arena is constructed in it. `cuw3_free` finds the chunk and its
arena from the address. If the arena belongs to the calling thread's TLA, the
block is added to `freed`, and an arena that has all its blocks back is reset and
its chunk returned. Otherwise the block is *retired*: its size is added to the
arena's word by a CAS, and the thread that raises the word's flag pushes the
arena on the root list of the foreign TLA. The owner, every few frees and when
its thread ends, *reclaims*: it snatches the root list and takes over what was
retired in each arena. A TLA that still has arenas when its thread ends goes to
the graveyard, where other threads take it out to reclaim it further, or adopt
it for a new thread.

What is hard. There are no locks and no garbage collector: a thread may stop
between any two atomic accesses. Raising an arena's flag and queueing the arena
are two steps. The `next` fields are plain memory, written by whoever may write
them according to the protocol. Pops read links of nodes they do not own. Chunks,
arenas and TLAs are given away while other threads may still be on their way
through them. A dead TLA is served by whoever passes by. `PROJECT.json` lists
these hazards one by one under "hazards", each at its line, with the properties
that would show it going wrong.

What makes each component correct:

* retire-reclaim: no retired block is lost, none counted twice; a retired arena
  is always on its way to the owner; lists stay lists; every `CUW3_CHECK` holds.
* arenas and TLAs: given away only when no block is in use and no thread is in
  the middle of retiring one; blocks handed out do not overlap.
* pools: a chunk is in one place; a stale CAS never succeeds; a call returns, and
  finds a chunk when there is one and nobody interferes.
* graveyard: a dead TLA is in the graveyard or with one thread; none is lost.
* bins: the arena chosen for a request has room for it; an arena is in one list.
* layout: an address is mapped back to the chunk it came from; chunks of all regions
  lie apart; no handle is lost between regions, splits and clients.
* creation: what was mapped before a refusal is given back, whatever is refused.
* pure code: an arena is classified so that all it is offered for fits.

## 2. Modules

| module | what it is |
|---|---|
| `HeapContract` | abstract: what one TLA promises its clients |
| `RetireReclaim` | the retire-reclaim protocol as a TLA and its arenas use it, from construction to the graveyard; refines `HeapContract` |
| `MCRetireReclaim` | symmetry for TLC |
| `RetireReclaim_proofs` | TLAPS: the safety properties and the refinement |
| `ChunkStore` | abstract: what the pools of a region promise |
| `ChunkPool` | the pools of one region; refines `ChunkStore` |
| `ChunkPoolRounds` | `ChunkPool` with history variables that follow a thread's round over the pools |
| `MCChunkPool`, `MCChunkPoolRounds` | symmetry, the parameter -1, for TLC |
| `ChunkPool_proofs` | TLAPS: the safety properties, the refinement, and what a call that is left alone does |
| `Graveyard` | abstract: what the graveyard of dead TLAs promises |
| `ThreadGraveyard` | the graveyard as it is built, on the push-snatch list; refines `Graveyard` |
| `ThreadGraveyard_proofs` | TLAPS: the safety properties, the refinement, and the length of a call |
| `RegionAllocator` | the layout of the regions, the way from an address to its chunk, and whole calls over the pools of all regions |
| `RegionAllocator_proofs` | TLAPS: its four safety properties |
| `AllocatorSetup` | creation of the allocator, memory by memory, in front of the calls of `RegionAllocator` |
| `AllocatorSetup_proofs` | TLAPS: it implements `RegionAllocator`, and nothing leaks |
| `FastArenas` | arenas in bytes: alignment, bump pointer, what comes back |
| `SmallBins` | the bins of the small allocator |
| `StepSplit` | the classification, bins, bitmaps and cached arena of the step-split allocator |
| `ThreadHeap` | both allocators over the arenas, the chunk cache and the pools: the heap of one thread; refines `ByteHeap` |
| `ByteHeap` | abstract: what the heap of one thread promises about bytes |
| `MCThreadHeap` | chunk sizes and symmetry for TLC |
| `SumTheorems` | TLAPS: induction over numbers and finite sets, and sums over finite sets |
| `StepSplit_proofs` | TLAPS: powers of two, alignment, and that the classification of sizes meets that of arenas |
| `ThreadHeap_proofs` | TLAPS: the safety properties of the heap of one thread and the refinement |

Common to all models:

* Every access to a word that other threads can reach is an action of its own;
  what a thread does in between on memory that is its own is part of the action
  before or after it. A failed `compare_exchange_strong` is the action `...Retry`:
  it loads the current value, as the C++ operation does.
* Memory is sequentially consistent. The code uses relaxed loads and acq_rel
  read-modify-writes; that the relaxed loads are harmless is not shown here.
  Every value they return is compared by a later CAS, or is a flag that stays up.
* A packed word is a record, which is what `packed()` and its accessors make of
  it. Backoff, poisoning and checks that never depend on another thread's steps
  are left out.
* A definition marked "Wrong on purpose" is a plausible bug. It is used by no
  specification; "mutants" of `PROJECT.json` puts it in the place of the right
  definition and names the property that then fails.

### RetireReclaim

One TLA, `Arenas` that can be constructed in its chunks, `Threads` that do not
hold the TLA and free its blocks. The holder of the TLA is one more process: its
owner, then the thread that takes it out of the graveyard.

| state | code |
|---|---|
| `value[a]`, `flag[a]` | `FastArena::retire_reclaim_entry.head`: count and `RetiredFlag` |
| `next[a]` | `retire_reclaim_entry.next` |
| `root`, `postponed` | `retired_arenas.entry.head` and `.next_postponed` |
| `top[a]`, `freed[a]` | the arena's counters, in blocks |
| `used` | the arenas in the bins; `used = {}` is what `empty()` of the bins says |
| `out[a]` | the blocks of `a` that clients hold, those on their way to the CAS included |
| `tla` | with its owner, on its way out (the guard's last reclaim), in the grave, excavated, destroyed |
| `lost` | arenas emptied by a reclaim; nobody returns their chunk |
| `pc, arena, block, seen, seenRoot` | locals of the threads in `retire` |
| `rpc, rlist, rarena, rflag` | locals of the thread in `reclaim` |
| `rootSeq, claimSeq, postSeq` | history: the three lists as sequences, to say what the next fields should spell |

The block leaves `out` at the successful CAS of `retire_data`; from there on the
retiring thread only holds on to the arena and the root. `CreateTla` puts a new
TLA in the memory of the destroyed one, the worst case for a thread that were
still on its way.

The small and the step-split allocator have the same retire and reclaim code
with a root each, so one of them is modelled. `postpone` is part of the
allocators' interface; `Allocator` never calls it, so `CanPostpone` switches it.
`InitialRetired` is the flag an arena's word starts with. The tests build arenas
with FALSE, which is what `retire_reclaim.hpp` describes; `construct_arena_` in
`allocator.hpp` uses TRUE.

### ChunkPool

| state | code |
|---|---|
| `head[s]` | `RegionPoolEntry::free_list`, version and first handle |
| `top[s]` | `RegionPoolEntry::free_stack` |
| `next[h]` | the link of handle `h` in `pool_handles`, a memory of its own that is read even while the chunk is used |
| `given` | the chunks in clients' hands |
| `pc`, `rounds, start, k, split, failed` | locals of `allocate_chunk` and `allocate_chunk_` |
| `old, link, attempts`, `mine` | locals of `pop` and `push` |
| `list[s]` | history: the handles on the list of `s` |

Handles are numbered within the region. A call may start at any split, since
`last_chunk_pool_split_id` may hold any split a chunk came from. `Rounds` and
`Attempts` are the parameters of the call; -1 means no limit, as in the code.
The allocator uses 4 rounds, unlimited attempts and a step of 1.

`VersionLimit` stands for 2^32. A chunk is given back only when the versions left
suffice for everything under way (`VersionsLeft`), so no version comes round
again: the models say nothing about a wrap, which the comment in `atomic.hpp`
accepts as a risk.

### ThreadGraveyard

| state | code |
|---|---|
| `head` | `ThreadGraveyard::dead_queue` |
| `next`, `skip` | `DefaultThreadGraveyardEntry`, one in each TLA |
| `held[t]`, `spare` | the TLAs a thread owns, dug up or adopted; the memory TLAs are made of |
| `chain, old, tail` | locals of `push`: what is pushed, the head it saw, where its search for the tail is |
| `queueSeq`, `chainSeq[t]` | history: the list at the head and the list thread `t` pushes |

The program is built with `CUW3_SIMPLIFY_GRAVEYARD`, which leaves one list. To dig
(`Acquire`, `Snatch`) is to take the whole list with an exchange, keep its first
TLA and push the rest (`LoadHead`, `TailHop`, `TailFound`, `PushCas`, `PushRetry`).
To bury (`PutThread`) is to push a list of one. What a thread does with a TLA it
has dug up (reclaim, put back, adopt for a new thread, destroy) is left to it: it
may keep the TLA, put it back or destroy it, and `Create` makes a new TLA in fresh
memory, with a new entry, for a thread that has none. A thread digs with its own TLA
in hand or, when it begins, without one, so it holds two at most.

The walk to the tail is the delicate part. It uses `skip`, which was set when the
node was at the front of a list that has since been linked to others, snatched and
cut. `SkipsLeadToTail` says why it works: a skip pointer leads to the same node or
one behind it, only the front node is ever taken away, and a node that comes back
comes back with both fields reset.

### RegionAllocator

`ChunkPool` follows the threads that race for the pools of one region and numbers its
handles from 0. `RegionAllocator` puts the regions together: whole calls, one at a
time, on absolute handles and addresses.

| state | code |
|---|---|
| `config` | `RegionChunkAllocatorSpecsConfig` and `contention_split`; any that `create` accepts |
| `specs` | `region_specs`, one record per region laid out so far |
| `regionOffset`, `handleOffset` | the variables of the loop in `create`; afterwards `total_regions_size` and `num_handles` |
| `list[<<r, s>>]`, `top[<<r, s>>]` | free list and free stack of a pool |
| `given` | `RegionChunkAllocation`: region, chunk, handle, split |

`AddRegion` is a turn of that loop; an invariant of it says all there is to say of
the layout. `AllocateChunk(r, start)` takes the first handle the walk over the splits
finds. `DeallocateChunk(a, ptr)` gets nothing but an address, as `deallocate_chunk`
does: region, chunk, handle and split are computed from it (`PtrToAllocation`), and
the handle goes where they say. A power of two is its value and shifts are divisions,
so the `_log2` fields have no counterpart. A region may be smaller than its chunk
("not an error", line 110) and has no handles then; its pools are there and empty.

### AllocatorSetup

| state | code |
|---|---|
| `stage` | how far `cuw3_create_allocator` has come: own memory, layout, regions, handles, links, ready; or failed |
| `mapped` | the pages this code has mapped |
| the rest | `RegionAllocator`'s |

Each memory may be refused, and each refusal is a jump to one of the labels of
`AllocatorMemoryBundle::from` or `Allocator::create` (`GiveUp` with what the label
frees). `AllocAligned` reserves more than asked for and cuts head and tail off; the
head is whatever the address of the reservation makes it. The operating system
rounds lengths up to pages, refuses a mapping of no bytes, and maps nothing over what
is mapped. The build is the one with the general checks: where
`CUW3_DISABLE_GENERAL_CHECKS` takes them away, nobody looks at what was refused.
`Call` is every call of `RegionAllocator`; there is no way back, `Allocator::destroy`
has no caller.

### ThreadHeap

`RetireReclaim` follows the threads that race for the words of an arena and counts
blocks; `ThreadHeap` follows what the owner does between two such races and counts
bytes. `FastArenas`, `SmallBins` and `StepSplit` are its parts: they say what an
operation makes of an arena or a bin, the actions of `ThreadHeap` put them together.

| state | code |
|---|---|
| `arena[c]` | the `FastArena` in chunk `c`: type, alignment, `top`, `freed` and the count in its retire word, in bytes |
| `live[c][size]` | the blocks of `c` that clients hold |
| `small[id]`, `smallTotal` | `FastArenaSmallBins::bins`, `total_arenas`: current arena, free, cutoff and recycled list |
| `split[id]`, `splitTotal` | `step_split_entries`, `total_arenas`: cached arena, the lists of the bins, `present` for the bits that are set |
| `hand` | `allocate`: the request and the arena taken for it |
| `pool`, `cache`, `storage` | chunks in the pools, `cached_chunks`, `total_chunk_storage_size` |
| `lost` | chunks of arenas that a reclaim emptied |

`allocate` is the steps `Acquire` (an arena out of the bins, or none), then
`TakeCachedChunk`, `TakeFreshChunk`, `CommitFails` or `OutOfMemory` if there was
none, and `Allocate` (cut the block off, put the arena back). Only `Retire`, which
other threads do, comes in between. `Free`, `Reclaim` and `FreeTlaResources` are
whole calls, or one turn of their loop. A list is a sequence, a bitmap the set of
its bits. The logarithms and shifts of the classification are modelled as they are
(`IntPow2` is a recursive function instead of `2 ^ n`, which the provers do not know);
`ClassesMeet` says what they should amount to in terms of `BinBase`, the least room
of a bin, alone.

What is chosen and left out: arenas are created with the flag down, as in
`RetireReclaim`, so that every arena with retired blocks can be reclaimed. Any
region that suits may be the one whose pool has a chunk, since the pools belong to
everybody. `RetireUnaligned` says whether other threads free blocks of a size that
is no multiple of the alignment; `heap_unaligned` shows what comes of it, and the
other runs go on without, and there, says `ReclaimChecksHold`, no check of a reclaim
fails. Alignments are those the bins have, sizes are far from the end of the word. The
TLA stays: an empty one would be destroyed.

`ByteHeap` is the heap as a client sees it. It knows the alignment a chunk serves, the
blocks in use and the request under way, and nothing of bins, bump pointers or what has
been retired: a block comes out of a chunk of its alignment, as long as the padded sizes
of what is in use fit into the chunk, and the alignment of a chunk changes when nothing
of it is in use. `alignment[c]` is that of the arena in `c`, `request` is what `hand`
holds of the request. A block leaves `live` when the owner frees it or another thread has
counted it in the retire word; the arena is reset in the same step or, by a reclaim, long
after.

## 3. Runs

| run | instance | shows |
|---|---|---|
| `retire_safety` | 3 arenas, 2 blocks each, 2 threads, flag down, postponing | all safety properties and the refinement of `HeapContract` |
| `retire_liveness` | 2 arenas, 2 blocks, 2 threads, flag down | every retired block is reclaimed; a dead TLA without live blocks leaves the graveyard |
| `retire_flag_up` | 1 arena, 1 block, 1 thread, flag up | **violation**: a block freed by another thread is never reclaimed |
| `pool_safety` | 3 handles, 2 pools, 2 threads, 2 attempts | chunks in one place, lists intact, stacks settle, refinement of `ChunkStore`; a round nobody interferes with ends, and finds a chunk if there is one |
| `pool_liveness` | 3 handles, 2 pools, 2 threads, 2 rounds, 1 attempt | every call returns |
| `pool_null` | 2 handles, 2 pools, 2 threads, unlimited attempts | **violation**: a round can count as empty although a chunk was free all the time |
| `grave` | 4 TLAs, 2 threads | a TLA in one place, lists intact, skips lead to the tail, refinement of `Graveyard`; lock freedom: while calls are made, calls end |
| `grave_forgotten` | 2 TLAs, 1 thread | **violation**: digging never reaches the TLA below |
| `heap_small` | chunks of 4, 4 and 8 bytes, requests of 1, 2, 3 bytes, alignments 1 and 2 | lists, counts and bytes of the small allocator; chunks between cache and pools; refinement of `ByteHeap`: blocks fit beside each other |
| `heap_split` | two chunks of 8 bytes, requests of 1, 3, 5 bytes, alignments 1 and 2 | bins of the step-split allocator: arenas filed by room, requests fit, nothing that fits is missed; the storage count covers what is held |
| `region_setup` | up to 3 regions of 2 or 4 bytes, chunks of 1 to 8, alignments 1 and 4, 1, 2 or 4 splits, pages of 2 bytes | creation leaves nothing mapped when it fails; every address in a chunk leads back to it; chunks apart; no handle lost |
| `heap_unaligned` | two chunks of 4 bytes, requests of 1 and 2 bytes | **violation**: bytes retired with an unaligned size fail the check of the reclaim |

Why the bounds are enough to be interesting. Two retiring threads and the
reclaiming one are what every race of the protocol needs: two adders on a word,
two pushers on the root, one snatching. Three arenas make lists with a middle, so
that a lost link loses something; two blocks make an arena that is retired and
still in use. Two pops and the pushes of one thread are enough for ABA on a list
of two (a third handle leaves one on the list), and for an overshoot of a stack;
several overshoots at once need a third thread and are left to the theorem
`StacksSettle`, which holds for any number of threads. 2 pools with 2 and 3 handles include pools with
an unequal share. Four TLAs make a
rest of three, whose tail is more than one hop away, and lists in which a skip pointer
passes over a node and outlives the list it was set in; while one thread pushes a rest
back, the other one buries and digs. No symmetry there: the run checks liveness too.
Larger graveyards are left to the theorems, which hold for any number of both.

Regions of 2 and 4 bytes with alignments of 1 and 4 make layouts of equal regions
(also such that only become equal by alignment, which the code searches all the
same), of different ones, and with regions smaller than their chunk at the front, in
the middle and at the end. Up to 4 chunks in 1, 2 or 4 splits include shares that
do not come out even and pools without a handle. The alignment of 4 is larger than the
page of 2, so the regions' reservation is cut, with a head or without; the other
memories take the direct way. Creation that fails is the end, hence no check for
deadlock.

The heap is split over two runs because each allocator needs an instance of its own
to reach all its branches. A small request finds the free list only when the current
arena has less room than the request and more than half of it, and another chunk was
small enough not to take its place: two chunks of 4 and requests of 1 and 2. A split
request finds a bin only when two arenas were filled to nearly the same room: two
chunks of 8 and requests of 3 and 5. Requests of the other allocator take part in
both. `RetireLimit` bounds the bytes that wait to be reclaimed (3 and 6, at least the
largest block that is aligned), `StorageLimit` the storage count, which failed
commits and `FreeTlaResources` would raise without end (12 and 16, twice the
largest chunk where both are large).

Four of the runs find what the code does to differ from what it says or checks:

* `retire_flag_up`. An arena starts with its flag raised (`allocator.hpp:237`), a
  retiring thread sees it and leaves the queueing to somebody else
  (`fast_arena_small_allocator.hpp:346`), and there is nobody else: "non-owning
  thread retires some subresource and owning thread reclaims it later"
  (`retire_reclaim.hpp:27`) never happens. The theorem
  `NeverQueued` shows that it is not a matter of luck: with that flag no arena is
  queued in any behaviour; `NoneComesHome` that the loss is for good: an arena another
  thread freed a block of keeps its chunk for ever, and so the TLA. The flag also hides
  the chunk leak of `lost`.
* `pool_null`. "`rounds` counts genuine emptiness (null), not contention"
  (`region_chunk_allocator.hpp:648`), but the scan over the pools is not a
  snapshot: a chunk given back to a pool already looked at and one taken from the
  next make a round that finds nothing while something was free at any moment.
  `AloneFinds` is what does hold.
* `grave_forgotten`. "pick random tla & cleanup whatever memory was retired there"
  (`allocator.hpp:466`), but what was just visited is pushed on the front
  (`allocator.hpp:490`) and the front is what the next visit takes
  (`thread_graveyard.hpp:263-270`). As long as the TLA in front cannot be emptied,
  those below it keep what is retired to them. The run assumes that the thread digs
  and pushes again and again and that no TLA is created or destroyed any more.

* `heap_unaligned`. `retire_allocation` retires `size` (`fast_arena.hpp:233`), not the
  `size_aligned` it has just computed; the reclaim checks "size is not aligned"
  (`fast_arena.hpp:121`). One block of 1 byte in an arena of alignment 2 is enough.
  Had the check not been there, the bytes would never add up to `top` again.

## 4. Fairness

* `WF(Retirer(t))`, `WF(Step(t))`: a thread in the middle of a call is scheduled
  again. Nothing more is assumed about who wins a CAS: a lost one is a step. That
  is why `EventuallyReclaimed` and `EveryCallReturns` are stated for behaviours in
  which, from some time on, nobody allocates (gives chunks back): the algorithms
  are lock-free, not wait-free, and a thread can starve while others succeed.
* `WF(Reclaimer)`: the holder of a TLA reclaims again and again. In the code the
  owner does with every 8th free (`cuw3_try_reclaim_each_op`) and when it ends.
* `WF(Excavate)`: some thread keeps visiting the graveyard (every 16th free,
  `cuw3_try_cleanup_each_op`) and finds this TLA. With one TLA that is all there
  is to find; with several it is more than the code does, as `grave_forgotten`
  shows, so `DeadTlaLeaves` is a statement about a TLA that is the only dead one.
* `WF(Step(t))` of the graveyard: as above. A push can lose its CAS for ever, so
  `LockFree` says that calls end, not that each call does. `DiggingSpec`, used by
  `grave_forgotten` only, adds that threads that are idle dig again
  (`WF(Acquire)`) and are not for ever beaten to the list (`SF(Snatch)`).

## 5. Proofs

The modules ending in `_proofs` prove, for all values of the constants that satisfy
the named assumptions of the modules (capacity at least 1, null pointers distinct
from what they are not, finite sets of threads and chunks, alignments and sizes that
divide each other as powers of two do, a smallest step of more than one byte), the
theorems listed in `PROJECT.json`: each safety property of the runs that pass, the
refinements, and some properties that no run lists (`NothingQueued`, `NeverComesHome`,
`VersionsRise`, `CallAdvances`, `ReclaimChecksHold`, `NothingInUseIsReset`). `PTL` is used
only to lift the step lemmas.

**RetireReclaim.** Few of the safety properties are inductive alone. The invariant
`IInv` joins `TypeOK`, `QueuedOnce` and `ListsIntact` with: `Control` (what the
reclaiming thread holds at each point, the root's flag, no arena in a destroyed
TLA); `Accounts` (an arena's numbers add up, its live blocks lie below `top`, an
unused arena is empty, retired blocks raise the flag); `Holders` (a thread before
its CAS still has its block in `out`, alone); `Pushers` and `Waiting` (an arena
being queued, queued or reclaimed has retired blocks; before the CAS on the root
its next field is the head the thread saw); `FlagMeansQueued` (created down, a
flag is up only on an arena that is on its way). The argument: an arena on its
way has retired blocks, so its flag is up, so no thread that comes later queues
it: there is one pusher (`OneUserOfNext`) and one writer of its next field
(`ListsStayIntact`). An arena on its way is also not yet reset, since what is
retired is still missing in `freed`, so it and the TLA stay (`MemoryStays`).
`NeverStranded` is proved from the assumption that arenas are created with their
flag down, `NeverQueued` from the opposite one, with the invariant that every
flag in use is up and every flag seen was up (`FlagStaysUp`). `NoneComesHome` follows
from it: nobody takes retired blocks over, their count only rises, and by `Accounts` an
arena with a block missing is never complete.

**ChunkPool.** The invariant says where a handle can be (`Places`: on the list of
its own pool, given, in a pusher's hands, or above the top), what the versions
mean (`SeenHead`: a thread whose version is the head's has seen the head, and if
it has read the link, that is the link to install), and that the versions last
(`Budget`). ABA is excluded by `SeenHead`: every change of a list takes a new
version, so a CAS that succeeds does so on the very list the thread has looked
at. `StackSettles` is inductive with the types. `NoVersionTwice` says it of the heads
alone: below the limit, each change of a head raises its version.

What a call does that nobody interferes with is proved of `ChunkPoolRounds`, whose
history variable `alone` holds the thread that has moved alone since its round began.
`AloneInv` follows it: the pools behind it are dry, list and stack (`Dry`); the head it
has read is still the head; and a stack whose room it has checked still has the room. A
round walks `Around(start, n)` for `n` from 0, with a step of one, and meets every split
(`AroundFacts`), so a round that finds nothing has seen them all dry
(`AloneRoundIsComplete`). From the same invariant no step of the thread is a retry or a
taking back, and `StepsLeft`, three accesses a pool, falls with each step until the round
ends (`AloneCallsAdvance`): the pools are obstruction free. That calls return under
interference is `EveryCallReturns`, which stays with TLC.

**ThreadGraveyard.** `TypeOK`, `EachTlaOnce`, `ListsIntact` and `SkipsLeadToTail`
are inductive together, none of them alone: types need that a hop stays on its
list, a hop that skips lead forward, and that a thread's writes to its own chain
disturb nobody needs that every TLA is in one place. `QueueOK` and `ChainOK(t)`
say the last two properties of one list at a time; a step preserves them for every
list it does not write to (`QueueKept`, `ChainKept`), so what remains is the list
of the thread that moves. `Moved` does the same for `EachTlaOnce`. There is no ABA
to exclude here: a push that succeeds needs the head it is linked to, whatever
happened in between. `CallsAdvance` counts accesses: a snatched list belongs to the
thread that walks it and its skip pointers lead forward, so each hop shortens what is
left (`HopGoesOn`), and the only step that does not is a CAS another thread has won.

**RegionAllocator.** The layout is built region by region, so what it promises is an
invariant of the loop (`Layout`: regions and their handles lie one behind the other,
offsets are aligned, equal regions start at multiples of their size, every handle has
a region), and no induction over regions is needed. From it: an address in a chunk
lies in the bounds of its region, which is the least region that ends behind it
(`HostingRegionFound`, both ways to look for it); dividing by the chunk size gives the
chunk (`DivUnique`); shares of splits are disjoint and cover the region
(`PoolsApart`, `ShareCovers`), so the pool is found again. A free that computes its
target from the address therefore frees what was taken: `AllocationFound` is both the
property `ComesHome` and what makes `DeallocateChunk` preserve the types. For
`EachHandleOnce` the invariant `Conserved` says of each pool that the handles below
its top are on its list or with clients, once (`Once`). `ConfigAssumption` asks that
the handles' memory is aligned to `handle_size`: `index_from_handle` tests the address
for that, while the memory is only asked for with `handle_alignment`; it is aligned
to pages, which are larger.

**AllocatorSetup.** `SetupImplements` makes the theorems of `RegionAllocator` hold
here. `Stages` says what is mapped at each stage. Every memory starts at a page, so
its pages are an interval (`PageInterval`), and cutting a reservation at both ends is
arithmetic of intervals (`TrimmedPages`); that the reservation lies apart from what is
mapped is what the operating system guarantees.

**ThreadHeap.** The bins depend on each other through the arenas they hold, so the
invariant `IInv` is one, in parts: `ArenaInv` and `HandInv` (types, an arena of no
type is reset), `BinsInv`, `PlaceInv` (chunks without an arena are in the pools, in
their slot of the cache, or lost, and in one of these), `CountInv`, `BytesInv`,
`StorageInv`, `RequestFits` and `NothingMissed`. `BinsInv` says of every bin that it
is good (`SmallGood`, `SplitGood`): it holds the set of arenas it should, each once,
filed by the room they have. Written that way, a bin depends on the rest of the state
only through that set and the rooms of its members, and the lemmas about the
operations of a bin (push, remove, take out, exchange the current or cached arena) are
about records alone. A step touches one bin, changes the set by the arena in hand,
and leaves the rooms of the filed arenas alone; for all other bins a lemma says that
they stay good. `ChunkOnce` and `FiledByRoom` need each other: `extract` looks for an
arena in the list its room names, and finds it there because it is filed by its room,
and removes it because it is filed once. `RequestFits` needs both and, for the
step-split allocator, that bins can be trusted: what is filed in the bin of a
request or above fits it (`BinsServe`). `SplitMissFacts` says that a search that finds
nothing has left nothing out, which is `NothingMissed`.

`BytesInv` is an inequality in every behaviour (what is freed, retired and in use is
at most what was cut off), and an equality when other threads free aligned sizes.
`BytesAccounted` is the equality and so needs `~RetireUnaligned`; that no arena is
reset under a block in use needs the inequality only, so `InUseIsNotReset` holds even
where `heap_unaligned` finds the check failing. `ReclaimsGoThrough` adds that what is
retired stays aligned when aligned sizes are freed, and has the checks of
`release_reclaimed` for every arena, not only for the one that is reclaimed.

`Implements` maps the heap to `ByteHeap`. The bytes in use of a chunk are the sum over
`live`, which `BytesInv` bounds by `top`, and `top` by the size of the chunk (`UseIs`). So
an allocation that moves `top` stays within the chunk, and where there is no arena, since
it was reset at `freed = top` and given back, nothing is in use: the inequality is enough
here too, and the theorem assumes nothing of the sizes other threads free. Bins, cache,
commits and reclaims that empty no arena are stutters.

**StepSplit.** `ClassesMeet` is about the arithmetic of `StepLog2`, offsets and splits.
`Log2Facts` characterises the logarithm, `BinBaseGrows` shows the bases of the bins
rising, `SizeBinFacts` and `ArenaBinFacts` place a size between the bases of
neighbouring bins (`NoneIsWrong`: no size and no room is classified wrongly), and rounding to alignments is carried through by `AlignFacts`
(bases are multiples of the alignments their bins serve). The proof needs
`MinStepLog2 > 0`: with a step of one byte, which `create` lets pass and `cuw3.cpp`
does not ask for, the offset of size 0 is negative. It is part of `StepAssumption`.

**SumTheorems.** Bytes in use are a sum over the sizes, by a fold of `Functions`. That
a sum changes by what one summand changes needs induction. The provers cannot
instantiate the library's induction theorems, whose parameter is an operator;
`NatSetInduction` and `SubsetInduction` state induction for a set, which they can, and
follow from `WFMin`. By the same means `PowersExist` shows that the recursive function
of the powers exists.

**Model-checked only:** the liveness properties (`EventuallyReclaimed`,
`DeadTlaLeaves`, `EveryCallReturns`, `LockFree`: fairness and ENABLED are beyond the
prover). No module declares a RECURSIVE operator.

## 6. Plan

Done: `RetireReclaim`, `ChunkPool`, `ThreadGraveyard`, `RegionAllocator`,
`AllocatorSetup` and `ThreadHeap` with `FastArenas`, `SmallBins` and `StepSplit`, all
checked and with proofs. What is left:

* `Allocator`: two heaps over common pools with thread exit, adoption and destruction,
  so that chunks and `total_chunk_storage_size` are followed beyond the life of one
  TLA. `RetireReclaim` follows a TLA through its life without its chunks, `ThreadHeap`
  the chunks within one life; what is missing is the passage between the two, mostly
  `free_tla_resources` followed by a new owner.
* `align()` over a small word, to see what a request near the end of the word becomes.

## 7. Not modelled

* The slotted variant of the graveyard: compiled out by `CUW3_SIMPLIFY_GRAVEYARD`.
* `try_reset_flags`, `any_retired`, and the `sample_` and `has_any_` functions of the
  bins: nothing but tests calls them.
* Virtual memory below `mmap` and `munmap`, commit and decommit, and the Windows
  branch: the state is the operating system's.
* `Allocator::destroy`: it has no caller.
* The links inside intrusive lists, the words of bitmaps and the packing of pointers:
  each is used by one thread at a time and modelled by what it means, a sequence, a
  set, a record.
* Weak memory orders: TLC and the prover work on interleavings.
* Builds with checks disabled: what a refused mapping or a failed check leads to is
  undefined there.
* Backoff, assertions, configuration, typedefs: they hold no state of the program.
* Tests and benchmarks.
