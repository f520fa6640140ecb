----------------------------- MODULE AllocatorSetup -----------------------------
(***************************************************************************)
(* How the one allocator of a process comes to be (cuw3.cpp, allocator.hpp,*)
(* vmem.cpp): its own memory, the layout of the regions, and the memories  *)
(* of the regions, the handles and their links, each of which the operating*)
(* system may refuse.  Only then come the calls of RegionAllocator.  The   *)
(* build is the default one, with the general checks: where they are       *)
(* disabled, nobody looks whether a memory was refused.                    *)
(***************************************************************************)
EXTENDS RegionAllocator

CONSTANTS
  PageSize,
  HandleAlignment,   \* handle_alignment of the configuration
  LinkSize,          \* sizeof(RegionChunkPoolLinkType)
  AllocatorBase,     \* where cuw3_create_allocator finds its memory
  AllocatorSize,
  LinksBase          \* RegionChunkAllocator::pool_handles

\* Memory comes in pages; page sizes and alignments are powers of two.
ASSUME SetupAssumption ==
  /\ {PageSize, HandleAlignment, LinkSize, AllocatorSize} \subseteq Nat \ {0}
  /\ {AllocatorBase, LinksBase} \subseteq Nat
  /\ \A base \in {RegionsBase, HandlesBase, AllocatorBase, LinksBase} : base % PageSize = 0
  /\ \A a \in RegionAlignments \cup {HandleAlignment, LinkSize} :
       a <= PageSize \/ a % PageSize = 0

VARIABLES
  stage,   \* how far cuw3_create_allocator has come
  mapped   \* the pages the process has mapped, as far as this code is concerned

setupVars == <<vars, stage, mapped>>

-----------------------------------------------------------------------------
(* vmem.cpp                                                                *)

MaxOf(a, b) == IF a >= b THEN a ELSE b

\* The operating system rounds lengths up to pages.
PagesOf(address, size) == {byte \div PageSize : byte \in address .. address + size - 1}

Free(pages, address, size) == pages \ PagesOf(address, size)

\* It maps nothing over what is mapped.
Unmapped(address, size) == PagesOf(address, size) \cap mapped = {}

\* What vmem_alloc_aligned reserves to find an aligned address in it.
WholeSize(size, alignment) == Align(size, alignment) + alignment

\* Wrong on purpose: what lies before the aligned address stays mapped.
Trimmed_KeepHead(pages, head, base, size, alignment) ==
  LET whole == WholeSize(size, alignment)
      used == Align(size, PageSize)
  IN Free(pages \cup PagesOf(base - head, whole), base + used, whole - used - head)

\* What is mapped after a reservation that is larger by the alignment was cut to size
\* at both ends; head is what lies before the aligned address.
Trimmed(pages, head, base, size, alignment) ==
  LET whole == WholeSize(size, alignment)
      used == Align(size, PageSize)
  IN Free(Free(pages \cup PagesOf(base - head, whole), base - head, head),
          base + used, whole - used - head)

\* vmem_alloc; a mapping of no bytes is refused.
Alloc(base, size) ==
  /\ size > 0
  /\ Unmapped(base, size)
  /\ mapped' = mapped \cup PagesOf(base, size)

\* vmem_alloc_aligned: base is the aligned address that comes of it.
AllocAligned(base, size, configured) ==
  LET alignment == MaxOf(PageSize, configured)
  IN IF alignment = PageSize THEN Alloc(base, size)
     ELSE \E head \in {h \in 0 .. alignment - 1 : h % PageSize = 0 /\ h <= base} :
            /\ Unmapped(base - head, WholeSize(size, alignment))
            /\ mapped' = Trimmed(mapped, head, base, size, alignment)

-----------------------------------------------------------------------------
(* The memories of the allocator.                                          *)

RegionsSize == regionOffset
HandlesSize == Align(handleOffset * HandleSize, HandleAlignment)
LinksSize == LinkSize * handleOffset

\* AllocatorMemoryBundle::from gives back what it got before; cuw3_create_allocator
\* gives back its own memory and returns null, for good.
GiveUp(pages) ==
  /\ mapped' = Free(pages, AllocatorBase, AllocatorSize)
  /\ stage' = "failed"

CreateAllocator ==
  /\ stage = "start"
  /\ \/ Alloc(AllocatorBase, AllocatorSize) /\ stage' = "layout"
     \/ stage' = "failed" /\ UNCHANGED mapped
  /\ UNCHANGED vars

\* RegionChunkAllocatorSpecs::create
LayOut == stage = "layout" /\ AddRegion /\ UNCHANGED <<stage, mapped>>

ReserveRegions ==
  /\ stage = "layout" /\ Created
  /\ \/ AllocAligned(RegionsBase, RegionsSize, config.alignment) /\ stage' = "regions"
     \/ GiveUp(mapped)
  /\ UNCHANGED vars

AllocHandles ==
  /\ stage = "regions"
  /\ \/ AllocAligned(HandlesBase, HandlesSize, HandleAlignment) /\ stage' = "handles"
     \/ GiveUp(Free(mapped, RegionsBase, RegionsSize))
  /\ UNCHANGED vars

\* Wrong on purpose: the jump to the label that only frees the regions.
AllocLinks_WrongLabel ==
  /\ stage = "handles"
  /\ \/ AllocAligned(LinksBase, LinksSize, LinkSize) /\ stage' = "links"
     \/ GiveUp(Free(mapped, RegionsBase, RegionsSize))
  /\ UNCHANGED vars

AllocLinks ==
  /\ stage = "handles"
  /\ \/ AllocAligned(LinksBase, LinksSize, LinkSize) /\ stage' = "links"
     \/ GiveUp(Free(Free(mapped, HandlesBase, HandlesSize), RegionsBase, RegionsSize))
  /\ UNCHANGED vars

\* AllocatorMemoryBundle::release
ReleaseBundle ==
  Free(Free(Free(mapped, RegionsBase, RegionsSize), HandlesBase, HandlesSize),
       LinksBase, LinksSize)

\* ThreadGraveyard::create may refuse the number of graves.
Finish ==
  /\ stage = "links"
  /\ \/ stage' = "ready" /\ UNCHANGED mapped
     \/ GiveUp(ReleaseBundle)
  /\ UNCHANGED vars

Call ==
  /\ stage = "ready"
  /\ \/ \E r \in Regions, start \in SplitsOf : AllocateChunk(r, start)
     \/ \E a \in given : \E ptr \in ChunkBytes(a) : DeallocateChunk(a, ptr)
  /\ UNCHANGED <<stage, mapped>>

SetupInit == Init /\ stage = "start" /\ mapped = {}

SetupNext ==
  \/ CreateAllocator \/ LayOut
  \/ ReserveRegions \/ AllocHandles \/ AllocLinks \/ Finish
  \/ Call

SetupSpec == SetupInit /\ [][SetupNext]_setupVars

-----------------------------------------------------------------------------
(* Properties.                                                             *)

OwnPages == PagesOf(AllocatorBase, AllocatorSize)
RegionPages == PagesOf(RegionsBase, RegionsSize)
HandlePages == PagesOf(HandlesBase, HandlesSize)
LinkPages == PagesOf(LinksBase, LinksSize)

\* Whichever memory is refused, and however an aligned reservation has to be cut, an
\* allocator that could not be made leaves nothing mapped, one that was made has its
\* memories and no more, and what a client holds, with its handle and link, is in them
\* (vmem_alloc_aligned, AllocatorMemoryBundle, Allocator::create).
NothingLeaks ==
  /\ stage \in {"start", "failed"} => mapped = {}
  /\ stage = "ready" => mapped = OwnPages \cup RegionPages \cup HandlePages \cup LinkPages
  /\ \A a \in given :
       PagesOf(ChunkStart(a), specs[a.region].chunk_size)
         \cup PagesOf(HandleStart(a.handle), HandleSize)
         \cup PagesOf(LinksBase + a.handle * LinkSize, LinkSize) \subseteq mapped
=============================================================================
