------------------------- MODULE RegionAllocator_proofs -------------------------
(***************************************************************************)
(* What RegionAllocator computes from an address is proved here for every  *)
(* configuration: any number and any sizes of regions, any splits.  The    *)
(* layout is built region by region, so what it promises is an invariant   *)
(* of the loop in create(), and no induction over regions is needed.       *)
(***************************************************************************)
EXTENDS RegionAllocator, TLAPS

-----------------------------------------------------------------------------
(* Arithmetic of addresses.                                                *)

\* What division leaves over is less than the divisor.
LEMMA DivBounds ==
  ASSUME NEW x \in Nat, NEW c \in Nat \ {0}
  PROVE  /\ x \div c \in Nat
         /\ (x \div c) * c <= x
         /\ x < (x \div c) * c + c
OBVIOUS

\* A quotient and a rest below the divisor are those of the division.
LEMMA DivUnique ==
  ASSUME NEW q \in Nat, NEW o \in Nat, NEW c \in Nat \ {0}, o < c
  PROVE  (q * c + o) \div c = q
OBVIOUS

\* A multiple has no rest.
LEMMA ModZero ==
  ASSUME NEW q \in Nat, NEW c \in Nat \ {0}
  PROVE  (q * c) % c = 0
OBVIOUS

\* A number without rest is a multiple.
LEMMA ModQuotient ==
  ASSUME NEW x \in Nat, NEW c \in Nat \ {0}, x % c = 0
  PROVE  \E q \in Nat : x = q * c
OBVIOUS

\* The sum of two multiples is one.
LEMMA ModSum ==
  ASSUME NEW x \in Nat, NEW y \in Nat, NEW c \in Nat \ {0}, x % c = 0, y % c = 0
  PROVE  (x + y) % c = 0
<1>1. PICK p \in Nat : x = p * c
  BY ModQuotient
<1>2. PICK q \in Nat : y = q * c
  BY ModQuotient
<1>3. x + y = (p + q) * c /\ p + q \in Nat
  BY <1>1, <1>2
<1>4. ((p + q) * c) % c = 0
  BY <1>3, ModZero
<1> QED
  BY <1>3, <1>4

\* Multiples of a multiple are multiples.
LEMMA ModProduct ==
  ASSUME NEW x \in Nat, NEW k \in Nat, NEW c \in Nat \ {0}, x % c = 0
  PROVE  (k * x) % c = 0
<1>1. PICK p \in Nat : x = p * c
  BY ModQuotient
<1>2. k * x = (k * p) * c /\ k * p \in Nat
  BY <1>1
<1> QED
  BY <1>2, ModZero

\* Products grow with their factors.
LEMMA ProductMonotone ==
  ASSUME NEW a \in Nat, NEW b \in Nat, NEW c \in Nat, a <= b
  PROVE  a * c <= b * c
OBVIOUS

\* The product of two numbers is a number.
LEMMA ProductInNat ==
  ASSUME NEW a \in Nat, NEW b \in Nat
  PROVE  a * b \in Nat
OBVIOUS

\* align() gives a multiple of the alignment, not less than what it is given.
LEMMA AlignFacts ==
  ASSUME NEW v \in Nat \ {0}, NEW a \in Nat \ {0}
  PROVE  Align(v, a) \in Nat \ {0} /\ Align(v, a) % a = 0
<1> DEFINE q == (v + a - 1) \div a
<1>1. q \in Nat /\ v + a - 1 < q * a + a
  BY DivBounds
<1>2. q # 0
  BY <1>1
<1>3. q * a \in Nat \ {0}
  BY <1>1, <1>2
<1> QED
  BY <1>1, <1>3, ModZero DEF Align

-----------------------------------------------------------------------------
(* The layout.                                                             *)

\* What create() has checked of a configuration.
LEMMA ConfigFacts ==
  ASSUME config \in Configs
  PROVE  /\ NumRegions \in Nat \ {0}
         /\ config.alignment \in RegionAlignments
         /\ config.alignment \in Nat \ {0}
         /\ config.splits \in Nat \ {0}
         /\ \A i \in Regions : /\ config.sizes[i] \in Nat \ {0}
                               /\ config.chunks[i] \in ChunkSizes
                               /\ config.chunks[i] \in Nat \ {0}
<1>1. PICK n \in 1 .. MaxRegions : config.sizes \in [1 .. n -> RegionSizes]
  BY DEF Configs
<1>2. PICK m \in 1 .. MaxRegions : config.chunks \in [1 .. m -> ChunkSizes]
  BY DEF Configs
<1>3. Len(config.sizes) = n /\ Len(config.chunks) = m
  BY <1>1, <1>2, ConfigAssumption
<1>4. n = m
  <2>1. Len(config.sizes) = Len(config.chunks)
    BY DEF Configs
  <2> QED
    BY <2>1, <1>3
<1>5. config.alignment \in RegionAlignments /\ config.splits \in Splits
  BY DEF Configs
<1>6. NumRegions = n /\ n \in Nat \ {0} /\ Regions = 1 .. n
  BY <1>3 DEF NumRegions, Regions
<1>7. config.alignment \in Nat \ {0} /\ config.splits \in Nat \ {0}
  BY <1>5, ConfigAssumption
<1>8. ASSUME NEW i \in Regions
      PROVE  /\ config.sizes[i] \in Nat \ {0}
             /\ config.chunks[i] \in ChunkSizes
             /\ config.chunks[i] \in Nat \ {0}
  <2>1. i \in 1 .. n /\ i \in 1 .. m
    BY <1>4, <1>6
  <2>2. config.sizes[i] \in RegionSizes /\ config.chunks[i] \in ChunkSizes
    BY <1>1, <1>2, <2>1
  <2> QED
    BY <2>2, ConfigAssumption
<1> QED
  BY <1>5, <1>6, <1>7, <1>8

\* Regions lie one behind the other, and so do their handles; if all are equal, the
\* start of a region follows from its number.
RegionOK(i) ==
  /\ specs[i].region_size = Align(config.sizes[i], config.alignment)
  /\ specs[i].chunk_size = config.chunks[i]
  /\ specs[i].num_handles = specs[i].region_size \div specs[i].chunk_size
  /\ specs[i].region_offset % config.alignment = 0
  /\ RegionEnd(i) <= regionOffset
  /\ HandleEnd(i) <= handleOffset
  /\ EqualSize # 0 => /\ specs[i].region_size = EqualSize
                      /\ specs[i].region_offset = (i - 1) * EqualSize
  /\ \A j \in 1 .. i - 1 : /\ RegionEnd(j) <= specs[i].region_offset
                           /\ HandleEnd(j) <= specs[i].handle_offset

Layout ==
  /\ \A i \in 1 .. Len(specs) : RegionOK(i)
  /\ regionOffset % config.alignment = 0
  /\ EqualSize # 0 => regionOffset = Len(specs) * EqualSize
  /\ \A h \in Nat : h < handleOffset =>
       \E i \in 1 .. Len(specs) : specs[i].handle_offset <= h /\ h < HandleEnd(i)

IInv == TypeOK /\ Layout

\* Where the regions are all of one size, all of them take up that many bytes.
LEMMA EqualFacts ==
  ASSUME config \in Configs
  PROVE  /\ EqualSize \in Nat
         /\ EqualSize # 0 =>
              \A i \in Regions : Align(config.sizes[i], config.alignment) = EqualSize
<1>1. 1 \in Regions
  BY ConfigFacts DEF Regions
<1>2. Align(config.sizes[1], config.alignment) \in Nat
  BY <1>1, ConfigFacts, AlignFacts
<1> QED
  BY <1>2 DEF EqualSize

\* Once everything is laid out, what is known of a region and its chunks.
LEMMA RegionFacts ==
  ASSUME IInv, Created, NEW r \in Regions
  PROVE  /\ specs[r] \in SpecType
         /\ RegionOK(r)
         /\ specs[r].num_handles * specs[r].chunk_size <= specs[r].region_size
<1>1. r \in 1 .. Len(specs)
  BY DEF IInv, TypeOK, Created, Regions
<1>2. specs[r] \in SpecType
  BY <1>1 DEF IInv, TypeOK
<1>3. RegionOK(r)
  BY <1>1 DEF IInv, Layout
<1>4. specs[r].num_handles = specs[r].region_size \div specs[r].chunk_size
  BY <1>3 DEF RegionOK
<1> QED
  BY <1>2, <1>3, <1>4, DivBounds DEF SpecType

\* The share of a split starts where that of the one before it ends.
LEMMA SplitFacts ==
  ASSUME IInv, Created, NEW r \in Regions, NEW s \in SplitsOf
  PROVE  /\ FirstHandle(r, s) \in Nat
         /\ LastHandle(r, s) \in Nat
         /\ specs[r].handle_offset <= FirstHandle(r, s)
         /\ FirstHandle(r, s) <= LastHandle(r, s)
         /\ LastHandle(r, s) <= HandleEnd(r)
         /\ \A q \in SplitsOf : q < s => LastHandle(r, q) <= FirstHandle(r, s)
<1> DEFINE n == specs[r].num_handles
           h == HandlesPerSplit(r)
<1>1. n \in Nat /\ specs[r].handle_offset \in Nat
  BY RegionFacts DEF SpecType
<1>2. config.splits \in Nat \ {0}
  BY ConfigFacts DEF IInv, TypeOK
<1>3. h \in Nat
  BY <1>1, <1>2, DivBounds DEF HandlesPerSplit
<1>4. s \in Nat
  BY <1>2 DEF SplitsOf
<1>5. h * s \in Nat /\ h * (s + 1) \in Nat /\ h * s <= h * (s + 1)
  BY <1>3, <1>4
<1>6. \A q \in SplitsOf : q < s => h * (q + 1) \in Nat /\ h * (q + 1) <= h * s
  <2> SUFFICES ASSUME NEW q \in SplitsOf, q < s
               PROVE  h * (q + 1) \in Nat /\ h * (q + 1) <= h * s
    OBVIOUS
  <2>1. q \in Nat /\ q + 1 <= s
    BY <1>2, <1>4 DEF SplitsOf
  <2> QED
    BY <2>1, <1>3, <1>4
<1> HIDE DEF n, h
<1>7. \A q \in SplitsOf : q < s => LastHandle(r, q) <= FirstHandle(r, s)
  BY <1>1, <1>5, <1>6 DEF LastHandle, FirstHandle, MinOf, n, h
<1> QED
  BY <1>1, <1>5, <1>7 DEF LastHandle, FirstHandle, HandleEnd, MinOf, n, h
-----------------------------------------------------------------------------
(* From an address back to the chunk.                                      *)

\* What is known of a chunk a client holds.
LEMMA GivenFacts ==
  ASSUME IInv, NEW a \in given
  PROVE  /\ Created
         /\ a.region \in Regions /\ a.split \in SplitsOf
         /\ a.handle \in Nat /\ a.chunk \in Nat
         /\ FirstHandle(a.region, a.split) <= a.handle
         /\ a.handle < LastHandle(a.region, a.split)
         /\ a.handle = specs[a.region].handle_offset + a.chunk
         /\ a.chunk < specs[a.region].num_handles
         /\ a = Allocation(a.region, a.chunk, a.handle, a.split)
<1>1. Created
  BY DEF IInv, TypeOK
<1>2. a.region \in Regions /\ a.split \in SplitsOf
  BY DEF IInv, TypeOK, Pools
<1> DEFINE r == a.region
           s == a.split
<1>3. a.handle \in FirstHandle(r, s) .. LastHandle(r, s) - 1
  BY DEF IInv, TypeOK
<1>4. a = Allocation(r, a.handle - specs[r].handle_offset, a.handle, s)
  BY DEF IInv, TypeOK
<1>5. specs[r] \in SpecType
  BY <1>1, <1>2, RegionFacts
<1>6. /\ FirstHandle(r, s) \in Nat /\ LastHandle(r, s) \in Nat
      /\ specs[r].handle_offset <= FirstHandle(r, s)
      /\ LastHandle(r, s) <= HandleEnd(r)
  BY <1>1, <1>2, SplitFacts
<1>7. a.chunk = a.handle - specs[r].handle_offset
  BY <1>4 DEF Allocation
<1>8. /\ a.handle \in Nat /\ FirstHandle(r, s) <= a.handle /\ a.handle < LastHandle(r, s)
  BY <1>3, <1>6
<1>9. /\ a.chunk \in Nat /\ a.handle = specs[r].handle_offset + a.chunk
      /\ a.chunk < specs[r].num_handles
  BY <1>5, <1>6, <1>7, <1>8 DEF SpecType, HandleEnd
<1>10. a = Allocation(r, a.chunk, a.handle, s)
  BY <1>4, <1>7
<1> QED
  BY <1>1, <1>2, <1>8, <1>9, <1>10

\* Where an address in a chunk lies.
LEMMA AddressFacts ==
  ASSUME IInv, NEW a \in given, NEW ptr \in ChunkBytes(a)
  PROVE  /\ ptr - RegionsBase \in Nat
         /\ \E o \in 0 .. specs[a.region].chunk_size - 1 :
              ptr - RegionsBase = specs[a.region].region_offset
                                    + (a.chunk * specs[a.region].chunk_size + o)
         /\ specs[a.region].region_offset <= ptr - RegionsBase
         /\ ptr - RegionsBase < RegionEnd(a.region)
<1> DEFINE R == specs[a.region]
           c == R.chunk_size
           o == ptr - ChunkStart(a)
<1>1. Created /\ a.region \in Regions /\ a.chunk \in Nat /\ a.chunk < R.num_handles
  BY GivenFacts
<1>2. R \in SpecType /\ R.num_handles * c <= R.region_size
  BY <1>1, RegionFacts
<1>3. /\ R.region_offset \in Nat /\ c \in Nat \ {0} /\ R.region_size \in Nat
      /\ R.num_handles \in Nat
  BY <1>2 DEF SpecType
<1>4. a.chunk * c \in Nat /\ (a.chunk + 1) * c <= R.num_handles * c
  BY <1>1, <1>3, ProductMonotone
<1>5. (a.chunk + 1) * c = a.chunk * c + c
  BY <1>1, <1>3
<1>6. RegionsBase \in Nat
  BY ConfigAssumption
<1> DEFINE k == a.chunk * c
<1>7. ptr \in RegionsBase + R.region_offset + k .. RegionsBase + R.region_offset + k + c - 1
  BY DEF ChunkBytes, ChunkStart
<1>8. k \in Nat /\ k + c <= R.num_handles * c
  BY <1>4, <1>5
<1>9. o = ptr - (RegionsBase + R.region_offset + k)
  BY DEF ChunkStart
<1> HIDE DEF k, o
<1>10. o \in 0 .. c - 1 /\ ptr - RegionsBase = R.region_offset + (k + o)
  BY <1>3, <1>6, <1>7, <1>8, <1>9
<1>11. k + o < R.region_size
  <2> DEFINE m == R.num_handles * c
  <2>1. m \in Nat /\ m <= R.region_size /\ k + c <= m
    BY <1>2, <1>3, <1>8, ProductInNat
  <2> HIDE DEF m
  <2> QED
    BY <2>1, <1>3, <1>8, <1>10
<1>12. /\ ptr - RegionsBase \in Nat /\ R.region_offset <= ptr - RegionsBase
       /\ ptr - RegionsBase < R.region_offset + R.region_size
  BY <1>3, <1>8, <1>10, <1>11
<1> QED
  BY <1>10, <1>12 DEF k, RegionEnd

\* The region is found again, by division as by search.
LEMMA HostingRegionFound ==
  ASSUME IInv, NEW a \in given, NEW ptr \in ChunkBytes(a)
  PROVE  HostingRegion(ptr - RegionsBase) = a.region
<1> DEFINE r == a.region
           rel == ptr - RegionsBase
<1>1. Created /\ r \in Regions
  BY GivenFacts
<1>2. rel \in Nat /\ specs[r].region_offset <= rel /\ rel < RegionEnd(r)
  BY AddressFacts
<1>3. RegionOK(r) /\ specs[r] \in SpecType
  BY <1>1, RegionFacts
<1>4. r \in Nat \ {0}
  BY <1>1 DEF Regions
<1> HIDE DEF r, rel
<1>5. CASE EqualSize # 0
  <2>1. /\ EqualSize \in Nat \ {0}
        /\ specs[r].region_size = EqualSize
        /\ specs[r].region_offset = (r - 1) * EqualSize
    BY <1>3, <1>5, EqualFacts DEF IInv, TypeOK, RegionOK
  <2> DEFINE o == rel - (r - 1) * EqualSize
  <2>2. (r - 1) * EqualSize \in Nat
    BY <1>4, <2>1
  <2>3. o \in Nat /\ o < EqualSize /\ rel = (r - 1) * EqualSize + o
    BY <1>2, <2>1, <2>2 DEF RegionEnd
  <2>4. r - 1 \in Nat
    BY <1>4
  <2> HIDE DEF o
  <2>5. rel \div EqualSize = r - 1
    BY <2>1, <2>3, <2>4, DivUnique
  <2> QED
    BY <1>4, <1>5, <2>5 DEF HostingRegion, rel, r
<1>6. CASE EqualSize = 0
  <2> DEFINE found == {q \in Regions : rel < RegionEnd(q)}
  <2>1. r \in found
    BY <1>1, <1>2 DEF r
  <2>2. ASSUME NEW q \in found
        PROVE  r <= q
    <3>1. q \in Nat /\ q \in Regions /\ rel < RegionEnd(q)
      BY DEF Regions
    <3>2. ASSUME q < r
          PROVE  FALSE
      <4>1. q \in 1 .. r - 1
        BY <1>4, <3>1, <3>2 DEF Regions
      <4>2. RegionEnd(q) <= specs[r].region_offset
        BY <1>3, <4>1 DEF RegionOK
      <4>3. specs[q] \in SpecType
        BY <1>1, <3>1, RegionFacts
      <4> QED
        BY <1>2, <1>3, <3>1, <4>2, <4>3 DEF RegionEnd, SpecType
    <3> QED
      BY <1>4, <3>1, <3>2
  <2>3. ASSUME NEW q \in found, \A p \in found : q <= p
        PROVE  q = r
    <3>1. q \in Nat
      BY DEF Regions
    <3> QED
      BY <1>4, <2>1, <2>2, <2>3, <3>1
  <2>4. (CHOOSE q \in found : \A p \in found : q <= p) = r
    BY <2>1, <2>2, <2>3
  <2> QED
    BY <1>6, <2>1, <2>4 DEF HostingRegion, SearchHostingRegion, rel, r
<1> QED
  BY <1>5, <1>6, <1>3, EqualFacts DEF rel, r

\* And so is the pool.
LEMMA PoolFound ==
  ASSUME IInv, NEW a \in given
  PROVE  SearchPoolSplit(a.region, a.handle) = a.split
<1> DEFINE r == a.region
           s == a.split
           found == {q \in SplitsOf : a.handle < LastHandle(r, q)}
<1>1. /\ Created /\ r \in Regions /\ s \in SplitsOf /\ a.handle \in Nat
      /\ FirstHandle(r, s) <= a.handle /\ a.handle < LastHandle(r, s)
  BY GivenFacts
<1>2. s \in found
  BY <1>1
<1>3. \A q \in SplitsOf : q \in Nat
  BY ConfigFacts DEF SplitsOf, IInv, TypeOK
<1>4. ASSUME NEW q \in found
      PROVE  s <= q
  <2>1. q \in SplitsOf /\ a.handle < LastHandle(r, q)
    OBVIOUS
  <2>2. LastHandle(r, q) \in Nat
    BY <1>1, <2>1, SplitFacts
  <2>3. FirstHandle(r, s) \in Nat /\ (q < s => LastHandle(r, q) <= FirstHandle(r, s))
    BY <1>1, <2>1, SplitFacts
  <2> QED
    BY <1>1, <1>3, <2>1, <2>2, <2>3
<1>5. ASSUME NEW q \in found, \A p \in found : q <= p
      PROVE  q = s
  BY <1>1, <1>2, <1>3, <1>4, <1>5
<1>6. (CHOOSE q \in found : \A p \in found : q <= p) = s
  BY <1>2, <1>4, <1>5
<1> QED
  BY <1>2, <1>6 DEF SearchPoolSplit

\* A pointer into a chunk leads back to the chunk's allocation.
LEMMA AllocationFound ==
  ASSUME IInv, NEW a \in given, NEW ptr \in ChunkBytes(a)
  PROVE  BelongsAnyRegion(ptr) /\ PtrToAllocation(ptr) = a
<1> DEFINE r == a.region
           R == specs[r]
           rel == ptr - RegionsBase
<1>1. /\ Created /\ r \in Regions /\ a.chunk \in Nat
      /\ a.handle = R.handle_offset + a.chunk
      /\ a = Allocation(r, a.chunk, a.handle, a.split)
  BY GivenFacts
<1>2. RegionOK(r) /\ R \in SpecType
  BY <1>1, RegionFacts
<1>3. rel \in Nat /\ rel < RegionEnd(r)
  BY AddressFacts
<1>4. PICK o \in 0 .. R.chunk_size - 1 :
        rel = R.region_offset + (a.chunk * R.chunk_size + o)
  BY AddressFacts
<1>5. /\ R.region_offset \in Nat /\ R.chunk_size \in Nat \ {0} /\ R.region_size \in Nat
      /\ o \in Nat /\ o < R.chunk_size
  BY <1>2 DEF SpecType
<1>6. ptr \in Nat /\ RegionsBase \in Nat /\ regionOffset \in Nat
  <2>1. ChunkStart(a) \in Nat
    BY <1>1, <1>5, ProductInNat, ConfigAssumption DEF ChunkStart
  <2> QED
    BY <2>1, <1>5, ConfigAssumption DEF ChunkBytes, IInv, TypeOK
<1>7. BelongsAnyRegion(ptr)
  <2>1. RegionEnd(r) <= regionOffset
    BY <1>2 DEF RegionOK
  <2> QED
    BY <2>1, <1>3, <1>5, <1>6 DEF BelongsAnyRegion, RegionEnd
<1>8. ChunkOf(rel, r) = a.chunk
  <2>1. rel - R.region_offset = a.chunk * R.chunk_size + o
    BY <1>1, <1>4, <1>5, ProductInNat
  <2>2. (a.chunk * R.chunk_size + o) \div R.chunk_size = a.chunk
    BY <1>1, <1>5, DivUnique
  <2>3. ChunkOf(rel, r) = (rel - R.region_offset) \div R.chunk_size
    BY DEF ChunkOf
  <2> HIDE DEF rel, R
  <2> QED
    BY <2>1, <2>2, <2>3
<1>9. HostingRegion(rel) = r
  BY HostingRegionFound
<1>10. SearchPoolSplit(r, a.handle) = a.split
  BY PoolFound
<1>11. PtrToAllocation(ptr) = Allocation(r, a.chunk, a.handle, a.split)
  BY <1>1, <1>7, <1>8, <1>9, <1>10 DEF PtrToAllocation
<1> QED
  BY <1>1, <1>7, <1>11

\* The handle of an allocation is one of those that were laid out.
LEMMA HandleFacts ==
  ASSUME IInv, NEW a \in given
  PROVE  /\ a.handle < handleOffset
         /\ IndexFromHandle(HandleStart(a.handle)) = a.handle
<1>1. /\ Created /\ a.region \in Regions /\ a.split \in SplitsOf /\ a.handle \in Nat
      /\ a.handle < LastHandle(a.region, a.split)
  BY GivenFacts
<1>2. /\ LastHandle(a.region, a.split) \in Nat
      /\ LastHandle(a.region, a.split) <= HandleEnd(a.region)
  BY <1>1, SplitFacts
<1>3. HandleEnd(a.region) <= handleOffset /\ HandleEnd(a.region) \in Nat
  BY <1>1, RegionFacts DEF RegionOK, HandleEnd, SpecType
<1>4. a.handle < handleOffset /\ handleOffset \in Nat
  BY <1>1, <1>2, <1>3 DEF IInv, TypeOK
<1> DEFINE x == a.handle * HandleSize
           e == handleOffset * HandleSize
<1>5. HandlesBase \in Nat /\ HandleSize \in Nat \ {0} /\ HandlesBase % HandleSize = 0
  BY ConfigAssumption
<1>6. x \in Nat /\ e \in Nat /\ x < e
  <2>1. (a.handle + 1) * HandleSize <= e
    BY <1>1, <1>4, <1>5, ProductMonotone
  <2>2. (a.handle + 1) * HandleSize = x + HandleSize
    BY <1>1, <1>5
  <2>3. x \in Nat /\ e \in Nat
    BY <1>1, <1>4, <1>5, ProductInNat
  <2> HIDE DEF x, e
  <2> QED
    BY <2>1, <2>2, <2>3, <1>5
<1>7. x % HandleSize = 0
  BY <1>1, <1>5, ModZero
<1>8. x \div HandleSize = a.handle
  <2>1. (a.handle * HandleSize + 0) \div HandleSize = a.handle
    BY <1>1, <1>5, DivUnique
  <2>2. x + 0 = x
    BY <1>6
  <2> QED
    BY <2>1, <2>2
<1> HIDE DEF x, e
<1>9. (HandlesBase + x) % HandleSize = 0
  BY <1>5, <1>6, <1>7, ModSum
<1>10. HandleStart(a.handle) = HandlesBase + x /\ HandlesEnd = HandlesBase + e
  BY DEF HandleStart, HandlesEnd, x, e
<1>11. /\ HandlesBase <= HandlesBase + x /\ HandlesBase + x < HandlesBase + e
       /\ HandlesBase + x - HandlesBase = x
  BY <1>5, <1>6
<1>12. IndexFromHandle(HandlesBase + x) = (HandlesBase + x - HandlesBase) \div HandleSize
  BY <1>5, <1>6, <1>9, <1>10, <1>11 DEF IndexFromHandle
<1>13. IndexFromHandle(HandlesBase + x) = x \div HandleSize
  BY <1>11, <1>12
<1> QED
  BY <1>4, <1>8, <1>10, <1>13

\* The invariant implies that every pointer comes home.
LEMMA InvComesHome ==
  ASSUME IInv
  PROVE  ComesHome
BY AllocationFound, HandleFacts DEF ComesHome, HandleFromIndex

\* No two pools share a handle.
LEMMA PoolsApart ==
  ASSUME IInv, Created, NEW r \in Regions, NEW q \in Regions,
         NEW s \in SplitsOf, NEW u \in SplitsOf, NEW h \in Nat,
         FirstHandle(r, s) <= h, h < LastHandle(r, s),
         FirstHandle(q, u) <= h, h < LastHandle(q, u)
  PROVE  r = q /\ s = u
<1>1. r \in Nat /\ q \in Nat /\ s \in Nat /\ u \in Nat
  BY ConfigFacts DEF Regions, SplitsOf, IInv, TypeOK
<1>2. /\ specs[r].handle_offset <= h /\ h < HandleEnd(r)
      /\ specs[q].handle_offset <= h /\ h < HandleEnd(q)
      /\ HandleEnd(r) \in Nat /\ HandleEnd(q) \in Nat
      /\ specs[r].handle_offset \in Nat /\ specs[q].handle_offset \in Nat
  <2>1. specs[r] \in SpecType /\ specs[q] \in SpecType
    BY RegionFacts
  <2>2. /\ specs[r].handle_offset \in Nat /\ specs[q].handle_offset \in Nat
        /\ HandleEnd(r) \in Nat /\ HandleEnd(q) \in Nat
    BY <2>1 DEF SpecType, HandleEnd
  <2>3. /\ FirstHandle(r, s) \in Nat /\ LastHandle(r, s) \in Nat
        /\ specs[r].handle_offset <= FirstHandle(r, s)
        /\ LastHandle(r, s) <= HandleEnd(r)
    BY SplitFacts
  <2>4. /\ FirstHandle(q, u) \in Nat /\ LastHandle(q, u) \in Nat
        /\ specs[q].handle_offset <= FirstHandle(q, u)
        /\ LastHandle(q, u) <= HandleEnd(q)
    BY SplitFacts
  <2> QED
    BY <2>2, <2>3, <2>4
<1>3. ~ (r < q)
  <2>1. r < q => r \in 1 .. q - 1
    BY <1>1 DEF Regions
  <2>2. r < q => HandleEnd(r) <= specs[q].handle_offset
    BY <2>1, RegionFacts DEF RegionOK
  <2> QED
    BY <1>2, <2>2
<1>4. ~ (q < r)
  <2>1. q < r => q \in 1 .. r - 1
    BY <1>1 DEF Regions
  <2>2. q < r => HandleEnd(q) <= specs[r].handle_offset
    BY <2>1, RegionFacts DEF RegionOK
  <2> QED
    BY <1>2, <2>2
<1>5. r = q
  BY <1>1, <1>3, <1>4
<1>6. /\ FirstHandle(r, s) \in Nat /\ LastHandle(r, s) \in Nat
      /\ FirstHandle(r, u) \in Nat /\ LastHandle(r, u) \in Nat
      /\ u < s => LastHandle(r, u) <= FirstHandle(r, s)
      /\ s < u => LastHandle(r, s) <= FirstHandle(r, u)
  BY SplitFacts
<1> QED
  BY <1>1, <1>5, <1>6

\* The invariant implies that allocations share no memory.
LEMMA InvMemoryApart ==
  ASSUME IInv
  PROVE  MemoryApart
<1> SUFFICES ASSUME NEW a \in given
             PROVE  /\ \A ptr \in ChunkBytes(a) : BelongsAnyRegion(ptr)
                    /\ ChunkStart(a) % MinOf(config.alignment,
                                             specs[a.region].chunk_size) = 0
                    /\ a.handle < handleOffset
                    /\ \A b \in given \ {a} :
                         /\ ChunkBytes(a) \cap ChunkBytes(b) = {}
                         /\ a.handle # b.handle
  BY DEF MemoryApart
<1>1. ChunkStart(a) % MinOf(config.alignment, specs[a.region].chunk_size) = 0
  <2> DEFINE R == specs[a.region]
             A == config.alignment
             m == MinOf(A, R.chunk_size)
  <2>1. Created /\ a.region \in Regions /\ a.chunk \in Nat
    BY GivenFacts
  <2>2. RegionOK(a.region) /\ R \in SpecType
    BY <2>1, RegionFacts
  <2>3. /\ A \in RegionAlignments /\ A \in Nat \ {0}
        /\ R.chunk_size \in ChunkSizes /\ R.chunk_size \in Nat \ {0}
    BY <2>1, <2>2, ConfigFacts DEF IInv, TypeOK, RegionOK
  <2>4. m \in Nat \ {0} /\ A % m = 0 /\ R.chunk_size % m = 0
    BY <2>3, ConfigAssumption DEF MinOf
  <2>5. /\ RegionsBase \in Nat /\ RegionsBase % A = 0
        /\ R.region_offset \in Nat /\ R.region_offset % A = 0
    BY <2>2, <2>3, ConfigAssumption DEF RegionOK, SpecType
  <2> HIDE DEF m
  <2>6. ASSUME NEW x \in Nat, x % A = 0
        PROVE  x % m = 0
    <3>1. PICK k \in Nat : x = k * A
      BY <2>3, <2>6, ModQuotient
    <3> QED
      BY <2>3, <2>4, <3>1, ModProduct
  <2>7. (a.chunk * R.chunk_size) % m = 0 /\ a.chunk * R.chunk_size \in Nat
    BY <2>1, <2>3, <2>4, ModProduct, ProductInNat
  <2>8. RegionsBase % m = 0 /\ R.region_offset % m = 0
    BY <2>5, <2>6
  <2>9. (RegionsBase + R.region_offset) % m = 0 /\ RegionsBase + R.region_offset \in Nat
    <3>1. RegionsBase + R.region_offset \in Nat
      BY <2>5
    <3>2. (RegionsBase + R.region_offset) % m = 0
      BY <2>4, <2>5, <2>8, ModSum, Zenon
    <3> QED
      BY <3>1, <3>2
  <2>10. (RegionsBase + R.region_offset + a.chunk * R.chunk_size) % m = 0
    BY <2>4, <2>7, <2>9, ModSum, Zenon
  <2> QED
    BY <2>10 DEF ChunkStart, m
<1>2. ASSUME NEW b \in given, ChunkBytes(a) \cap ChunkBytes(b) # {}
      PROVE  a = b
  <2>1. PICK ptr \in ChunkBytes(a) : ptr \in ChunkBytes(b)
    BY <1>2
  <2> QED
    BY <2>1, AllocationFound
<1>3. ASSUME NEW b \in given, a.handle = b.handle
      PROVE  a = b
  <2>1. a.region = b.region /\ a.split = b.split
    BY <1>3, GivenFacts, PoolsApart
  <2>2. /\ a = Allocation(a.region, a.handle - specs[a.region].handle_offset,
                          a.handle, a.split)
        /\ b = Allocation(b.region, b.handle - specs[b.region].handle_offset,
                          b.handle, b.split)
    BY DEF IInv, TypeOK
  <2> QED
    BY <1>3, <2>1, <2>2
<1> QED
  BY <1>1, <1>2, <1>3, AllocationFound, HandleFacts

-----------------------------------------------------------------------------
(* The steps.                                                              *)

\* The handles of one split end where those of the next begin.
LEMMA ShareFacts ==
  ASSUME NEW n \in Nat, NEW k \in Nat \ {0}, NEW s \in Nat
  PROVE  /\ MinOf(((n + k - 1) \div k) * s, n) \in Nat
         /\ MinOf(((n + k - 1) \div k) * (s + 1), n) \in Nat
         /\ MinOf(((n + k - 1) \div k) * s, n) <= MinOf(((n + k - 1) \div k) * (s + 1), n)
<1> DEFINE h == (n + k - 1) \div k
<1>1. h \in Nat
  BY DivBounds
<1>2. h * s \in Nat /\ h * (s + 1) \in Nat /\ h * s <= h * (s + 1)
  BY <1>1
<1> HIDE DEF h
<1>3. /\ MinOf(h * s, n) \in Nat /\ MinOf(h * (s + 1), n) \in Nat
      /\ MinOf(h * s, n) <= MinOf(h * (s + 1), n)
  BY <1>2 DEF MinOf
<1> QED
  BY <1>3 DEF h

\* The invariant holds before the first region is added.
LEMMA InitInv == Init => IInv
<1> SUFFICES ASSUME Init
             PROVE  IInv
  OBVIOUS
<1>1. config \in Configs /\ specs = <<>> /\ Len(specs) = 0
  BY DEF Init
<1>2. NumRegions \in Nat \ {0} /\ config.alignment \in Nat \ {0}
  BY <1>1, ConfigFacts
<1>3. ~ Created
  BY <1>1, <1>2 DEF Created
<1>4. TypeOK
  BY <1>1, <1>2, <1>3 DEF Init, TypeOK
<1>5. EqualSize \in Nat
  BY <1>1, EqualFacts
<1>6. regionOffset = 0 /\ 0 % config.alignment = 0 /\ 0 = 0 * EqualSize
  BY <1>2, <1>5 DEF Init
<1>7. Layout
  BY <1>1, <1>6 DEF Init, Layout
<1> QED
  BY <1>4, <1>7 DEF IInv

\* Adding a region keeps the invariant.
LEMMA AddRegionStep ==
  ASSUME IInv, AddRegion
  PROVE  IInv'
<1>0. PICK n \in Nat : n = Len(specs)
  BY DEF IInv, TypeOK
<1> DEFINE i == n + 1
           size == Align(config.sizes[i], config.alignment)
           spec == NewSpec(size, config.chunks[i])
<1>1. /\ i \in Regions
      /\ specs' = Append(specs, spec)
      /\ regionOffset' = regionOffset + size
      /\ handleOffset' = handleOffset + spec.num_handles
      /\ config' = config /\ list' = list /\ top' = top /\ given' = given
  BY <1>0 DEF AddRegion, poolVars
<1>2. /\ config \in Configs /\ specs \in Seq(SpecType) /\ n \in Nat
      /\ regionOffset \in Nat /\ handleOffset \in Nat
  BY <1>0 DEF IInv, TypeOK
<1>3. /\ NumRegions \in Nat \ {0} /\ config.alignment \in Nat \ {0}
      /\ config.splits \in Nat \ {0}
      /\ config.sizes[i] \in Nat \ {0} /\ config.chunks[i] \in Nat \ {0}
  BY <1>1, <1>2, ConfigFacts
<1>4. ~ Created
  BY <1>0, <1>1, <1>2, <1>3 DEF Created, Regions
<1>5. size \in Nat \ {0} /\ size % config.alignment = 0
  BY <1>3, AlignFacts
<1>6. /\ spec.region_offset = regionOffset /\ spec.region_size = size
      /\ spec.chunk_size = config.chunks[i] /\ spec.handle_offset = handleOffset
      /\ spec.num_handles = size \div config.chunks[i]
      /\ spec.num_handles \in Nat
      /\ spec \in SpecType
  <2>1. size \div config.chunks[i] \in Nat
    BY <1>3, <1>5, DivBounds
  <2> HIDE DEF size
  <2> QED
    BY <2>1, <1>2, <1>3, <1>5 DEF NewSpec, SpecType
<1> HIDE DEF size, spec
<1>7. /\ specs' \in Seq(SpecType) /\ Len(specs') = i
      /\ \A j \in 1 .. n : specs'[j] = specs[j]
      /\ specs'[i] = spec
  BY <1>0, <1>1, <1>2, <1>6
<1>8. /\ NumRegions' = NumRegions /\ Regions' = Regions /\ SplitsOf' = SplitsOf
      /\ Pools' = Pools /\ EqualSize' = EqualSize
  BY <1>1 DEF NumRegions, Regions, SplitsOf, Pools, EqualSize
<1>9. TypeOK'
  <2>1. list = [p \in Pools |-> <<>>] /\ top = [p \in Pools |-> 0] /\ given = {}
    BY <1>4 DEF IInv, TypeOK
  <2>2. Len(specs') <= NumRegions
    BY <1>1, <1>2, <1>3, <1>7 DEF Regions
  <2>3. ASSUME Created', NEW p \in Pools
        PROVE  0 <= PoolRoom(p)'
    <3>1. p[1] \in Regions /\ p[2] \in SplitsOf
      BY DEF Pools
    <3>2. p[1] \in 1 .. Len(specs')
      BY <2>3, <3>1, <1>8 DEF Created, Regions
    <3> DEFINE R == specs'[p[1]]
               m == R.num_handles
               k == config.splits
               h == (m + k - 1) \div k
    <3>3. R \in SpecType
      BY <3>2, <1>7
    <3>4. m \in Nat /\ R.handle_offset \in Nat
      BY <3>3 DEF SpecType
    <3>5. p[2] \in Nat
      BY <3>1, <1>3 DEF SplitsOf
    <3>6. MinOf(h * p[2], m) \in Nat /\ MinOf(h * p[2], m) <= MinOf(h * (p[2] + 1), m)
      BY <1>3, <3>4, <3>5, ShareFacts
    <3>7. /\ FirstHandle(p[1], p[2])' = R.handle_offset + MinOf(h * p[2], m)
          /\ LastHandle(p[1], p[2])' = R.handle_offset + MinOf(h * (p[2] + 1), m)
      BY <1>1 DEF FirstHandle, LastHandle, HandlesPerSplit
    <3>8. MinOf(h * (p[2] + 1), m) \in Nat
      BY <1>3, <3>4, <3>5, ShareFacts
    <3> HIDE DEF R, m, h
    <3> QED
      BY <3>4, <3>6, <3>7, <3>8 DEF PoolRoom
  <2>4. ASSUME Created', NEW p \in Pools
        PROVE  /\ list[p] \in Seq((FirstHandle(p[1], p[2]) .. LastHandle(p[1], p[2]) - 1)')
               /\ top[p] <= PoolRoom(p)'
    BY <2>1, <2>3, <2>4
  <2>5. top \in [Pools -> Nat] /\ DOMAIN list = Pools
    BY <2>1
  <2>6. handleOffset' \in Nat /\ regionOffset' \in Nat
    BY <1>1, <1>2, <1>5, <1>6
  <2> QED
    BY <1>1, <1>2, <1>7, <1>8, <2>1, <2>2, <2>4, <2>5, <2>6 DEF TypeOK
<1>10. Layout'
  <2>1. /\ \A j \in 1 .. n : RegionOK(j)
        /\ regionOffset % config.alignment = 0
        /\ EqualSize # 0 => regionOffset = n * EqualSize
        /\ \A h \in Nat : h < handleOffset =>
             \E j \in 1 .. n : specs[j].handle_offset <= h /\ h < HandleEnd(j)
    BY <1>0 DEF IInv, Layout
  <2>2. /\ \A j \in 1 .. n : RegionEnd(j)' = RegionEnd(j) /\ HandleEnd(j)' = HandleEnd(j)
        /\ RegionEnd(i)' = regionOffset' /\ HandleEnd(i)' = handleOffset'
    BY <1>1, <1>2, <1>6, <1>7 DEF RegionEnd, HandleEnd
  <2>3. ASSUME NEW j \in 1 .. n
        PROVE  RegionOK(j)'
    <3>1. RegionOK(j) /\ specs[j] \in SpecType
      BY <1>0, <1>2, <2>1
    <3>2. RegionEnd(j) \in Nat /\ HandleEnd(j) \in Nat
      BY <3>1 DEF RegionEnd, HandleEnd, SpecType
    <3>3. RegionEnd(j)' <= regionOffset' /\ HandleEnd(j)' <= handleOffset'
      BY <1>1, <1>2, <1>5, <1>6, <2>2, <3>1, <3>2 DEF RegionOK
    <3>4. specs'[j] = specs[j] /\ \A q \in 1 .. j - 1 : q \in 1 .. n
      BY <1>2, <1>7
    <3> QED
      BY <1>1, <1>8, <2>2, <3>1, <3>3, <3>4 DEF RegionOK
  <2>4. RegionOK(i)'
    <3>1. ASSUME NEW q \in 1 .. i - 1
          PROVE  RegionEnd(q)' <= regionOffset /\ HandleEnd(q)' <= handleOffset
      BY <1>2, <2>1, <2>2 DEF RegionOK
    <3>2. EqualSize # 0 => /\ size = EqualSize
                           /\ regionOffset = (i - 1) * EqualSize
      <4>1. EqualSize # 0 => Align(config.sizes[i], config.alignment) = EqualSize
        BY <1>1, <1>2, EqualFacts
      <4>2. i - 1 = n
        BY <1>2
      <4> QED
        BY <2>1, <4>1, <4>2 DEF size
    <3>3. /\ specs'[i].region_size = Align(config'.sizes[i], config'.alignment)
          /\ specs'[i].chunk_size = config'.chunks[i]
          /\ specs'[i].num_handles = specs'[i].region_size \div specs'[i].chunk_size
          /\ specs'[i].region_offset % config'.alignment = 0
      BY <1>1, <1>6, <1>7, <2>1 DEF size
    <3>4. RegionEnd(i)' <= regionOffset' /\ HandleEnd(i)' <= handleOffset'
      BY <1>1, <1>2, <1>5, <1>6, <2>2
    <3> QED
      BY <1>6, <1>7, <1>8, <3>1, <3>2, <3>3, <3>4 DEF RegionOK
  <2>5. (regionOffset + size) % config.alignment = 0
    BY <1>2, <1>3, <1>5, <2>1, ModSum
  <2>6. EqualSize # 0 => regionOffset + size = i * EqualSize
    <3>1. EqualSize # 0 => Align(config.sizes[i], config.alignment) = EqualSize
      BY <1>1, <1>2, EqualFacts
    <3>2. EqualSize \in Nat
      BY <1>2, EqualFacts
    <3>3. n * EqualSize + EqualSize = i * EqualSize
      BY <1>2, <3>2
    <3> QED
      BY <2>1, <3>1, <3>3 DEF size
  <2>7. ASSUME NEW h \in Nat, h < handleOffset'
        PROVE  \E j \in 1 .. i : specs'[j].handle_offset <= h /\ h < HandleEnd(j)'
    <3>1. CASE h < handleOffset
      <4>1. PICK j \in 1 .. n : specs[j].handle_offset <= h /\ h < HandleEnd(j)
        BY <2>1, <3>1
      <4>2. j \in 1 .. i /\ specs'[j] = specs[j] /\ HandleEnd(j)' = HandleEnd(j)
        BY <1>2, <1>7, <2>2
      <4> QED
        BY <4>1, <4>2
    <3>2. CASE handleOffset <= h
      <4>1. i \in 1 .. i
        BY <1>2
      <4> QED
        BY <1>2, <1>6, <1>7, <2>2, <2>7, <3>2, <4>1
    <3> QED
      BY <1>2, <3>1, <3>2
  <2>8. \A j \in 1 .. i : j = i \/ j \in 1 .. n
    BY <1>2
  <2> QED
    BY <1>1, <1>7, <1>8, <2>3, <2>4, <2>5, <2>6, <2>7, <2>8 DEF Layout
<1> QED
  BY <1>9, <1>10 DEF IInv

\* What the calls leave as it is.
LEMMA SameLayout ==
  ASSUME IInv, UNCHANGED specVars
  PROVE  /\ Layout'
         /\ Created' = Created /\ Pools' = Pools /\ SplitsOf' = SplitsOf
         /\ \A r, s : /\ FirstHandle(r, s)' = FirstHandle(r, s)
                      /\ LastHandle(r, s)' = LastHandle(r, s)
         /\ \A p : PoolRoom(p)' = PoolRoom(p)
<1>1. /\ config' = config /\ specs' = specs
      /\ regionOffset' = regionOffset /\ handleOffset' = handleOffset
  BY DEF specVars
<1>2. /\ \A r : RegionEnd(r)' = RegionEnd(r) /\ HandleEnd(r)' = HandleEnd(r)
      /\ EqualSize' = EqualSize
  BY <1>1 DEF RegionEnd, HandleEnd, EqualSize, Regions, NumRegions
<1>3. \A i : RegionOK(i)' = RegionOK(i)
  BY <1>1, <1>2 DEF RegionOK
<1>4. Layout'
  BY <1>1, <1>2, <1>3 DEF IInv, Layout
<1>5. Created' = Created /\ Pools' = Pools /\ SplitsOf' = SplitsOf
  BY <1>1 DEF Created, Pools, Regions, NumRegions, SplitsOf
<1>6. \A r, s : /\ FirstHandle(r, s)' = FirstHandle(r, s)
                /\ LastHandle(r, s)' = LastHandle(r, s)
  BY <1>1 DEF FirstHandle, LastHandle, HandlesPerSplit
<1>7. \A p : PoolRoom(p)' = PoolRoom(p)
  BY <1>6 DEF PoolRoom
<1> QED
  BY <1>4, <1>5, <1>6, <1>7

\* What the pools hold, and what holds of a chunk.
PoolTyped(p) ==
  /\ list[p] \in Seq(FirstHandle(p[1], p[2]) .. LastHandle(p[1], p[2]) - 1)
  /\ top[p] <= PoolRoom(p)

GivenTyped(a) ==
  /\ <<a.region, a.split>> \in Pools
  /\ a.handle \in FirstHandle(a.region, a.split) .. LastHandle(a.region, a.split) - 1
  /\ a = Allocation(a.region, a.handle - specs[a.region].handle_offset,
                    a.handle, a.split)

\* A call keeps the types if it keeps them in the pool and for the chunk it touches.
LEMMA CallKeepsTypes ==
  ASSUME IInv, Created, UNCHANGED specVars, NEW p \in Pools,
         DOMAIN list' = Pools, top' \in [Pools -> Nat],
         \A q \in Pools : q # p => list'[q] = list[q] /\ top'[q] = top[q],
         PoolTyped(p)',
         \A a \in given' : a \in given \/ GivenTyped(a)'
  PROVE  IInv'
<1>1. /\ Layout' /\ Created' /\ Pools' = Pools
      /\ \A r, s : /\ FirstHandle(r, s)' = FirstHandle(r, s)
                   /\ LastHandle(r, s)' = LastHandle(r, s)
      /\ \A q : PoolRoom(q)' = PoolRoom(q)
  BY SameLayout
<1>2. /\ config' = config /\ specs' = specs
      /\ regionOffset' = regionOffset /\ handleOffset' = handleOffset
  BY DEF specVars
<1>3. ASSUME NEW q \in Pools
      PROVE  PoolTyped(q)'
  <2>1. PoolTyped(q)
    BY DEF IInv, TypeOK, PoolTyped
  <2> QED
    BY <1>1, <2>1 DEF PoolTyped
<1>4. ASSUME NEW a \in given'
      PROVE  GivenTyped(a)'
  <2>1. a \in given => GivenTyped(a)
    BY DEF IInv, TypeOK, GivenTyped
  <2> QED
    BY <1>1, <1>2, <2>1 DEF GivenTyped
<1>5. /\ config' \in Configs /\ specs' \in Seq(SpecType) /\ Len(specs') <= NumRegions'
      /\ regionOffset' \in Nat /\ handleOffset' \in Nat
  BY <1>2 DEF IInv, TypeOK, NumRegions
<1>6. TypeOK'
  BY <1>1, <1>3, <1>4, <1>5 DEF TypeOK, PoolTyped, GivenTyped
<1> QED
  BY <1>1, <1>6 DEF IInv

\* The first of a list and the others belong to the set of its elements.
LEMMA HeadTail ==
  ASSUME NEW S, NEW q \in Seq(S), q # <<>>
  PROVE  Head(q) \in S /\ Tail(q) \in Seq(S)
OBVIOUS

\* Handing out a chunk keeps the invariant.
LEMMA AllocateChunkStep ==
  ASSUME IInv, NEW r \in Regions, NEW start \in SplitsOf, AllocateChunk(r, start)
  PROVE  IInv'
<1>1. Created /\ UNCHANGED specVars
  BY DEF AllocateChunk
<1>2. PICK k \in SplitsOf :
        LET split(i) == (start + i) % config.splits
            p == <<r, split(k)>>
            handle == NextHandle(p)
        IN /\ Available(p)
           /\ \A i \in 0 .. k - 1 : ~ Available(<<r, split(i)>>)
           /\ IF list[p] # <<>>
                THEN /\ list' = [list EXCEPT ![p] = Tail(@)]
                     /\ UNCHANGED top
                ELSE /\ top' = [top EXCEPT ![p] = @ + 1]
                     /\ UNCHANGED list
           /\ given' = given \cup
                {Allocation(r, handle - specs[r].handle_offset, handle, split(k))}
  BY DEF AllocateChunk
<1>3. (start + k) % config.splits \in SplitsOf
  <2>1. config.splits \in Nat \ {0}
    BY ConfigFacts DEF IInv, TypeOK
  <2> QED
    BY <2>1 DEF SplitsOf
<1>4. PICK s \in SplitsOf : s = (start + k) % config.splits
  BY <1>3
<1>5. PICK p \in Pools : p = <<r, s>>
  BY DEF Pools
<1>6. PICK handle : handle = NextHandle(p)
  OBVIOUS
<1>13. PICK x : x = Allocation(r, handle - specs[r].handle_offset, handle, s)
  OBVIOUS
<1>7. /\ Available(p)
      /\ IF list[p] # <<>>
           THEN /\ list' = [list EXCEPT ![p] = Tail(@)]
                /\ UNCHANGED top
           ELSE /\ top' = [top EXCEPT ![p] = @ + 1]
                /\ UNCHANGED list
      /\ given' = given \cup {x}
  BY <1>13, <1>2, <1>4, <1>5, <1>6
<1>8. /\ DOMAIN list = Pools /\ top \in [Pools -> Nat] /\ PoolTyped(p)
      /\ list[p] \in Seq(FirstHandle(r, s) .. LastHandle(r, s) - 1)
      /\ top[p] <= LastHandle(r, s) - FirstHandle(r, s)
  BY <1>1, <1>5 DEF IInv, TypeOK, PoolTyped, PoolRoom
<1>9. FirstHandle(r, s) \in Nat /\ LastHandle(r, s) \in Nat
  BY <1>1, SplitFacts
<1>10. /\ \A t, u : /\ FirstHandle(t, u)' = FirstHandle(t, u)
                    /\ LastHandle(t, u)' = LastHandle(t, u)
       /\ \A q : PoolRoom(q)' = PoolRoom(q)
       /\ Pools' = Pools /\ specs' = specs
  BY <1>1, SameLayout DEF specVars
<1>11. CASE list[p] # <<>>
  <2>1. /\ list' = [list EXCEPT ![p] = Tail(list[p])] /\ top' = top
        /\ handle = Head(list[p])
    BY <1>6, <1>7, <1>11 DEF NextHandle
  <2>2. /\ handle \in FirstHandle(r, s) .. LastHandle(r, s) - 1
        /\ Tail(list[p]) \in Seq(FirstHandle(r, s) .. LastHandle(r, s) - 1)
    BY <1>8, <1>11, <2>1, HeadTail
  <2>3. DOMAIN list' = Pools /\ list'[p] = Tail(list[p])
    BY <1>8, <2>1
  <2>4. PoolTyped(p)'
    BY <1>5, <1>8, <1>10, <2>1, <2>2, <2>3 DEF PoolTyped
  <2>5. GivenTyped(x)'
    BY <1>13, <1>5, <1>10, <2>2 DEF GivenTyped, Allocation
  <2>6. \A a \in given' : a \in given \/ GivenTyped(a)'
    BY <1>7, <2>5
  <2>7. \A q \in Pools : q # p => list'[q] = list[q] /\ top'[q] = top[q]
    BY <1>8, <2>1
  <2>8. top' \in [Pools -> Nat]
    BY <1>8, <2>1
  <2> QED
    BY <1>1, <2>3, <2>4, <2>6, <2>7, <2>8, CallKeepsTypes
<1>12. CASE list[p] = <<>>
  <2>1. /\ top' = [top EXCEPT ![p] = top[p] + 1] /\ list' = list
        /\ handle = FirstHandle(r, s) + top[p]
    BY <1>5, <1>6, <1>7, <1>12 DEF NextHandle
  <2>2. top[p] < PoolRoom(p) /\ PoolRoom(p) = LastHandle(r, s) - FirstHandle(r, s)
    BY <1>5, <1>7, <1>12 DEF Available, PoolRoom
  <2>3. top[p] \in Nat
    BY <1>8
  <2>4. handle \in FirstHandle(r, s) .. LastHandle(r, s) - 1
    BY <1>9, <2>1, <2>2, <2>3
  <2>5. DOMAIN list' = Pools /\ top' \in [Pools -> Nat] /\ top'[p] = top[p] + 1
    BY <1>8, <2>1, <2>3
  <2>6. PoolTyped(p)'
    <3>1. top[p] + 1 <= PoolRoom(p)
      BY <1>9, <2>2, <2>3
    <3> QED
      BY <1>8, <1>10, <2>1, <2>5, <3>1 DEF PoolTyped
  <2>7. GivenTyped(x)'
    BY <1>13, <1>5, <1>10, <2>4 DEF GivenTyped, Allocation
  <2>8. \A a \in given' : a \in given \/ GivenTyped(a)'
    BY <1>7, <2>7
  <2>9. \A q \in Pools : q # p => list'[q] = list[q] /\ top'[q] = top[q]
    BY <1>8, <2>1
  <2> QED
    BY <1>1, <2>5, <2>6, <2>8, <2>9, CallKeepsTypes
<1> QED
  BY <1>11, <1>12

\* Taking a chunk back keeps the invariant.
LEMMA DeallocateChunkStep ==
  ASSUME IInv, NEW a \in given, NEW ptr \in ChunkBytes(a), DeallocateChunk(a, ptr)
  PROVE  IInv'
<1>1. PtrToAllocation(ptr) = a
  BY AllocationFound
<1>2. Created /\ a.region \in Regions /\ a.split \in SplitsOf
  BY GivenFacts
<1>3. PICK p \in Pools : p = <<a.region, a.split>>
  BY <1>2 DEF Pools
<1>4. /\ list' = [list EXCEPT ![p] = <<a.handle>> \o list[p]]
      /\ given' = given \ {a} /\ UNCHANGED specVars /\ top' = top
  BY <1>1, <1>3 DEF DeallocateChunk
<1>5. /\ DOMAIN list = Pools /\ top \in [Pools -> Nat] /\ PoolTyped(p)
      /\ a.handle \in FirstHandle(p[1], p[2]) .. LastHandle(p[1], p[2]) - 1
  BY <1>2, <1>3 DEF IInv, TypeOK, PoolTyped
<1>6. <<a.handle>> \o list[p] \in Seq(FirstHandle(p[1], p[2]) .. LastHandle(p[1], p[2]) - 1)
  BY <1>5 DEF PoolTyped
<1>7. DOMAIN list' = Pools /\ list'[p] = <<a.handle>> \o list[p]
  BY <1>4, <1>5
<1>8. PoolTyped(p)'
  BY <1>4, <1>5, <1>6, <1>7, SameLayout DEF PoolTyped
<1>9. \A q \in Pools : q # p => list'[q] = list[q] /\ top'[q] = top[q]
  BY <1>4, <1>5
<1>10. top' \in [Pools -> Nat] /\ \A b \in given' : b \in given
  BY <1>4, <1>5
<1> QED
  BY <1>2, <1>4, <1>7, <1>8, <1>9, <1>10, CallKeepsTypes

\* Every step keeps the invariant.
LEMMA StepInv == IInv /\ [Next]_vars => IInv'
<1> SUFFICES ASSUME IInv, [Next]_vars
             PROVE  IInv'
  OBVIOUS
<1>1. CASE AddRegion
  BY <1>1, AddRegionStep
<1>2. CASE \E r \in Regions, start \in SplitsOf : AllocateChunk(r, start)
  BY <1>2, AllocateChunkStep
<1>3. CASE \E a \in given : \E ptr \in ChunkBytes(a) : DeallocateChunk(a, ptr)
  BY <1>3, DeallocateChunkStep
<1>4. CASE UNCHANGED vars
  <2>1. UNCHANGED specVars /\ list' = list /\ top' = top /\ given' = given
    BY <1>4 DEF vars, poolVars
  <2>2. Layout' /\ Created' = Created /\ Pools' = Pools
    BY <2>1, SameLayout
  <2>3. /\ \A r, s : /\ FirstHandle(r, s)' = FirstHandle(r, s)
                     /\ LastHandle(r, s)' = LastHandle(r, s)
        /\ \A p : PoolRoom(p)' = PoolRoom(p)
    BY <2>1, SameLayout
  <2>4. TypeOK'
    BY <2>1, <2>2, <2>3 DEF IInv, TypeOK, specVars, NumRegions
  <2> QED
    BY <2>2, <2>4 DEF IInv
<1> QED
  BY <1>1, <1>2, <1>3, <1>4 DEF Next

\* The invariant holds in every state.
LEMMA SpecInv == Spec => []IInv
<1> QED
  BY InitInv, StepInv, PTL DEF Spec

\* Whatever is laid out, freed and allocated, the pools' parts are handles of theirs.
THEOREM Types == Spec => []TypeOK
<1>1. IInv => TypeOK
  BY DEF IInv
<1> QED
  BY <1>1, SpecInv, PTL

\* For every configuration: an address in a chunk leads back to where the chunk came
\* from, whether the region is found by division or by search.
THEOREM BlocksComeHome == Spec => []ComesHome
<1> QED
  BY InvComesHome, SpecInv, PTL

\* For every configuration: chunks in use are aligned and share no byte and no handle.
THEOREM ChunksApart == Spec => []MemoryApart
<1> QED
  BY InvMemoryApart, SpecInv, PTL

-----------------------------------------------------------------------------
(* No handle is lost.                                                      *)

SetOf(q) == {q[i] : i \in 1 .. Len(q)}

Injective(q) == \A i, j \in 1 .. Len(q) : q[i] = q[j] => i = j

\* Without its first element a list holds one less, if it holds each once.
LEMMA TailSet ==
  ASSUME NEW S, NEW q \in Seq(S), q # <<>>, Injective(q)
  PROVE  SetOf(Tail(q)) = SetOf(q) \ {Head(q)} /\ Injective(Tail(q)) /\ Head(q) \in SetOf(q)
<1>1. /\ Len(q) \in Nat \ {0} /\ Len(Tail(q)) = Len(q) - 1 /\ Head(q) = q[1]
      /\ \A i \in 1 .. Len(q) - 1 : Tail(q)[i] = q[i + 1]
  OBVIOUS
<1>2. Injective(Tail(q))
  BY <1>1 DEF Injective
<1>3. ASSUME NEW x \in SetOf(Tail(q))
      PROVE  x \in SetOf(q) /\ x # Head(q)
  <2>1. PICK i \in 1 .. Len(q) - 1 : x = q[i + 1]
    BY <1>1, <1>3 DEF SetOf
  <2>2. i + 1 \in 1 .. Len(q) /\ i + 1 # 1 /\ 1 \in 1 .. Len(q)
    BY <1>1
  <2> QED
    BY <1>1, <2>1, <2>2 DEF SetOf, Injective
<1>4. ASSUME NEW x \in SetOf(q), x # Head(q)
      PROVE  x \in SetOf(Tail(q))
  <2>1. PICK i \in 1 .. Len(q) : x = q[i]
    BY <1>4 DEF SetOf
  <2>2. i # 1 /\ i - 1 \in 1 .. Len(q) - 1 /\ (i - 1) + 1 = i
    BY <1>1, <1>4, <2>1
  <2>3. Tail(q)[i - 1] = x /\ i - 1 \in 1 .. Len(Tail(q))
    BY <1>1, <2>1, <2>2
  <2> QED
    BY <2>3 DEF SetOf
<1>5. Head(q) \in SetOf(q)
  BY <1>1 DEF SetOf
<1> QED
  BY <1>2, <1>3, <1>4, <1>5

\* With a new element in front it holds one more, each still once.
LEMMA PrependSet ==
  ASSUME NEW S, NEW q \in Seq(S), NEW h \in S, Injective(q), h \notin SetOf(q)
  PROVE  SetOf(<<h>> \o q) = SetOf(q) \cup {h} /\ Injective(<<h>> \o q)
<1> DEFINE w == <<h>> \o q
<1>1. /\ Len(q) \in Nat /\ w \in Seq(S) /\ Len(w) = Len(q) + 1 /\ w[1] = h
      /\ \A i \in 1 .. Len(q) : w[i + 1] = q[i]
  OBVIOUS
<1>2. \A i \in 2 .. Len(w) : i - 1 \in 1 .. Len(q) /\ w[i] = q[i - 1]
  BY <1>1
<1> HIDE DEF w
<1>3. ASSUME NEW i \in 1 .. Len(w), NEW j \in 1 .. Len(w), w[i] = w[j]
      PROVE  i = j
  <2>1. \A k \in 1 .. Len(q) : q[k] # h
    BY DEF SetOf
  <2>2. CASE i = 1 \/ j = 1
    BY <1>1, <1>2, <1>3, <2>1, <2>2
  <2>3. CASE i # 1 /\ j # 1
    <3>1. i \in 2 .. Len(w) /\ j \in 2 .. Len(w)
      BY <1>1, <2>3
    <3>2. i - 1 = j - 1
      BY <1>2, <1>3, <3>1 DEF Injective
    <3> QED
      BY <3>1, <3>2
  <2> QED
    BY <2>2, <2>3
<1>4. ASSUME NEW x \in SetOf(w)
      PROVE  x \in SetOf(q) \cup {h}
  <2>1. PICK i \in 1 .. Len(w) : x = w[i]
    BY <1>4 DEF SetOf
  <2>2. i = 1 \/ i \in 2 .. Len(w)
    BY <1>1
  <2> QED
    BY <1>1, <1>2, <2>1, <2>2 DEF SetOf
<1>5. ASSUME NEW x \in SetOf(q) \cup {h}
      PROVE  x \in SetOf(w)
  <2>1. CASE x = h
    BY <1>1, <2>1 DEF SetOf
  <2>2. CASE x \in SetOf(q)
    <3>1. PICK i \in 1 .. Len(q) : x = q[i]
      BY <2>2 DEF SetOf
    <3>2. i + 1 \in 1 .. Len(w) /\ w[i + 1] = x
      BY <1>1, <3>1
    <3> QED
      BY <3>2 DEF SetOf
  <2> QED
    BY <2>1, <2>2
<1> QED
  BY <1>3, <1>4, <1>5 DEF Injective, w

Listed(p) == SetOf(list[p])

HeldIn(p) == {a \in given : <<a.region, a.split>> = p}

Held(p) == {a.handle : a \in HeldIn(p)}

\* The first t handles from f on.
Run(f, t) == {f + i : i \in 0 .. t - 1}

\* The handles of a pool up to its top are on its list or with clients.
Once(p) ==
  /\ Injective(list[p])
  /\ Listed(p) \cap Held(p) = {}
  /\ Listed(p) \cup Held(p) = Run(FirstHandle(p[1], p[2]), top[p])

Conserved == Created => \A p \in Pools : Once(p)

HInv == IInv /\ Conserved

\* No two allocations have one handle.
LEMMA HandleUnique ==
  ASSUME IInv, NEW a \in given, NEW b \in given, a.handle = b.handle
  PROVE  a = b
BY InvMemoryApart DEF MemoryApart

\* What a call does not touch stays conserved.
LEMMA OtherPools ==
  ASSUME UNCHANGED specVars, IInv, NEW q,
         list'[q] = list[q], top'[q] = top[q],
         \A a : <<a.region, a.split>> = q => (a \in given' <=> a \in given),
         Once(q)
  PROVE  Once(q)'
<1>1. HeldIn(q)' = HeldIn(q)
  BY DEF HeldIn
<1>2. Held(q)' = Held(q) /\ Listed(q)' = Listed(q)
  BY <1>1 DEF Held, Listed
<1>3. FirstHandle(q[1], q[2])' = FirstHandle(q[1], q[2])
  BY SameLayout
<1> QED
  BY <1>2, <1>3 DEF Once

\* Before the first region is added there are no handles to lose.
LEMMA InitConserved == Init => Conserved
<1> SUFFICES ASSUME Init
             PROVE  Conserved
  OBVIOUS
<1>1. config \in Configs /\ Len(specs) = 0
  BY DEF Init
<1>2. NumRegions \in Nat \ {0}
  BY <1>1, ConfigFacts
<1> QED
  BY <1>1, <1>2 DEF Created, Conserved

\* The handles of a new region are all fresh ones of its pools.
LEMMA AddRegionConserves ==
  ASSUME IInv, AddRegion
  PROVE  Conserved'
<1> SUFFICES ASSUME NEW p \in Pools'
             PROVE  Once(p)'
  BY DEF Conserved
<1>1. /\ config' = config /\ list' = list /\ top' = top /\ given' = given
      /\ Len(specs) + 1 \in Regions
  BY DEF AddRegion, poolVars
<1>2. NumRegions \in Nat \ {0} /\ Len(specs) \in Nat
  BY ConfigFacts DEF IInv, TypeOK
<1>3. ~ Created
  BY <1>1, <1>2 DEF Created, Regions
<1>4. list = [q \in Pools |-> <<>>] /\ top = [q \in Pools |-> 0] /\ given = {}
  BY <1>3 DEF IInv, TypeOK
<1>5. p \in Pools
  BY <1>1 DEF Pools, Regions, NumRegions, SplitsOf
<1>6. list'[p] = <<>> /\ top'[p] = 0 /\ given' = {}
  BY <1>1, <1>4, <1>5
<1>7. Listed(p)' = {} /\ Injective(list'[p]) /\ Held(p)' = {}
  BY <1>6 DEF Listed, SetOf, Injective, Held, HeldIn
<1>8. \A f : Run(f, 0) = {}
  BY DEF Run
<1> QED
  BY <1>6, <1>7, <1>8 DEF Once

\* One call of allocate_chunk takes one handle out of one pool.
LEMMA TakesOne ==
  ASSUME IInv, NEW r \in Regions, NEW start \in SplitsOf, AllocateChunk(r, start)
  PROVE  \E s \in SplitsOf : \E handle, x :
           /\ x = Allocation(r, handle - specs[r].handle_offset, handle, s)
           /\ given' = given \cup {x}
           /\ handle = NextHandle(<<r, s>>)
           /\ Available(<<r, s>>)
           /\ IF list[<<r, s>>] # <<>>
                THEN /\ list' = [list EXCEPT ![<<r, s>>] = Tail(list[<<r, s>>])]
                     /\ top' = top
                ELSE /\ top' = [top EXCEPT ![<<r, s>>] = top[<<r, s>>] + 1]
                     /\ list' = list
<1>1. PICK k \in SplitsOf :
        LET split(i) == (start + i) % config.splits
            p == <<r, split(k)>>
            handle == NextHandle(p)
        IN /\ Available(p)
           /\ \A i \in 0 .. k - 1 : ~ Available(<<r, split(i)>>)
           /\ IF list[p] # <<>>
                THEN /\ list' = [list EXCEPT ![p] = Tail(@)]
                     /\ UNCHANGED top
                ELSE /\ top' = [top EXCEPT ![p] = @ + 1]
                     /\ UNCHANGED list
           /\ given' = given \cup
                {Allocation(r, handle - specs[r].handle_offset, handle, split(k))}
  BY DEF AllocateChunk
<1>2. (start + k) % config.splits \in SplitsOf
  <2>1. config.splits \in Nat \ {0}
    BY ConfigFacts DEF IInv, TypeOK
  <2> QED
    BY <2>1 DEF SplitsOf
<1>3. PICK s \in SplitsOf : s = (start + k) % config.splits
  BY <1>2
<1> QED
  BY <1>1, <1>3

\* A chunk that was taken, with its handle, is held in its own pool only.
LEMMA HeldGrows ==
  ASSUME NEW x, given' = given \cup {x}, NEW p, p = <<x.region, x.split>>
  PROVE  /\ Held(p)' = Held(p) \cup {x.handle}
         /\ \A q : q # p => \A a : <<a.region, a.split>> = q => (a \in given' <=> a \in given)
<1>1. HeldIn(p)' = HeldIn(p) \cup {x}
  BY DEF HeldIn
<1> QED
  BY <1>1 DEF Held

\* A run of handles grows at its end.
LEMMA RangeGrows ==
  ASSUME NEW f \in Nat, NEW t \in Nat
  PROVE  Run(f, t + 1) = Run(f, t) \cup {f + t} /\ f + t \notin Run(f, t)
BY DEF Run

\* A chunk handed out takes its handle from the list or from the fresh ones.
LEMMA AllocateChunkConserves ==
  ASSUME HInv, NEW r \in Regions, NEW start \in SplitsOf, AllocateChunk(r, start)
  PROVE  Conserved'
<1>0. PICK s \in SplitsOf : \E handle, x :
           /\ x = Allocation(r, handle - specs[r].handle_offset, handle, s)
           /\ given' = given \cup {x}
           /\ handle = NextHandle(<<r, s>>)
           /\ Available(<<r, s>>)
           /\ IF list[<<r, s>>] # <<>>
                THEN /\ list' = [list EXCEPT ![<<r, s>>] = Tail(list[<<r, s>>])]
                     /\ top' = top
                ELSE /\ top' = [top EXCEPT ![<<r, s>>] = top[<<r, s>>] + 1]
                     /\ list' = list
  BY TakesOne DEF HInv
<1>1. PICK handle, x :
           /\ x = Allocation(r, handle - specs[r].handle_offset, handle, s)
           /\ given' = given \cup {x}
           /\ handle = NextHandle(<<r, s>>)
           /\ Available(<<r, s>>)
           /\ IF list[<<r, s>>] # <<>>
                THEN /\ list' = [list EXCEPT ![<<r, s>>] = Tail(list[<<r, s>>])]
                     /\ top' = top
                ELSE /\ top' = [top EXCEPT ![<<r, s>>] = top[<<r, s>>] + 1]
                     /\ list' = list
  BY <1>0
<1>2. PICK p \in Pools : p = <<r, s>>
  BY DEF Pools
<1>3. IInv /\ Created /\ UNCHANGED specVars
  BY DEF HInv, AllocateChunk
<1>4. /\ DOMAIN list = Pools /\ top \in [Pools -> Nat]
      /\ list[p] \in Seq(FirstHandle(r, s) .. LastHandle(r, s) - 1)
  BY <1>2, <1>3 DEF IInv, TypeOK
<1>5. \A q \in Pools : Once(q)
  BY <1>3 DEF HInv, Conserved
<1>6. p = <<x.region, x.split>> /\ x.handle = handle
  BY <1>1, <1>2 DEF Allocation
<1>7. Held(p)' = Held(p) \cup {handle}
  BY <1>1, <1>6, HeldGrows
<1>8. \A q : q # p => \A a : <<a.region, a.split>> = q => (a \in given' <=> a \in given)
  BY <1>1, <1>6, HeldGrows
<1>9. \A q \in Pools : q # p => list'[q] = list[q] /\ top'[q] = top[q]
  BY <1>1, <1>2, <1>4
<1>10. FirstHandle(r, s) \in Nat
  BY <1>3, SplitFacts
<1>11. /\ FirstHandle(r, s)' = FirstHandle(r, s) /\ Pools' = Pools
  BY <1>3, SameLayout
<1> DEFINE F == FirstHandle(r, s)
           U == Run(F, top[p])
<1>12. /\ Injective(list[p]) /\ Listed(p) \cap Held(p) = {} /\ Listed(p) \cup Held(p) = U
  BY <1>2, <1>5 DEF Once
<1>13. Once(p)'
  <2>1. CASE list[p] # <<>>
    <3>1. list'[p] = Tail(list[p]) /\ top' = top /\ handle = Head(list[p])
      BY <1>1, <1>2, <1>4, <2>1 DEF NextHandle
    <3>2. /\ SetOf(Tail(list[p])) = SetOf(list[p]) \ {Head(list[p])}
          /\ Injective(Tail(list[p])) /\ Head(list[p]) \in SetOf(list[p])
      BY <1>4, <1>12, <2>1, TailSet
    <3>3. Listed(p)' = Listed(p) \ {handle} /\ handle \in Listed(p)
      BY <3>1, <3>2 DEF Listed
    <3>4. /\ Listed(p)' \cap Held(p)' = {} /\ Listed(p)' \cup Held(p)' = U
      BY <1>7, <1>12, <3>3
    <3> QED
      BY <1>2, <1>11, <3>1, <3>2, <3>4 DEF Once
  <2>2. CASE list[p] = <<>>
    <3>1. list' = list /\ top'[p] = top[p] + 1 /\ handle = F + top[p]
      BY <1>1, <1>2, <1>4, <2>2 DEF NextHandle
    <3>2. top[p] \in Nat
      BY <1>4
    <3>3. /\ Run(F, top[p] + 1) = U \cup {handle}
          /\ handle \notin U
      BY <1>10, <3>1, <3>2, RangeGrows
    <3>4. Listed(p)' = Listed(p)
      BY <3>1 DEF Listed
    <3>5. /\ Listed(p)' \cap Held(p)' = {} /\ Listed(p)' \cup Held(p)' = U \cup {handle}
      BY <1>7, <1>12, <3>3, <3>4
    <3> QED
      BY <1>2, <1>11, <1>12, <3>1, <3>3, <3>5 DEF Once
  <2> QED
    BY <2>1, <2>2
<1>14. ASSUME NEW q \in Pools, q # p
       PROVE  Once(q)'
  <2>1. list'[q] = list[q] /\ top'[q] = top[q] /\ Once(q)
    BY <1>5, <1>9, <1>14
  <2>2. \A a : <<a.region, a.split>> = q => (a \in given' <=> a \in given)
    BY <1>8, <1>14
  <2> QED
    BY <1>3, <2>1, <2>2, OtherPools
<1> QED
  BY <1>11, <1>13, <1>14 DEF Conserved

\* A chunk taken back puts its handle on the list of its pool.
LEMMA DeallocateChunkConserves ==
  ASSUME HInv, NEW a \in given, NEW ptr \in ChunkBytes(a), DeallocateChunk(a, ptr)
  PROVE  Conserved'
<1>1. IInv /\ Created /\ UNCHANGED specVars
  BY GivenFacts DEF HInv, DeallocateChunk
<1>2. PtrToAllocation(ptr) = a
  BY <1>1, AllocationFound
<1>3. a.region \in Regions /\ a.split \in SplitsOf
  BY <1>1, GivenFacts
<1>4. PICK p \in Pools : p = <<a.region, a.split>>
  BY <1>3 DEF Pools
<1>5. PICK h : h = a.handle
  OBVIOUS
<1>6. /\ list' = [list EXCEPT ![p] = <<h>> \o list[p]]
      /\ given' = given \ {a} /\ top' = top
  BY <1>2, <1>4, <1>5 DEF DeallocateChunk
<1> DEFINE F == FirstHandle(p[1], p[2])
           S == F .. LastHandle(p[1], p[2]) - 1
           U == Run(F, top[p])
<1>7. DOMAIN list = Pools /\ list[p] \in Seq(S) /\ h \in S
  BY <1>1, <1>3, <1>4, <1>5 DEF IInv, TypeOK
<1>8. \A q \in Pools : Once(q)
  BY <1>1 DEF HInv, Conserved
<1>9. /\ Injective(list[p]) /\ Listed(p) \cap Held(p) = {} /\ Listed(p) \cup Held(p) = U
  BY <1>8 DEF Once
<1>10. a \in HeldIn(p) /\ HeldIn(p)' = HeldIn(p) \ {a}
  BY <1>4, <1>6 DEF HeldIn
<1>11. Held(p)' = Held(p) \ {h} /\ h \in Held(p)
  <2>1. \A b \in HeldIn(p) : b.handle = a.handle => b = a
    BY <1>1, HandleUnique DEF HeldIn
  <2> QED
    BY <1>5, <1>10, <2>1 DEF Held
<1>12. h \notin SetOf(list[p])
  BY <1>9, <1>11 DEF Listed
<1> HIDE DEF S
<1>13. SetOf(<<h>> \o list[p]) = SetOf(list[p]) \cup {h} /\ Injective(<<h>> \o list[p])
  BY <1>7, <1>9, <1>12, PrependSet
<1>14. list'[p] = <<h>> \o list[p]
  BY <1>6, <1>7
<1>15. Listed(p)' = Listed(p) \cup {h}
  BY <1>13, <1>14 DEF Listed
<1>16. Listed(p)' \cap Held(p)' = {} /\ Listed(p)' \cup Held(p)' = U
  BY <1>9, <1>11, <1>15
<1>17. F' = F /\ Pools' = Pools
  BY <1>1, SameLayout
<1>18. Once(p)'
  BY <1>6, <1>13, <1>14, <1>16, <1>17 DEF Once
<1>19. ASSUME NEW q \in Pools, q # p
       PROVE  Once(q)'
  <2>1. list'[q] = list[q] /\ top'[q] = top[q] /\ Once(q)
    BY <1>6, <1>7, <1>8, <1>19
  <2>2. \A b : <<b.region, b.split>> = q => (b \in given' <=> b \in given)
    BY <1>4, <1>6, <1>19
  <2> QED
    BY <1>1, <2>1, <2>2, OtherPools
<1> QED
  BY <1>17, <1>18, <1>19 DEF Conserved

\* No step loses a handle or doubles one.
LEMMA StepConserved == HInv /\ [Next]_vars => HInv'
<1> SUFFICES ASSUME HInv, [Next]_vars
             PROVE  Conserved'
  BY StepInv DEF HInv
<1>1. CASE AddRegion
  BY <1>1, AddRegionConserves DEF HInv
<1>2. CASE \E r \in Regions, start \in SplitsOf : AllocateChunk(r, start)
  BY <1>2, AllocateChunkConserves
<1>3. CASE \E a \in given : \E ptr \in ChunkBytes(a) : DeallocateChunk(a, ptr)
  BY <1>3, DeallocateChunkConserves
<1>4. CASE UNCHANGED vars
  <2>1. UNCHANGED specVars /\ list' = list /\ top' = top /\ given' = given /\ IInv
    BY <1>4 DEF vars, poolVars, HInv
  <2>2. Created' = Created /\ Pools' = Pools
    BY <2>1, SameLayout
  <2>3. ASSUME NEW q, Once(q)
        PROVE  Once(q)'
    BY <2>1, <2>3, OtherPools
  <2> QED
    BY <2>2, <2>3 DEF HInv, Conserved
<1> QED
  BY <1>1, <1>2, <1>3, <1>4 DEF Next

\* So none is ever lost or doubled.
LEMMA SpecConserved == Spec => []HInv
<1>1. Init => HInv
  BY InitInv, InitConserved DEF HInv
<1> QED
  BY <1>1, StepConserved, PTL DEF Spec

\* A handle is with an allocation, on a list, or among the fresh ones.
LEMMA SpotCases ==
  ASSUME NEW h, NEW y
  PROVE  y \in Spots(h) <=>
           \/ \E a \in given : a.handle = h /\ y = <<"given", 0, <<a.region, a.split>>>>
           \/ \E q \in Pools : \E i \in 1 .. Len(list[q]) :
                list[q][i] = h /\ y = <<"listed", i, q>>
           \/ \E q \in Pools : Above(q, h) /\ y = <<"fresh", 0, q>>
<1>1. y \in GivenSpots(h)
        <=> \E a \in given : a.handle = h /\ y = <<"given", 0, <<a.region, a.split>>>>
  BY Zenon DEF GivenSpots
<1>2. y \in FreshSpots(h) <=> \E q \in Pools : Above(q, h) /\ y = <<"fresh", 0, q>>
  BY Zenon DEF FreshSpots
<1>3. \A p : y \in ListSpots(p, h) <=> \E i \in 1 .. Len(list[p]) :
                                         list[p][i] = h /\ y = <<"listed", i, p>>
  BY Zenon DEF ListSpots
<1>4. y \in UNION {ListSpots(p, h) : p \in Pools} <=> \E p \in Pools : y \in ListSpots(p, h)
  BY Zenon
<1>5. y \in UNION {ListSpots(p, h) : p \in Pools} <=>
        \E q \in Pools : \E i \in 1 .. Len(list[q]) :
          list[q][i] = h /\ y = <<"listed", i, q>>
  BY <1>3, <1>4
<1>6. y \in Spots(h) <=> \/ y \in GivenSpots(h)
                         \/ y \in UNION {ListSpots(p, h) : p \in Pools}
                         \/ y \in FreshSpots(h)
  BY Zenon DEF Spots
<1> QED
  BY <1>1, <1>2, <1>5, <1>6, Zenon

\* Splits cover their region: rounding up leaves no handle to nobody.
LEMMA ShareCovers ==
  ASSUME NEW n \in Nat, NEW k \in Nat \ {0}, NEW o \in Nat, o < n
  PROVE  LET h == (n + k - 1) \div k
         IN \E s \in 0 .. k - 1 : MinOf(h * s, n) <= o /\ o < MinOf(h * (s + 1), n)
<1> DEFINE h == (n + k - 1) \div k
           s == o \div h
<1>1. h \in Nat /\ h * k \in Nat /\ n + k - 1 < h * k + k
  BY DivBounds
<1>2. n <= h * k
  <2> DEFINE m == h * k
  <2> HIDE DEF m
  <2>1. m \in Nat /\ n + k - 1 < m + k
    BY <1>1 DEF m
  <2> QED
    BY <2>1 DEF m
<1>3. h # 0
  BY <1>1, <1>2
<1> HIDE DEF h
<1>4. s \in Nat /\ s * h <= o /\ o < s * h + h
  BY <1>1, <1>3, DivBounds
<1> HIDE DEF s
<1>5. s * h = h * s /\ s * h + h = h * (s + 1) /\ h * s \in Nat /\ h * (s + 1) \in Nat
  BY <1>1, <1>4
<1>6. s < k
  <2> SUFFICES ASSUME k <= s
               PROVE  FALSE
    BY <1>4
  <2>1. k * h <= s * h /\ k * h = h * k
    BY <1>1, <1>4, ProductMonotone
  <2> DEFINE m == h * k
             l == s * h
  <2>2. m \in Nat /\ l \in Nat /\ n <= m /\ m <= l /\ l <= o
    BY <1>1, <1>2, <1>4, <1>5, <2>1
  <2> HIDE DEF m, l
  <2> QED
    BY <2>2
<1>7. MinOf(h * s, n) <= o /\ o < MinOf(h * (s + 1), n)
  <2> DEFINE u == h * s
             v == h * (s + 1)
  <2>1. u \in Nat /\ v \in Nat /\ u <= o /\ o < v
    BY <1>4, <1>5
  <2> HIDE DEF u, v
  <2>2. MinOf(u, n) <= o /\ o < MinOf(v, n)
    BY <2>1 DEF MinOf
  <2> QED
    BY <2>2 DEF u, v
<1> QED
  BY <1>4, <1>6, <1>7 DEF h

\* Each handle is in the range of a pool.
LEMMA HandleHasPool ==
  ASSUME IInv, Created, NEW h \in Nat, h < handleOffset
  PROVE  \E p \in Pools : FirstHandle(p[1], p[2]) <= h /\ h < LastHandle(p[1], p[2])
<1>1. PICK r \in 1 .. Len(specs) : specs[r].handle_offset <= h /\ h < HandleEnd(r)
  BY DEF IInv, Layout
<1>2. r \in Regions
  BY <1>1 DEF Created, Regions
<1>3. specs[r] \in SpecType /\ config.splits \in Nat \ {0}
  BY <1>2, RegionFacts, ConfigFacts DEF IInv, TypeOK
<1> DEFINE n == specs[r].num_handles
           f == specs[r].handle_offset
           k == config.splits
           o == h - f
<1>4. n \in Nat /\ f \in Nat /\ k \in Nat \ {0} /\ o \in Nat /\ o < n
  BY <1>1, <1>3 DEF SpecType, HandleEnd
<1> HIDE DEF n, f, k, o
<1>5. PICK s \in 0 .. k - 1 : /\ MinOf(((n + k - 1) \div k) * s, n) <= o
                              /\ o < MinOf(((n + k - 1) \div k) * (s + 1), n)
  BY <1>4, ShareCovers
<1>6. s \in Nat /\ s \in SplitsOf
  BY <1>4 DEF SplitsOf, k
<1>7. /\ MinOf(((n + k - 1) \div k) * s, n) \in Nat
      /\ MinOf(((n + k - 1) \div k) * (s + 1), n) \in Nat
  BY <1>4, <1>6, ShareFacts
<1>8. /\ FirstHandle(r, s) = f + MinOf(((n + k - 1) \div k) * s, n)
      /\ LastHandle(r, s) = f + MinOf(((n + k - 1) \div k) * (s + 1), n)
  BY DEF FirstHandle, LastHandle, HandlesPerSplit, n, f, k
<1>9. h = f + o
  BY <1>4 DEF o
<1>10. FirstHandle(r, s) <= h /\ h < LastHandle(r, s)
  BY <1>4, <1>5, <1>7, <1>8, <1>9
<1>11. <<r, s>> \in Pools
  BY <1>2, <1>6 DEF Pools
<1> QED
  BY <1>10, <1>11

\* What a list holds at a place belongs to the set of its elements.
LEMMA ElementIn ==
  ASSUME NEW S, NEW q \in Seq(S), NEW i \in 1 .. Len(q)
  PROVE  q[i] \in S
OBVIOUS

\* Whatever refers to a handle belongs to its pool.
LEMMA SpotPool ==
  ASSUME IInv, Created, NEW h \in Nat, NEW p \in Pools,
         FirstHandle(p[1], p[2]) <= h, h < LastHandle(p[1], p[2])
  PROVE  /\ \A a \in given : a.handle = h => <<a.region, a.split>> = p
         /\ \A q \in Pools : \A i \in 1 .. Len(list[q]) : list[q][i] = h => q = p
         /\ \A q \in Pools : Above(q, h) => q = p
<1>1. p[1] \in Regions /\ p[2] \in SplitsOf /\ p = <<p[1], p[2]>>
  BY DEF Pools
<1>2. ASSUME NEW q \in Pools, FirstHandle(q[1], q[2]) <= h, h < LastHandle(q[1], q[2])
      PROVE  q = p
  <2>1. q[1] \in Regions /\ q[2] \in SplitsOf /\ q = <<q[1], q[2]>>
    BY DEF Pools
  <2>2. q[1] = p[1] /\ q[2] = p[2]
    BY <1>1, <1>2, <2>1, PoolsApart
  <2> QED
    BY <1>1, <2>1, <2>2
<1>3. ASSUME NEW a \in given, a.handle = h
      PROVE  <<a.region, a.split>> = p
  <2>1. /\ a.region \in Regions /\ a.split \in SplitsOf
        /\ FirstHandle(a.region, a.split) <= h /\ h < LastHandle(a.region, a.split)
    BY <1>3, GivenFacts
  <2>2. a.region = p[1] /\ a.split = p[2]
    BY <1>1, <2>1, PoolsApart
  <2> QED
    BY <1>1, <2>2
<1>4. ASSUME NEW q \in Pools
      PROVE  /\ FirstHandle(q[1], q[2]) \in Nat /\ LastHandle(q[1], q[2]) \in Nat
             /\ top[q] \in Nat
             /\ list[q] \in Seq(FirstHandle(q[1], q[2]) .. LastHandle(q[1], q[2]) - 1)
  <2>1. q[1] \in Regions /\ q[2] \in SplitsOf
    BY DEF Pools
  <2>2. FirstHandle(q[1], q[2]) \in Nat /\ LastHandle(q[1], q[2]) \in Nat
    BY <2>1, SplitFacts
  <2> QED
    BY <2>2 DEF IInv, TypeOK
<1>5. ASSUME NEW q \in Pools, NEW i \in 1 .. Len(list[q]), list[q][i] = h
      PROVE  q = p
  <2>1. list[q][i] \in FirstHandle(q[1], q[2]) .. LastHandle(q[1], q[2]) - 1
    BY <1>4, ElementIn
  <2>2. FirstHandle(q[1], q[2]) <= h /\ h < LastHandle(q[1], q[2])
    BY <1>4, <1>5, <2>1
  <2> QED
    BY <1>2, <2>2
<1>6. ASSUME NEW q \in Pools, Above(q, h)
      PROVE  q = p
  <2>1. FirstHandle(q[1], q[2]) <= h /\ h < LastHandle(q[1], q[2])
    BY <1>4, <1>6 DEF Above
  <2> QED
    BY <1>2, <2>1
<1> QED
  BY <1>3, <1>5, <1>6

\* Conservation implies that each handle is in one place.
LEMMA InvEachHandleOnce ==
  ASSUME HInv
  PROVE  EachHandleOnce
<1> SUFFICES ASSUME Created, NEW h \in 0 .. handleOffset - 1
             PROVE  \E x \in Spots(h) : Spots(h) = {x}
  BY DEF EachHandleOnce
<1>1. IInv /\ h \in Nat /\ h < handleOffset
  BY DEF HInv, IInv, TypeOK
<1>2. PICK p \in Pools : FirstHandle(p[1], p[2]) <= h /\ h < LastHandle(p[1], p[2])
  BY <1>1, HandleHasPool
<1>3. /\ \A a \in given : a.handle = h => <<a.region, a.split>> = p
      /\ \A q \in Pools : \A i \in 1 .. Len(list[q]) : list[q][i] = h => q = p
      /\ \A q \in Pools : Above(q, h) => q = p
  BY <1>1, <1>2, SpotPool
<1>4. ASSUME NEW y \in Spots(h)
      PROVE  \/ h \in Held(p) /\ y = <<"given", 0, p>>
             \/ \E i \in 1 .. Len(list[p]) : list[p][i] = h /\ y = <<"listed", i, p>>
             \/ Above(p, h) /\ y = <<"fresh", 0, p>>
  <2>1. \/ \E a \in given : a.handle = h /\ y = <<"given", 0, <<a.region, a.split>>>>
        \/ \E q \in Pools : \E i \in 1 .. Len(list[q]) :
             list[q][i] = h /\ y = <<"listed", i, q>>
        \/ \E q \in Pools : Above(q, h) /\ y = <<"fresh", 0, q>>
    BY <1>4, SpotCases
  <2> QED
    BY <1>3, <2>1 DEF Held, HeldIn
<1>5. /\ Injective(list[p]) /\ Listed(p) \cap Held(p) = {}
      /\ Listed(p) \cup Held(p) = Run(FirstHandle(p[1], p[2]), top[p])
  BY DEF HInv, Conserved, Once
<1>6. FirstHandle(p[1], p[2]) \in Nat /\ top[p] \in Nat
  <2>1. p[1] \in Regions /\ p[2] \in SplitsOf
    BY DEF Pools
  <2> QED
    BY <1>1, <2>1, SplitFacts DEF IInv, TypeOK
<1>7. h \in Listed(p) \cup Held(p) <=> ~ Above(p, h)
  <2>1. h \in Run(FirstHandle(p[1], p[2]), top[p]) <=> h < FirstHandle(p[1], p[2]) + top[p]
    <3>1. h < FirstHandle(p[1], p[2]) + top[p] =>
            /\ h - FirstHandle(p[1], p[2]) \in 0 .. top[p] - 1
            /\ h = FirstHandle(p[1], p[2]) + (h - FirstHandle(p[1], p[2]))
      BY <1>1, <1>2, <1>6
    <3>2. \A i \in 0 .. top[p] - 1 :
            h = FirstHandle(p[1], p[2]) + i => h < FirstHandle(p[1], p[2]) + top[p]
      BY <1>6
    <3> QED
      BY <3>1, <3>2 DEF Run
  <2> QED
    BY <1>1, <1>2, <1>5, <1>6, <2>1 DEF Above
<1>8. \A i \in 1 .. Len(list[p]) : list[p][i] = h => h \in Listed(p)
  BY DEF Listed, SetOf
<1>9. CASE Above(p, h)
  <2>1. <<"fresh", 0, p>> \in Spots(h)
    BY <1>9, SpotCases
  <2>2. \A y \in Spots(h) : y = <<"fresh", 0, p>>
    BY <1>4, <1>7, <1>8, <1>9
  <2> QED
    BY <2>1, <2>2
<1>10. CASE h \in Listed(p)
  <2>1. PICK i \in 1 .. Len(list[p]) : list[p][i] = h
    BY <1>10 DEF Listed, SetOf
  <2>2. <<"listed", i, p>> \in Spots(h)
    BY <2>1, SpotCases
  <2>3. \A j \in 1 .. Len(list[p]) : list[p][j] = h => j = i
    BY <1>5, <2>1 DEF Injective
  <2>4. h \notin Held(p) /\ ~ Above(p, h)
    BY <1>5, <1>7, <1>10
  <2>5. \A y \in Spots(h) : y = <<"listed", i, p>>
    <3> SUFFICES ASSUME NEW y \in Spots(h)
                 PROVE  y = <<"listed", i, p>>
      OBVIOUS
    <3>1. PICK j \in 1 .. Len(list[p]) : list[p][j] = h /\ y = <<"listed", j, p>>
      BY <1>4, <2>4
    <3>2. j = i
      BY <2>3, <3>1
    <3> QED
      BY <3>1, <3>2
  <2> QED
    BY <2>2, <2>5
<1>11. CASE h \in Held(p)
  <2>1. PICK a \in given : a.handle = h /\ <<a.region, a.split>> = p
    BY <1>11 DEF Held, HeldIn
  <2>2. <<"given", 0, p>> \in Spots(h)
    BY <2>1, SpotCases
  <2>3. \A y \in Spots(h) : y = <<"given", 0, p>>
    BY <1>4, <1>5, <1>7, <1>8, <1>11
  <2> QED
    BY <2>2, <2>3
<1> QED
  BY <1>7, <1>9, <1>10, <1>11

\* For every configuration, and however the shares of the splits come out: each handle
\* that was laid out is with one client, at one place of one list, or not yet used.
THEOREM HandlesInOnePlace == Spec => []EachHandleOnce
<1> QED
  BY InvEachHandleOnce, SpecConserved, PTL
=============================================================================
