-------------------------- MODULE AllocatorSetup_proofs --------------------------
(***************************************************************************)
(* That setting up the allocator ends in the layout RegionAllocator starts *)
(* its calls from, and that no refused memory leaves anything mapped, for  *)
(* every page size, every configuration and all addresses the operating    *)
(* system may give.  Memories are counted in pages: each of them starts at *)
(* a page, so its pages are an interval.                                   *)
(***************************************************************************)
EXTENDS AllocatorSetup, RegionAllocator_proofs

-----------------------------------------------------------------------------
(* Setting up and calling is laying out and calling.                       *)

\* A step of the set-up is a step of the region allocator.
LEMMA SetupStep == [SetupNext]_setupVars => [Next]_vars
<1> SUFFICES ASSUME [SetupNext]_setupVars
             PROVE  [Next]_vars
  OBVIOUS
<1>1. CASE CreateAllocator
  BY <1>1 DEF CreateAllocator
<1>2. CASE LayOut
  BY <1>2 DEF LayOut, Next
<1>3. CASE ReserveRegions
  BY <1>3 DEF ReserveRegions
<1>4. CASE AllocHandles
  BY <1>4 DEF AllocHandles
<1>5. CASE AllocLinks
  BY <1>5 DEF AllocLinks
<1>6. CASE Finish
  BY <1>6 DEF Finish
<1>7. CASE Call
  BY <1>7 DEF Call, Next
<1>8. CASE UNCHANGED setupVars
  BY <1>8 DEF setupVars
<1> QED
  BY <1>1, <1>2, <1>3, <1>4, <1>5, <1>6, <1>7, <1>8 DEF SetupNext

\* An allocator that is set up memory by memory, each of which may be refused, behaves
\* like RegionAllocator: what is proved of its layout and calls holds of it.
THEOREM SetupImplements == SetupSpec => Spec
<1>1. SetupInit => Init
  BY DEF SetupInit
<1> QED
  BY <1>1, SetupStep, PTL DEF SetupSpec, Spec

-----------------------------------------------------------------------------
(* Pages.                                                                  *)

PagesUp(n) == (n + PageSize - 1) \div PageSize

\* Rounding up to pages adds less than a page.
LEMMA PagesUpFacts ==
  ASSUME NEW n \in Nat
  PROVE  /\ PagesUp(n) \in Nat
         /\ n <= PagesUp(n) * PageSize
         /\ PagesUp(n) * PageSize < n + PageSize
         /\ Align(n, PageSize) = PagesUp(n) * PageSize
<1>1. PageSize \in Nat \ {0}
  BY SetupAssumption
<1> DEFINE q == PagesUp(n)
           m == q * PageSize
<1>2. q \in Nat /\ m <= n + PageSize - 1 /\ n + PageSize - 1 < m + PageSize
  BY <1>1, DivBounds DEF PagesUp
<1>3. m \in Nat
  BY <1>1, <1>2, ProductInNat
<1>4. Align(n, PageSize) = m
  BY DEF Align, PagesUp
<1> HIDE DEF q, m
<1> QED
  BY <1>1, <1>2, <1>3, <1>4 DEF q, m

\* A product of a page number orders like the page number.
LEMMA PageOrder ==
  ASSUME NEW a \in Nat, NEW b \in Nat
  PROVE  /\ a < b => a * PageSize + PageSize <= b * PageSize
         /\ a <= b => a * PageSize <= b * PageSize
<1>1. PageSize \in Nat \ {0}
  BY SetupAssumption
<1>2. a < b => (a + 1) * PageSize <= b * PageSize
  BY <1>1, ProductMonotone
<1>3. (a + 1) * PageSize = a * PageSize + PageSize
  BY <1>1
<1> QED
  BY <1>1, <1>2, <1>3, ProductMonotone

\* What starts at page b and has n bytes takes the pages up to the one rounded up to.
LEMMA PageInterval ==
  ASSUME NEW b \in Nat, NEW n \in Nat
  PROVE  PagesOf(b * PageSize, n) = b .. b + PagesUp(n) - 1
<1>1. PageSize \in Nat \ {0}
  BY SetupAssumption
<1> DEFINE s == b * PageSize
           u == PagesUp(n)
           v == u * PageSize
<1>2. s \in Nat /\ u \in Nat /\ v \in Nat /\ n <= v /\ v < n + PageSize
  BY <1>1, ProductInNat, PagesUpFacts
<1>3. (b + u) * PageSize = s + v
  BY <1>1, <1>2
<1>4. ASSUME NEW k \in PagesOf(s, n)
      PROVE  k \in b .. b + u - 1
  <2>1. PICK byte \in s .. s + n - 1 : k = byte \div PageSize
    BY <1>4 DEF PagesOf
  <2>2. byte \in Nat /\ s <= byte /\ byte < s + v
    <3> HIDE DEF s, v, u
    <3> QED
      BY <1>2
  <2>3. k \in Nat /\ k * PageSize <= byte /\ byte < k * PageSize + PageSize
    BY <1>1, <2>1, <2>2, DivBounds
  <2> DEFINE m == k * PageSize
  <2>4. m \in Nat
    BY <1>1, <2>3, ProductInNat
  <2>5. k < b => m + PageSize <= s
    BY <2>3, PageOrder
  <2>6. b + u <= k => s + v <= m
    <3>1. b + u <= k => (b + u) * PageSize <= k * PageSize
      BY <1>2, <2>3, PageOrder
    <3> QED
      BY <3>1, <1>3
  <2>7. m <= byte /\ byte < m + PageSize
    BY <2>3
  <2> HIDE DEF m, s, v, u
  <2> QED
    BY <1>1, <1>2, <2>2, <2>3, <2>4, <2>5, <2>6, <2>7
<1>5. ASSUME NEW k \in b .. b + u - 1
      PROVE  k \in PagesOf(s, n)
  <2> DEFINE m == k * PageSize
  <2>1. k \in Nat /\ m \in Nat /\ m \div PageSize = k
    <3>1. k \in Nat
      BY <1>2
    <3>2. (k * PageSize + 0) \div PageSize = k
      BY <1>1, <3>1, DivUnique
    <3>3. m \in Nat
      BY <1>1, <3>1, ProductInNat
    <3>4. m + 0 = m
      BY <3>3
    <3> QED
      BY <3>1, <3>2, <3>3, <3>4
  <2>2. s <= m
    BY <2>1, PageOrder
  <2>3. m + PageSize <= s + v
    <3>1. k < b + u /\ b + u \in Nat
      BY <1>2
    <3>2. k * PageSize + PageSize <= (b + u) * PageSize
      BY <2>1, <3>1, PageOrder
    <3> QED
      BY <3>2, <1>3
  <2>4. m \in s .. s + n - 1
    <3> HIDE DEF m, s, v, u
    <3> QED
      BY <1>1, <1>2, <2>1, <2>2, <2>3
  <2> HIDE DEF m, s
  <2> QED
    BY <2>1, <2>4 DEF PagesOf
<1> QED
  BY <1>4, <1>5

\* Nothing is added to whole pages.
LEMMA WholePages ==
  ASSUME NEW k \in Nat
  PROVE  k * PageSize \in Nat /\ PagesUp(k * PageSize) = k
<1>1. PageSize \in Nat \ {0}
  BY SetupAssumption
<1>2. k * PageSize \in Nat
  BY <1>1, ProductInNat
<1>3. PageSize - 1 \in Nat /\ PageSize - 1 < PageSize
  BY <1>1
<1>4. (k * PageSize + (PageSize - 1)) \div PageSize = k
  BY <1>1, <1>3, DivUnique
<1> DEFINE m == k * PageSize
<1>5. m + PageSize - 1 = m + (PageSize - 1)
  <2> HIDE DEF m
  <2> QED
    BY <1>1, <1>2 DEF m
<1> QED
  BY <1>2, <1>4, <1>5 DEF PagesUp

\* A base in front of which a number of pages is cut off.
LEMMA PageDifference ==
  ASSUME NEW a \in Nat, NEW b \in Nat, b <= a
  PROVE  /\ a * PageSize - b * PageSize = (a - b) * PageSize
         /\ a * PageSize + b * PageSize = (a + b) * PageSize
<1>1. PageSize \in Nat \ {0}
  BY SetupAssumption
<1> QED
  BY <1>1

\* Cutting a larger reservation at both ends leaves the pages asked for and no more.
LEMMA TrimmedPages ==
  ASSUME NEW pages, NEW b \in Nat, NEW h \in Nat, h <= b, NEW size \in Nat,
         NEW a \in Nat \ {0}, h < a,
         PagesOf(b * PageSize - h * PageSize, WholeSize(size, a * PageSize)) \cap pages = {}
  PROVE  Trimmed(pages, h * PageSize, b * PageSize, size, a * PageSize)
           = pages \cup PagesOf(b * PageSize, size)
<1>1. PageSize \in Nat \ {0}
  BY SetupAssumption
<1> DEFINE al == a * PageSize
           q == (size + al - 1) \div al
           g == q * a
           u == PagesUp(size)
           w == g + a
<1>2. al \in Nat \ {0}
  BY <1>1
<1>3. q \in Nat /\ size <= q * al
  <2>1. size + al - 1 \in Nat
    BY <1>2
  <2>2. q \in Nat /\ size + al - 1 < q * al + al
    BY <1>2, <2>1, DivBounds
  <2> DEFINE m == q * al
  <2>3. m \in Nat
    BY <1>2, <2>2, ProductInNat
  <2>4. size + al - 1 < m + al
    BY <2>2
  <2> HIDE DEF m, al
  <2>5. size <= m
    BY <1>2, <2>3, <2>4
  <2> QED
    BY <2>2, <2>5 DEF m
<1> HIDE DEF q
<1>4. g \in Nat /\ q * al = g * PageSize /\ w \in Nat
  BY <1>1, <1>3
<1> HIDE DEF g
<1>5. WholeSize(size, al) = w * PageSize
  <2>1. WholeSize(size, al) = g * PageSize + a * PageSize
    BY <1>4 DEF WholeSize, Align, q
  <2> QED
    BY <1>1, <1>4, <2>1
<1>6. u \in Nat /\ u * PageSize < size + PageSize /\ Align(size, PageSize) = u * PageSize
  BY PagesUpFacts
<1>7. u <= g
  <2> SUFFICES ASSUME g < u
               PROVE  FALSE
    BY <1>4, <1>6
  <2>1. g * PageSize + PageSize <= u * PageSize
    BY <1>4, <1>6, PageOrder
  <2> DEFINE x == g * PageSize
             y == u * PageSize
  <2>2. x \in Nat /\ y \in Nat /\ size <= x /\ x + PageSize <= y /\ y < size + PageSize
    BY <1>1, <1>3, <1>4, <1>6, <2>1, ProductInNat
  <2> HIDE DEF x, y
  <2> QED
    BY <1>1, <2>2
<1> HIDE DEF u
<1>8. w \in Nat /\ h + u <= w /\ h + u \in Nat /\ b - h \in Nat /\ b + u \in Nat
  BY <1>4, <1>6, <1>7
<1> HIDE DEF w
<1>9. b * PageSize - h * PageSize = (b - h) * PageSize
  BY PageDifference
<1>10. b * PageSize + u * PageSize = (b + u) * PageSize
  BY <1>1, <1>6
<1>11. w * PageSize - u * PageSize - h * PageSize = (w - (h + u)) * PageSize
  BY <1>1, <1>6, <1>8
<1>12. PagesOf(b * PageSize - h * PageSize, WholeSize(size, al)) = b - h .. b - h + w - 1
  <2>1. w * PageSize \in Nat /\ PagesUp(w * PageSize) = w
    BY <1>8, WholePages
  <2>2. PagesOf((b - h) * PageSize, w * PageSize) = b - h .. b - h + w - 1
    BY <1>8, <2>1, PageInterval
  <2> QED
    BY <1>5, <1>9, <2>2
<1>13. PagesOf(b * PageSize - h * PageSize, h * PageSize) = b - h .. b - 1
  <2>1. h * PageSize \in Nat /\ PagesUp(h * PageSize) = h
    BY WholePages
  <2>2. PagesOf((b - h) * PageSize, h * PageSize) = b - h .. b - h + h - 1
    BY <1>8, <2>1, PageInterval
  <2>3. b - h + h - 1 = b - 1
    OBVIOUS
  <2> QED
    BY <1>9, <2>2, <2>3
<1>14. PagesOf(b * PageSize + u * PageSize, w * PageSize - u * PageSize - h * PageSize)
         = b + u .. b - h + w - 1
  <2>1. w - (h + u) \in Nat
    BY <1>8
  <2>2. /\ (w - (h + u)) * PageSize \in Nat
        /\ PagesUp((w - (h + u)) * PageSize) = w - (h + u)
    BY <2>1, WholePages
  <2>3. PagesOf((b + u) * PageSize, (w - (h + u)) * PageSize)
          = b + u .. b + u + (w - (h + u)) - 1
    BY <1>8, <2>2, PageInterval
  <2>4. b + u + (w - (h + u)) - 1 = b - h + w - 1
    BY <1>8, <1>6
  <2> QED
    BY <1>10, <1>11, <2>3, <2>4
<1>15. PagesOf(b * PageSize, size) = b .. b + u - 1
  BY PageInterval DEF u
<1>16. Trimmed(pages, h * PageSize, b * PageSize, size, al)
         = ((pages \cup (b - h .. b - h + w - 1)) \ (b - h .. b - 1))
             \ (b + u .. b - h + w - 1)
  BY <1>5, <1>6, <1>12, <1>13, <1>14 DEF Trimmed, Free
<1>17. (b - h .. b - h + w - 1) \cap pages = {}
  BY <1>12
<1>18. ((b - h .. b - h + w - 1) \ (b - h .. b - 1)) \ (b + u .. b - h + w - 1)
         = b .. b + u - 1
  BY <1>6, <1>8
<1> DEFINE A == b - h .. b - h + w - 1
           B == b - h .. b - 1
           C == b + u .. b - h + w - 1
<1>19. B \subseteq A /\ C \subseteq A
  BY <1>6, <1>8
<1> HIDE DEF A, B, C
<1>20. ((pages \cup A) \ B) \ C = pages \cup ((A \ B) \ C)
  BY <1>17, <1>19 DEF A
<1> QED
  BY <1>15, <1>16, <1>18, <1>20 DEF A, B, C

\* alloc_aligned maps the pages of the block it returns, and keeps them mapped.
LEMMA AllocAlignedPages ==
  ASSUME NEW base \in Nat, base % PageSize = 0, NEW size \in Nat,
         NEW configured \in Nat \ {0}, configured <= PageSize \/ configured % PageSize = 0,
         AllocAligned(base, size, configured)
  PROVE  mapped' = mapped \cup PagesOf(base, size)
<1>1. PageSize \in Nat \ {0}
  BY SetupAssumption
<1>2. CASE configured <= PageSize
  BY <1>1, <1>2 DEF AllocAligned, Alloc, MaxOf
<1>3. CASE PageSize < configured
  <2>1. PICK head \in {h \in 0 .. configured - 1 : h % PageSize = 0 /\ h <= base} :
          /\ Unmapped(base - head, WholeSize(size, configured))
          /\ mapped' = Trimmed(mapped, head, base, size, configured)
    BY <1>1, <1>3 DEF AllocAligned, MaxOf
  <2>2. /\ head \in Nat /\ head < configured /\ head % PageSize = 0 /\ head <= base
        /\ configured \in Nat
    BY <1>1
  <2>3. PICK b \in Nat : base = b * PageSize
    BY <1>1, ModQuotient
  <2>4. PICK h \in Nat : head = h * PageSize
    BY <1>1, <2>2, ModQuotient
  <2>5. PICK a \in Nat : configured = a * PageSize
    BY <1>1, <1>3, <2>2, ModQuotient
  <2>6. h <= b
    <3>1. b < h => b * PageSize + PageSize <= h * PageSize
      BY PageOrder
    <3> DEFINE x == b * PageSize
               y == h * PageSize
    <3>2. x \in Nat /\ y \in Nat /\ y <= x
      BY <2>2, <2>3, <2>4
    <3> HIDE DEF x, y
    <3>3. ~ (b < h)
      BY <1>1, <3>1, <3>2 DEF x, y
    <3> QED
      BY <3>3
  <2>7. h < a
    <3>1. a <= h => a * PageSize <= h * PageSize
      BY PageOrder
    <3> QED
      BY <2>2, <2>4, <2>5, <3>1
  <2>8. a \in Nat \ {0}
    BY <2>7
  <2>9. PagesOf(b * PageSize - h * PageSize, WholeSize(size, a * PageSize)) \cap mapped = {}
    BY <2>1, <2>3, <2>4, <2>5 DEF Unmapped
  <2>10. Trimmed(mapped, h * PageSize, b * PageSize, size, a * PageSize)
           = mapped \cup PagesOf(b * PageSize, size)
    BY <2>6, <2>7, <2>8, <2>9, TrimmedPages
  <2> QED
    BY <2>1, <2>3, <2>4, <2>5, <2>10
<1> QED
  BY <1>1, <1>2, <1>3

-----------------------------------------------------------------------------
(* What is mapped.                                                         *)

\* At every stage the memories asked for so far, and no others, are mapped.
Stages ==
  /\ stage \in {"regions", "handles", "links", "ready"} => Created
  /\ stage # "ready" => given = {}
  /\ stage \in {"start", "failed"} => mapped = {}
  /\ stage = "layout" => mapped = OwnPages
  /\ stage = "regions" => mapped = OwnPages \cup RegionPages
  /\ stage = "handles" => mapped = OwnPages \cup RegionPages \cup HandlePages
  /\ stage \in {"links", "ready"} =>
       mapped = OwnPages \cup RegionPages \cup HandlePages \cup LinkPages

SInv == IInv /\ Stages

\* The tables are large enough for the handles laid out.
LEMMA SizesTyped ==
  ASSUME IInv
  PROVE  /\ RegionsSize \in Nat /\ HandlesSize \in Nat /\ LinksSize \in Nat
         /\ handleOffset * HandleSize <= HandlesSize
<1>1. handleOffset \in Nat /\ regionOffset \in Nat /\ HandleSize \in Nat \ {0}
  BY ConfigAssumption DEF IInv, TypeOK
<1>2. HandleAlignment \in Nat \ {0} /\ LinkSize \in Nat \ {0}
  BY SetupAssumption
<1> DEFINE n == handleOffset * HandleSize
           q == (n + HandleAlignment - 1) \div HandleAlignment
           m == q * HandleAlignment
<1>3. n \in Nat /\ LinkSize * handleOffset \in Nat
  BY <1>1, <1>2, ProductInNat
<1>4. q \in Nat /\ n + HandleAlignment - 1 < m + HandleAlignment
  <2> HIDE DEF n
  <2> QED
    BY <1>2, <1>3, DivBounds
<1>5. m \in Nat
  BY <1>2, <1>4, ProductInNat
<1>6. HandlesSize = m
  BY DEF HandlesSize, Align
<1> HIDE DEF n, m
<1>7. n <= m
  BY <1>2, <1>3, <1>4, <1>5
<1> QED
  BY <1>1, <1>3, <1>5, <1>6, <1>7 DEF RegionsSize, LinksSize, n

\* Laid out and mapped memories stay where they are while the layout does.
LEMMA SamePages ==
  ASSUME UNCHANGED specVars
  PROVE  /\ Created' = Created /\ OwnPages' = OwnPages /\ RegionPages' = RegionPages
         /\ HandlePages' = HandlePages /\ LinkPages' = LinkPages
<1>1. config' = config /\ specs' = specs /\ regionOffset' = regionOffset
      /\ handleOffset' = handleOffset
  BY DEF specVars
<1> QED
  BY <1>1 DEF Created, NumRegions, OwnPages, RegionPages, HandlePages, LinkPages,
              RegionsSize, HandlesSize, LinksSize, PagesOf

\* Every step keeps the invariant.
LEMMA SetupStepInv == SInv /\ [SetupNext]_setupVars => SInv'
<1> SUFFICES ASSUME SInv, [SetupNext]_setupVars
             PROVE  Stages'
  BY SetupStep, StepInv DEF SInv
<1>1. IInv /\ Stages
  BY DEF SInv
<1>2. /\ RegionsBase \in Nat /\ HandlesBase \in Nat /\ LinksBase \in Nat
      /\ RegionsBase % PageSize = 0 /\ HandlesBase % PageSize = 0
      /\ LinksBase % PageSize = 0
      /\ HandleAlignment \in Nat \ {0} /\ LinkSize \in Nat \ {0}
      /\ HandleAlignment <= PageSize \/ HandleAlignment % PageSize = 0
      /\ LinkSize <= PageSize \/ LinkSize % PageSize = 0
  BY ConfigAssumption, SetupAssumption
<1>3. /\ config.alignment \in Nat \ {0}
      /\ config.alignment <= PageSize \/ config.alignment % PageSize = 0
  <2>1. config.alignment \in RegionAlignments /\ config.alignment \in Nat \ {0}
    BY <1>1, ConfigFacts DEF IInv, TypeOK
  <2> QED
    BY <2>1, SetupAssumption
<1>4. RegionsSize \in Nat /\ HandlesSize \in Nat /\ LinksSize \in Nat
  BY <1>1, SizesTyped
<1>5. UNCHANGED vars => UNCHANGED specVars /\ given' = given
  BY DEF vars
<1>6. CASE CreateAllocator
  BY <1>1, <1>5, <1>6, SamePages DEF CreateAllocator, Alloc, Stages, OwnPages
<1>7. CASE LayOut
  <2>1. stage = "layout" /\ stage' = stage /\ mapped' = mapped /\ given' = given
    BY <1>7 DEF LayOut, AddRegion
  <2>2. OwnPages' = OwnPages
    BY DEF OwnPages, PagesOf
  <2> QED
    BY <1>1, <2>1, <2>2 DEF Stages
<1>8. CASE ReserveRegions
  <2>1. stage = "layout" /\ Created /\ UNCHANGED vars /\ mapped = OwnPages /\ given = {}
    BY <1>1, <1>8 DEF ReserveRegions, Stages
  <2>2. CASE AllocAligned(RegionsBase, RegionsSize, config.alignment) /\ stage' = "regions"
    <3>1. mapped' = mapped \cup RegionPages
      BY <1>2, <1>3, <1>4, <2>2, AllocAlignedPages DEF RegionPages
    <3> QED
      BY <1>5, <2>1, <2>2, <3>1, SamePages DEF Stages
  <2>3. CASE GiveUp(mapped)
    BY <1>5, <2>1, <2>3 DEF GiveUp, Free, OwnPages, Stages
  <2> QED
    BY <1>8, <2>2, <2>3 DEF ReserveRegions
<1>9. CASE AllocHandles
  <2>1. /\ stage = "regions" /\ Created /\ UNCHANGED vars /\ given = {}
        /\ mapped = OwnPages \cup RegionPages
    BY <1>1, <1>9 DEF AllocHandles, Stages
  <2>2. CASE AllocAligned(HandlesBase, HandlesSize, HandleAlignment) /\ stage' = "handles"
    <3>1. mapped' = mapped \cup HandlePages
      BY <1>2, <1>4, <2>2, AllocAlignedPages DEF HandlePages
    <3> QED
      BY <1>5, <2>1, <2>2, <3>1, SamePages DEF Stages
  <2>3. CASE GiveUp(Free(mapped, RegionsBase, RegionsSize))
    BY <1>5, <2>1, <2>3 DEF GiveUp, Free, OwnPages, RegionPages, Stages
  <2> QED
    BY <1>9, <2>2, <2>3 DEF AllocHandles
<1>10. CASE AllocLinks
  <2>1. /\ stage = "handles" /\ Created /\ UNCHANGED vars /\ given = {}
        /\ mapped = OwnPages \cup RegionPages \cup HandlePages
    BY <1>1, <1>10 DEF AllocLinks, Stages
  <2>2. CASE AllocAligned(LinksBase, LinksSize, LinkSize) /\ stage' = "links"
    <3>1. mapped' = mapped \cup LinkPages
      BY <1>2, <1>4, <2>2, AllocAlignedPages DEF LinkPages
    <3> QED
      BY <1>5, <2>1, <2>2, <3>1, SamePages DEF Stages
  <2>3. CASE GiveUp(Free(Free(mapped, HandlesBase, HandlesSize), RegionsBase, RegionsSize))
    BY <1>5, <2>1, <2>3 DEF GiveUp, Free, OwnPages, RegionPages, HandlePages, Stages
  <2> QED
    BY <1>10, <2>2, <2>3 DEF AllocLinks
<1>11. CASE Finish
  <2>1. /\ stage = "links" /\ Created /\ UNCHANGED vars /\ given = {}
        /\ mapped = OwnPages \cup RegionPages \cup HandlePages \cup LinkPages
    BY <1>1, <1>11 DEF Finish, Stages
  <2>2. CASE stage' = "ready" /\ UNCHANGED mapped
    BY <1>5, <2>1, <2>2, SamePages DEF Stages
  <2>3. CASE GiveUp(ReleaseBundle)
    BY <1>5, <2>1, <2>3 DEF GiveUp, ReleaseBundle, Free, OwnPages, RegionPages, HandlePages,
                            LinkPages, Stages
  <2> QED
    BY <1>11, <2>2, <2>3 DEF Finish
<1>12. CASE Call
  <2>1. stage = "ready" /\ stage' = stage /\ mapped' = mapped
    BY <1>12 DEF Call
  <2>2. UNCHANGED specVars
    BY <1>12 DEF Call, AllocateChunk, DeallocateChunk
  <2> QED
    BY <1>1, <2>1, <2>2, SamePages DEF Stages
<1>13. CASE UNCHANGED setupVars
  <2>1. stage' = stage /\ mapped' = mapped /\ UNCHANGED vars
    BY <1>13 DEF setupVars
  <2> QED
    BY <1>1, <1>5, <2>1, SamePages DEF Stages
<1> QED
  BY <1>6, <1>7, <1>8, <1>9, <1>10, <1>11, <1>12, <1>13 DEF SetupNext

\* The invariant holds in every state.
LEMMA SpecSetupInv == SetupSpec => []SInv
<1>1. SetupInit => SInv
  <2> SUFFICES ASSUME SetupInit
               PROVE  SInv
    OBVIOUS
  <2>1. IInv
    BY InitInv DEF SetupInit
  <2>2. stage = "start" /\ mapped = {} /\ given = {}
    BY DEF SetupInit, Init
  <2> QED
    BY <2>1, <2>2 DEF SInv, Stages
<1> QED
  BY <1>1, SetupStepInv, PTL DEF SetupSpec

\* The pages of a part of a block are among those of the block.
LEMMA PagesMonotone ==
  ASSUME NEW a, NEW n, NEW b, NEW m, a .. a + n - 1 \subseteq b .. b + m - 1
  PROVE  PagesOf(a, n) \subseteq PagesOf(b, m)
BY DEF PagesOf

\* The h-th of n things of one size lies in the memory for n of them.
LEMMA ElementInside ==
  ASSUME NEW b \in Nat, NEW h \in Nat, NEW n \in Nat, h < n, NEW s \in Nat \ {0},
         NEW m \in Nat, n * s <= m
  PROVE  b + h * s .. b + h * s + s - 1 \subseteq b .. b + m - 1
<1> DEFINE x == h * s
           y == n * s
<1>1. x \in Nat /\ y \in Nat
  BY ProductInNat
<1>2. (h + 1) * s <= y /\ (h + 1) * s = x + s
  BY ProductMonotone
<1>3. x + s <= y /\ y <= m
  BY <1>2
<1> HIDE DEF x, y
<1>4. b + x .. b + x + s - 1 \subseteq b .. b + m - 1
  BY <1>1, <1>3
<1> QED
  BY <1>4 DEF x

\* The memory, the handle and the link of an allocation are mapped.
LEMMA GivenIsMapped ==
  ASSUME SInv, NEW a \in given
  PROVE  PagesOf(ChunkStart(a), specs[a.region].chunk_size)
           \cup PagesOf(HandleStart(a.handle), HandleSize)
           \cup PagesOf(LinksBase + a.handle * LinkSize, LinkSize) \subseteq mapped
<1>1. IInv /\ mapped = OwnPages \cup RegionPages \cup HandlePages \cup LinkPages
  BY DEF SInv, Stages
<1>2. a.handle \in Nat /\ a.handle < handleOffset /\ handleOffset \in Nat
  BY <1>1, GivenFacts, HandleFacts DEF IInv, TypeOK
<1>3. /\ RegionsBase \in Nat /\ HandlesBase \in Nat /\ LinksBase \in Nat
      /\ HandleSize \in Nat \ {0} /\ LinkSize \in Nat \ {0}
  BY ConfigAssumption, SetupAssumption
<1>4. /\ RegionsSize \in Nat /\ HandlesSize \in Nat /\ LinksSize \in Nat
      /\ handleOffset * HandleSize <= HandlesSize
  BY <1>1, SizesTyped
<1>5. PagesOf(ChunkStart(a), specs[a.region].chunk_size) \subseteq RegionPages
  <2>1. \A ptr \in ChunkBytes(a) : BelongsAnyRegion(ptr)
    BY <1>1, AllocationFound
  <2>2. ChunkStart(a) \in Nat /\ specs[a.region].chunk_size \in Nat
    <3>1. /\ a.region \in Regions /\ a.chunk \in Nat /\ Created
      BY <1>1, GivenFacts
    <3>2. specs[a.region] \in SpecType
      BY <1>1, <3>1, RegionFacts
    <3>3. /\ specs[a.region].chunk_size \in Nat /\ specs[a.region].region_offset \in Nat
      BY <3>2 DEF SpecType
    <3>4. a.chunk * specs[a.region].chunk_size \in Nat
      BY <3>1, <3>3, ProductInNat
    <3> QED
      BY <1>3, <3>3, <3>4 DEF ChunkStart
  <2> DEFINE s == ChunkStart(a)
             n == specs[a.region].chunk_size
  <2>3. \A ptr \in s .. s + n - 1 : RegionsBase <= ptr /\ ptr < RegionsBase + RegionsSize
    BY <2>1 DEF ChunkBytes, BelongsAnyRegion, RegionsSize
  <2> HIDE DEF s, n
  <2>4. s .. s + n - 1 \subseteq RegionsBase .. RegionsBase + RegionsSize - 1
    BY <1>3, <1>4, <2>2, <2>3 DEF s, n
  <2>5. PagesOf(s, n) \subseteq PagesOf(RegionsBase, RegionsSize)
    BY <2>4, PagesMonotone
  <2> QED
    BY <2>5 DEF RegionPages, s, n
<1>6. PagesOf(HandleStart(a.handle), HandleSize) \subseteq HandlePages
  <2>1. HandlesBase + a.handle * HandleSize .. HandlesBase + a.handle * HandleSize + HandleSize - 1
          \subseteq HandlesBase .. HandlesBase + HandlesSize - 1
    BY <1>2, <1>3, <1>4, ElementInside
  <2> QED
    BY <2>1, PagesMonotone DEF HandleStart, HandlePages
<1>7. PagesOf(LinksBase + a.handle * LinkSize, LinkSize) \subseteq LinkPages
  <2>1. handleOffset * LinkSize <= LinksSize
    BY <1>2, <1>3 DEF LinksSize
  <2>2. LinksBase + a.handle * LinkSize .. LinksBase + a.handle * LinkSize + LinkSize - 1
          \subseteq LinksBase .. LinksBase + LinksSize - 1
    BY <1>2, <1>3, <1>4, <2>1, ElementInside
  <2> QED
    BY <2>2, PagesMonotone DEF LinkPages
<1> QED
  BY <1>1, <1>5, <1>6, <1>7

\* For every page size, every configuration and all addresses: whichever memory is
\* refused, nothing stays mapped, and whatever is given away lies in mapped memory.
THEOREM CreationLeaksNothing == SetupSpec => []NothingLeaks
<1>1. SInv => NothingLeaks
  BY GivenIsMapped DEF SInv, Stages, NothingLeaks
<1> QED
  BY <1>1, SpecSetupInv, PTL
=============================================================================
