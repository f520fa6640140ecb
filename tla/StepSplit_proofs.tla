---------------------------- MODULE StepSplit_proofs ----------------------------
(***************************************************************************)
(* The classification of the step-split allocator, for all steps, splits   *)
(* and alignments: powers of two, aligned sizes, and from them that the    *)
(* bins of sizes and of arenas meet.                                       *)
(***************************************************************************)
EXTENDS StepSplit, SumTheorems

-----------------------------------------------------------------------------
(* Powers of two.                                                          *)

PowStep(g, i) == IF i = 0 THEN 1 ELSE 2 * g[i - 1]

\* The recursive definition of the powers has a solution up to every number.
LEMMA PowersTo ==
  \A n \in Nat : \E g : g = [i \in 0 .. n |-> PowStep(g, i)]
<1> DEFINE Good == {n \in Nat : \E g : g = [i \in 0 .. n |-> PowStep(g, i)]}
<1>1. 0 \in Good
  <2> DEFINE g == [i \in 0 .. 0 |-> 1]
  <2>1. g = [i \in 0 .. 0 |-> PowStep(g, i)]
    BY DEF PowStep
  <2> HIDE DEF g
  <2> QED BY <2>1
<1>2. ASSUME NEW n \in Nat, n \in Good PROVE n + 1 \in Good
  <2>1. PICK g : g = [i \in 0 .. n |-> PowStep(g, i)]
    BY <1>2
  <2> DEFINE h == [i \in 0 .. n + 1 |-> PowStep(g, i)]
  <2>2. ASSUME NEW i \in 0 .. n + 1 PROVE PowStep(h, i) = PowStep(g, i)
    <3>1. CASE i = 0
      BY <3>1 DEF PowStep
    <3>2. CASE i # 0
      <4>1. i - 1 \in 0 .. n /\ i - 1 \in 0 .. n + 1
        BY <3>2
      <4>2. g[i - 1] = PowStep(g, i - 1) /\ h[i - 1] = PowStep(g, i - 1)
        BY <4>1, <2>1
      <4> QED BY <3>2, <4>2 DEF PowStep
    <3> QED BY <3>1, <3>2
  <2>3. h = [i \in 0 .. n + 1 |-> PowStep(h, i)]
    BY <2>2
  <2> HIDE DEF h
  <2> QED BY <2>3
<1> HIDE DEF Good
<1>3. Nat \subseteq Good
  BY <1>1, <1>2, NatSetInduction
<1> QED BY <1>3 DEF Good

\* Two such solutions agree as far as both go.
LEMMA PowersAgree ==
  ASSUME NEW n \in Nat, NEW m \in Nat, n <= m,
         NEW g, g = [i \in 0 .. n |-> PowStep(g, i)],
         NEW h, h = [i \in 0 .. m |-> PowStep(h, i)]
  PROVE  \A i \in 0 .. n : g[i] = h[i]
<1> DEFINE Good == {i \in Nat : i \in 0 .. n => g[i] = h[i]}
<1>0. /\ \A i \in 0 .. n : g[i] = PowStep(g, i)
      /\ \A i \in 0 .. m : h[i] = PowStep(h, i)
  OBVIOUS
<1>1. 0 \in Good
  BY <1>0 DEF PowStep
<1>2. ASSUME NEW i \in Nat, i \in Good PROVE i + 1 \in Good
  <2>1. SUFFICES ASSUME i + 1 \in 0 .. n PROVE g[i + 1] = h[i + 1]
    OBVIOUS
  <2>2. g[i] = h[i]
    BY <1>2, <2>1
  <2>3. g[i + 1] = PowStep(g, i + 1) /\ h[i + 1] = PowStep(h, i + 1)
    BY <1>0, <2>1
  <2> QED BY <2>2, <2>3 DEF PowStep
<1> HIDE DEF Good
<1>3. Nat \subseteq Good
  BY <1>1, <1>2, NatSetInduction
<1> QED BY <1>3 DEF Good

\* So it has a solution on all numbers.
LEMMA PowersExist == \E g : g = [n \in Nat |-> PowStep(g, n)]
<1> DEFINE H(n) == CHOOSE g : g = [i \in 0 .. n |-> PowStep(g, i)]
           G == [n \in Nat |-> H(n)[n]]
<1>1. \A n \in Nat : H(n) = [i \in 0 .. n |-> PowStep(H(n), i)]
  BY PowersTo
<1> HIDE DEF H
<1>2. ASSUME NEW n \in Nat PROVE G[n] = PowStep(G, n)
  <2>1. H(n)[n] = PowStep(H(n), n)
    <3>1. PICK h : h = H(n)
      OBVIOUS
    <3>2. h = [i \in 0 .. n |-> PowStep(h, i)]
      BY <1>1, <3>1
    <3>3. h[n] = PowStep(h, n)
      BY <3>2
    <3> QED BY <3>1, <3>3
  <2>2. CASE n = 0
    BY <2>1, <2>2 DEF PowStep
  <2>3. CASE n # 0
    <3>1. n - 1 \in Nat /\ n - 1 <= n /\ n - 1 \in 0 .. n - 1
      BY <2>3
    <3>2. PICK g, h : g = H(n - 1) /\ h = H(n)
      OBVIOUS
    <3>3. g = [i \in 0 .. n - 1 |-> PowStep(g, i)] /\ h = [i \in 0 .. n |-> PowStep(h, i)]
      BY <1>1, <3>1, <3>2
    <3>4. g[n - 1] = h[n - 1]
      BY <3>1, <3>3, PowersAgree
    <3>5. G[n - 1] = g[n - 1] /\ G[n] = h[n]
      BY <3>1, <3>2
    <3> QED BY <2>1, <2>3, <3>2, <3>4, <3>5 DEF PowStep
  <2> QED BY <2>2, <2>3
<1>3. G = [n \in Nat |-> PowStep(G, n)]
  BY <1>2
<1> HIDE DEF G
<1> QED BY <1>3

\* intpow2 doubles from one exponent to the next.
LEMMA PowerStep ==
  /\ IntPow2[0] = 1
  /\ \A n \in Nat : IntPow2[n + 1] = 2 * IntPow2[n]
<1>1. IntPow2 = CHOOSE g : g = [n \in Nat |-> PowStep(g, n)]
  BY DEF IntPow2, PowStep
<1>2. IntPow2 = [n \in Nat |-> PowStep(IntPow2, n)]
  BY <1>1, PowersExist
<1>3. \A n \in Nat : IntPow2[n] = PowStep(IntPow2, n)
  BY <1>2
<1>4. IntPow2[0] = 1
  BY <1>3 DEF PowStep
<1>5. ASSUME NEW n \in Nat PROVE IntPow2[n + 1] = 2 * IntPow2[n]
  <2>1. n + 1 \in Nat /\ n + 1 # 0 /\ (n + 1) - 1 = n
    OBVIOUS
  <2>2. IntPow2[n + 1] = PowStep(IntPow2, n + 1)
    BY <1>3, <2>1
  <2> QED BY <2>1, <2>2 DEF PowStep
<1> QED BY <1>4, <1>5

\* Powers of two are positive.
LEMMA PowerType == \A n \in Nat : IntPow2[n] \in Nat \ {0}
<1> DEFINE Good == {n \in Nat : IntPow2[n] \in Nat \ {0}}
<1>1. 0 \in Good
  BY PowerStep
<1>2. ASSUME NEW n \in Nat, n \in Good PROVE n + 1 \in Good
  BY <1>2, PowerStep
<1> HIDE DEF Good
<1>3. Nat \subseteq Good
  BY <1>1, <1>2, NatSetInduction
<1> QED BY <1>3 DEF Good

\* The power of a sum of exponents is the product of their powers.
LEMMA PowerSum ==
  ASSUME NEW a \in Nat, NEW b \in Nat
  PROVE  IntPow2[a + b] = IntPow2[a] * IntPow2[b]
<1> DEFINE Good == {n \in Nat : IntPow2[a + n] = IntPow2[a] * IntPow2[n]}
<1>1. 0 \in Good
  BY PowerStep, PowerType
<1>2. ASSUME NEW n \in Nat, n \in Good PROVE n + 1 \in Good
  <2>1. PICK p \in Nat, q \in Nat : p = IntPow2[a] /\ q = IntPow2[n]
    BY PowerType
  <2>2. IntPow2[a + n] = p * q
    BY <1>2, <2>1
  <2>3. IntPow2[a + (n + 1)] = 2 * (p * q)
    <3>1. a + n \in Nat /\ a + (n + 1) = (a + n) + 1
      OBVIOUS
    <3> QED BY <2>2, <3>1, PowerStep
  <2>4. IntPow2[n + 1] = 2 * q
    BY <2>1, PowerStep
  <2>5. 2 * (p * q) = p * (2 * q)
    OBVIOUS
  <2> QED BY <2>1, <2>3, <2>4, <2>5
<1> HIDE DEF Good
<1>3. Nat \subseteq Good
  BY <1>1, <1>2, NatSetInduction
<1> QED BY <1>3 DEF Good

\* A larger exponent gives at least twice the power.
LEMMA PowerGrows ==
  ASSUME NEW a \in Nat, NEW b \in Nat, a < b
  PROVE  2 * IntPow2[a] <= IntPow2[b]
<1>1. PICK d \in Nat : b = (a + 1) + d
  <2>1. b - (a + 1) \in Nat /\ b = (a + 1) + (b - (a + 1))
    OBVIOUS
  <2> QED BY <2>1
<1>2. PICK p \in Nat \ {0}, q \in Nat \ {0} : p = IntPow2[a] /\ q = IntPow2[d]
  BY PowerType
<1>3. IntPow2[b] = (2 * p) * q
  BY <1>1, <1>2, PowerSum, PowerStep
<1>4. 2 * p <= (2 * p) * q
  BY <1>2
<1> QED BY <1>2, <1>3, <1>4

\* A power exceeds its exponent.
LEMMA PowerExceeds == \A n \in Nat : n < IntPow2[n]
<1> DEFINE Good == {n \in Nat : n < IntPow2[n]}
<1>1. 0 \in Good
  BY PowerStep
<1>2. ASSUME NEW n \in Nat, n \in Good PROVE n + 1 \in Good
  <2>1. PICK p \in Nat : p = IntPow2[n]
    BY PowerType
  <2> QED BY <1>2, <2>1, PowerStep
<1> HIDE DEF Good
<1>3. Nat \subseteq Good
  BY <1>1, <1>2, NatSetInduction
<1> QED BY <1>3 DEF Good

\* intlog2 of a positive number finds the powers it lies between.
LEMMA Log2Facts ==
  ASSUME NEW n \in Nat \ {0}
  PROVE  /\ IntLog2(n) \in Nat
         /\ IntPow2[IntLog2(n)] <= n /\ n < IntPow2[IntLog2(n) + 1]
<1> DEFINE S == {k \in Nat : n < IntPow2[k + 1]}
<1>1. \A k \in Nat : IntPow2[k] \in Nat /\ IntPow2[k + 1] = 2 * IntPow2[k] /\ k < IntPow2[k]
  BY PowerType, PowerStep, PowerExceeds
<1>2. n \in S
  BY <1>1
<1>3. PICK k \in S : \A i \in S : k <= i
  BY <1>2, LeastNumber
<1>4. IntPow2[k] <= n
  <2>1. CASE k = 0
    BY <2>1, PowerStep
  <2>2. CASE k # 0
    <3>1. k - 1 \in Nat /\ k - 1 \notin S /\ (k - 1) + 1 = k
      BY <1>3, <2>2
    <3>2. IntPow2[k] \in Nat
      BY PowerType
    <3> QED BY <3>1, <3>2
  <2> QED BY <2>1, <2>2
<1>5. k \in 0 .. n
  <2>1. k \in Nat /\ IntPow2[k] \in Nat /\ k < IntPow2[k]
    BY <1>1
  <2> QED BY <1>4, <2>1
<1>6. \E i \in 0 .. n : IntPow2[i] <= n /\ n < IntPow2[i + 1]
  BY <1>3, <1>4, <1>5
<1>7. IntLog2(n) = CHOOSE i \in 0 .. n : IntPow2[i] <= n /\ n < IntPow2[i + 1]
  BY DEF IntLog2
<1> HIDE DEF S
<1> QED BY <1>6, <1>7

-----------------------------------------------------------------------------
(* Division and alignment.                                                 *)

\* What division leaves over is less than the divisor.
LEMMA DivBounds ==
  ASSUME NEW x \in Nat, NEW c \in Nat \ {0}
  PROVE  /\ x \div c \in Nat
         /\ (x \div c) * c <= x
         /\ x < (x \div c) * c + c
OBVIOUS

\* A quotient and a rest below the divisor are those of the division.
LEMMA DivUnique ==
  ASSUME NEW q \in Nat, NEW o \in Nat, NEW c \in Nat \ {0}, o < c
  PROVE  (q * c + o) \div c = q /\ (q * c + o) % c = o
OBVIOUS

\* A number without rest is a multiple.
LEMMA ModQuotient ==
  ASSUME NEW x \in Nat, NEW c \in Nat \ {0}, x % c = 0
  PROVE  \E q \in Nat : x = q * c
OBVIOUS

\* A multiple has no rest.
LEMMA ModZero ==
  ASSUME NEW q \in Nat, NEW c \in Nat \ {0}
  PROVE  (q * c) % c = 0
OBVIOUS

\* A common factor cancels.
LEMMA DivScaled ==
  ASSUME NEW x \in Nat, NEW c \in Nat \ {0}, NEW k \in Nat \ {0}
  PROVE  (x * k) \div (k * c) = x \div c
<1> DEFINE q == x \div c
<1>1. q \in Nat /\ q * c <= x /\ x < q * c + c
  BY DivBounds
<1> HIDE DEF q
<1>2. PICK o \in Nat : x = q * c + o /\ o < c
  <2>1. x - q * c \in Nat
    BY <1>1
  <2> QED BY <1>1, <2>1
<1>3. x * k = q * (k * c) + o * k
  BY <1>1, <1>2
<1>4. o * k < k * c /\ o * k \in Nat /\ k * c \in Nat \ {0}
  BY <1>2
<1>5. (q * (k * c) + o * k) \div (k * c) = q
  BY <1>1, <1>4, DivUnique
<1> QED BY <1>3, <1>5 DEF q

\* align() rounds up to the next multiple.
LEMMA AlignFacts ==
  ASSUME NEW v \in Nat, NEW a \in Nat \ {0}
  PROVE  /\ AlignUp(v, a) \in Nat
         /\ v <= AlignUp(v, a)
         /\ v # 0 => AlignUp(v, a) # 0
         /\ IsAligned(AlignUp(v, a), a)
         /\ \A w \in Nat : v <= w /\ IsAligned(w, a) => AlignUp(v, a) <= w
<1> DEFINE q == (v + a - 1) \div a
<1>1. v + a - 1 \in Nat
  OBVIOUS
<1>2. q \in Nat /\ q * a <= v + a - 1 /\ v + a - 1 < q * a + a
  BY <1>1, DivBounds
<1>3. AlignUp(v, a) = q * a
  BY DEF AlignUp
<1> HIDE DEF q
<1>4. q * a \in Nat /\ v <= q * a /\ (v # 0 => q * a # 0)
  BY <1>2
<1>5. (q * a) % a = 0
  BY <1>2, ModZero
<1>6. ASSUME NEW w \in Nat, v <= w, w % a = 0 PROVE q * a <= w
  <2>1. PICK p \in Nat : w = p * a
    BY <1>6, ModQuotient
  <2>2. q * a < p * a + a
    BY <1>2, <1>6, <2>1
  <2>3. q <= p
    <3>1. SUFFICES ASSUME p + 1 <= q PROVE FALSE
      BY <1>2
    <3>2. (p + 1) * a <= q * a
      BY <1>2, <3>1
    <3> QED BY <1>2, <2>2, <3>2
  <2> QED BY <1>2, <2>1, <2>3
<1> QED BY <1>3, <1>4, <1>5, <1>6 DEF IsAligned

\* Alignments are positive.
LEMMA AlignmentType ==
  /\ \A id \in AlignmentIds : AlignmentOf(id) \in Nat \ {0}
  /\ Alignments \subseteq Nat \ {0}
BY AlignmentAssumption, PowerType DEF AlignmentIds, AlignmentOf, Alignments

\* Larger powers of two are aligned to smaller ones.
LEMMA PowerAligned ==
  ASSUME NEW id \in AlignmentIds, NEW n \in Nat, MaxAlignmentLog2 <= n
  PROVE  IsAligned(IntPow2[n], AlignmentOf(id))
<1>1. PICK e \in Nat : e = MinAlignmentLog2 + id /\ e <= n
  BY AlignmentAssumption DEF AlignmentIds
<1>2. n - e \in Nat /\ (n - e) + e = n
  BY <1>1
<1>3. IntPow2[n] = IntPow2[n - e] * IntPow2[e]
  BY <1>1, <1>2, PowerSum
<1>4. IntPow2[n - e] \in Nat /\ IntPow2[e] \in Nat \ {0}
  BY <1>1, <1>2, PowerType
<1> QED BY <1>1, <1>3, <1>4, ModZero DEF IsAligned, AlignmentOf

-----------------------------------------------------------------------------
(* The bins: where each begins, and in which a size lies.                  *)

\* Where a step begins, and how long its splits are.
BaseOf(step) == IF step = 0 THEN 0 ELSE IntPow2[MinStepLog2 + step - 1]
SplitOf(step) == IF step = 0 THEN IntPow2[MinStepLog2 - NumSplitsLog2]
                 ELSE IntPow2[MinStepLog2 + step - 1 - NumSplitsLog2]

\* What FastArenaBinsInfo::create has checked of the parameters.
LEMMA Parameters ==
  /\ NumSplitsLog2 \in Nat /\ MinStepLog2 \in Nat \ {0} /\ MaxStepLog2 \in Nat
  /\ NumSplitsLog2 <= MinStepLog2 /\ MinStepLog2 <= MaxStepLog2
  /\ NumSplits \in Nat \ {0} /\ NumSteps \in Nat \ {0}
BY StepAssumption, PowerType DEF NumSplits, NumSteps

\* A step is as long as all its splits.
LEMMA StepFacts ==
  ASSUME NEW step \in Nat
  PROVE  /\ BaseOf(step) \in Nat /\ SplitOf(step) \in Nat \ {0}
         /\ BaseOf(step + 1) = BaseOf(step) + NumSplits * SplitOf(step)
<1> DEFINE n == IF step = 0 THEN MinStepLog2 ELSE MinStepLog2 + step - 1
<1>1. n \in Nat /\ n - NumSplitsLog2 \in Nat
  BY Parameters
<1>2. IntPow2[n] \in Nat /\ IntPow2[n - NumSplitsLog2] \in Nat \ {0}
  BY <1>1, PowerType
<1>3. SplitOf(step) = IntPow2[n - NumSplitsLog2]
  BY Parameters DEF SplitOf
<1>4. BaseOf(step) \in Nat
  BY Parameters, PowerType DEF BaseOf
<1>5. NumSplits * SplitOf(step) = IntPow2[n]
  <2>1. NumSplitsLog2 + (n - NumSplitsLog2) = n
    BY <1>1, Parameters
  <2>2. IntPow2[NumSplitsLog2 + (n - NumSplitsLog2)]
          = IntPow2[NumSplitsLog2] * IntPow2[n - NumSplitsLog2]
    BY <1>1, Parameters, PowerSum
  <2> QED BY <1>3, <2>1, <2>2 DEF NumSplits
<1>6. BaseOf(step + 1) = BaseOf(step) + IntPow2[n]
  <2>1. BaseOf(step + 1) = IntPow2[MinStepLog2 + step]
    BY Parameters DEF BaseOf
  <2>2. CASE step = 0
    BY <1>2, <2>1, <2>2, Parameters DEF BaseOf
  <2>3. CASE step # 0
    <3>1. BaseOf(step) = IntPow2[n] /\ MinStepLog2 + step = n + 1
      BY <2>3, Parameters DEF BaseOf
    <3>2. IntPow2[n + 1] = 2 * IntPow2[n]
      BY <1>1, PowerStep
    <3> QED BY <1>2, <2>1, <3>1, <3>2
  <2> QED BY <2>2, <2>3
<1> QED BY <1>2, <1>3, <1>4, <1>5, <1>6

\* The last bin of a step begins where the next step does.
LEMMA BinBaseAt ==
  ASSUME NEW step \in Nat, NEW j \in 0 .. NumSplits
  PROVE  BinBase(step * NumSplits + j) = BaseOf(step) + j * SplitOf(step)
<1>1. ASSUME NEW t \in Nat, NEW i \in Nat, i < NumSplits
      PROVE BinBase(t * NumSplits + i) = BaseOf(t) + i * SplitOf(t)
  <2>1. (t * NumSplits + i) \div NumSplits = t /\ (t * NumSplits + i) % NumSplits = i
    BY <1>1, Parameters, DivUnique
  <2> QED BY <2>1, Parameters DEF BinBase, BaseOf, SplitOf
<1>2. CASE j < NumSplits
  BY <1>1, <1>2
<1>3. CASE j = NumSplits
  <2>1. step * NumSplits + j = (step + 1) * NumSplits + 0
    BY <1>3, Parameters
  <2>2. BinBase((step + 1) * NumSplits + 0) = BaseOf(step + 1) + 0 * SplitOf(step + 1)
    BY <1>1, Parameters
  <2>3. BaseOf(step + 1) \in Nat /\ SplitOf(step + 1) \in Nat
    BY StepFacts
  <2>4. BaseOf(step + 1) = BaseOf(step) + j * SplitOf(step)
    BY <1>3, StepFacts
  <2> QED BY <2>1, <2>2, <2>3, <2>4
<1> QED BY <1>2, <1>3, Parameters

\* The bases of the bins grow from each to the next.
LEMMA BinBaseNext ==
  ASSUME NEW b \in Nat
  PROVE  BinBase(b) \in Nat /\ BinBase(b) < BinBase(b + 1)
<1>1. PICK step \in Nat, j \in Nat : b = step * NumSplits + j /\ j < NumSplits
  <2> DEFINE q == b \div NumSplits
  <2>1. q \in Nat /\ q * NumSplits <= b /\ b < q * NumSplits + NumSplits
    BY DivBounds, Parameters
  <2> HIDE DEF q
  <2>2. b - q * NumSplits \in Nat /\ b = q * NumSplits + (b - q * NumSplits)
        /\ b - q * NumSplits < NumSplits
    BY <2>1, Parameters
  <2> QED BY <2>1, <2>2
<1>2. b + 1 = step * NumSplits + (j + 1) /\ j \in 0 .. NumSplits /\ j + 1 \in 0 .. NumSplits
  BY <1>1, Parameters
<1>3. /\ BinBase(b) = BaseOf(step) + j * SplitOf(step)
      /\ BinBase(b + 1) = BaseOf(step) + (j + 1) * SplitOf(step)
  BY <1>1, <1>2, BinBaseAt
<1>4. BaseOf(step) \in Nat /\ SplitOf(step) \in Nat \ {0}
  BY StepFacts
<1>5. (j + 1) * SplitOf(step) = j * SplitOf(step) + SplitOf(step) /\ j * SplitOf(step) \in Nat
  BY <1>1, <1>4
<1> QED BY <1>3, <1>4, <1>5

\* A later bin has a larger base.
LEMMA BinBaseGrows ==
  ASSUME NEW a \in Nat, NEW b \in Nat, a < b
  PROVE  BinBase(a) < BinBase(b)
<1> DEFINE Good == {d \in Nat : BinBase(a) < BinBase(a + 1 + d)}
<1>1. 0 \in Good
  BY BinBaseNext
<1>2. ASSUME NEW d \in Nat, d \in Good PROVE d + 1 \in Good
  <2>1. a + 1 + d \in Nat /\ a + 1 + (d + 1) = (a + 1 + d) + 1
    OBVIOUS
  <2>2. /\ BinBase(a) \in Nat /\ BinBase(a + 1 + d) \in Nat /\ BinBase((a + 1 + d) + 1) \in Nat
        /\ BinBase(a + 1 + d) < BinBase((a + 1 + d) + 1)
    BY <2>1, BinBaseNext
  <2> QED BY <1>2, <2>1, <2>2
<1> HIDE DEF Good
<1>3. Nat \subseteq Good
  BY <1>1, <1>2, NatSetInduction
<1>4. b - (a + 1) \in Good /\ a + 1 + (b - (a + 1)) = b
  BY <1>3
<1> QED BY <1>4 DEF Good

\* The bases are ordered as the bins are.
LEMMA BinBaseKeepsOrder ==
  ASSUME NEW a \in Nat, NEW b \in Nat, a <= b
  PROVE  BinBase(a) \in Nat /\ BinBase(b) \in Nat /\ BinBase(a) <= BinBase(b)
<1>1. CASE a = b
  BY <1>1, BinBaseNext
<1>2. CASE a < b
  BY <1>2, BinBaseGrows, BinBaseNext
<1> QED BY <1>1, <1>2

\* The lesser and the greater of two numbers.
LEMMA MinMaxPair ==
  ASSUME NEW a \in Int, NEW b \in Int
  PROVE  /\ Min({a, b}) = IF a <= b THEN a ELSE b
         /\ Max({a, b}) = IF a <= b THEN b ELSE a
<1>1. Min({a, b}) \in {a, b} /\ \A y \in {a, b} : Min({a, b}) <= y
  <2>1. \E x \in {a, b} : \A y \in {a, b} : x <= y
    OBVIOUS
  <2> QED BY <2>1 DEF Min
<1>2. Max({a, b}) \in {a, b} /\ \A y \in {a, b} : Max({a, b}) >= y
  <2>1. \E x \in {a, b} : \A y \in {a, b} : x >= y
    OBVIOUS
  <2> QED BY <2>1 DEF Max
<1> QED BY <1>1, <1>2

\* The step a size lies in; the last one takes all that is larger.
LEMMA StepOfSize ==
  ASSUME NEW size \in Nat
  PROVE  /\ StepId(size) \in 0 .. NumSteps
         /\ StepBase(size) = BaseOf(StepId(size))
         /\ SplitSize(size) = SplitOf(StepId(size))
         /\ IntPow2[StepLog2(size)] = NumSplits * SplitOf(StepId(size))
         /\ BaseOf(StepId(size)) <= size
         /\ \/ size < BaseOf(StepId(size)) + NumSplits * SplitOf(StepId(size))
            \/ StepId(size) = NumSteps
<1>1. IntLog2(size) \in Nat
  BY Log2Facts DEF IntLog2
<1>2. PICK low \in Nat : low = Min({IntLog2(size), MaxStepLog2})
  BY <1>1, Parameters, MinMaxPair
<1>3. low <= IntLog2(size) /\ low <= MaxStepLog2 /\ (low = IntLog2(size) \/ low = MaxStepLog2)
  BY <1>1, <1>2, Parameters, MinMaxPair
<1>4. StepLog2(size) = IF MinStepLog2 <= low THEN low ELSE MinStepLog2
  <2>1. StepLog2(size) = Max({MinStepLog2, low})
    BY <1>2 DEF StepLog2
  <2>2. Max({MinStepLog2, low}) = IF MinStepLog2 <= low THEN low ELSE MinStepLog2
    BY Parameters, MinMaxPair
  <2> QED BY <2>1, <2>2
<1>5. InStepZero(size) <=> low < MinStepLog2
  BY <1>2 DEF InStepZero
<1>6. CASE low < MinStepLog2
  <2>1. StepId(size) = 0 /\ StepBase(size) = 0 /\ StepLog2(size) = MinStepLog2
    BY <1>4, <1>5, <1>6, Parameters DEF StepId, StepBase
  <2>2. BaseOf(0) = 0 /\ BaseOf(1) = IntPow2[MinStepLog2]
        /\ SplitOf(0) = IntPow2[MinStepLog2 - NumSplitsLog2]
    BY Parameters DEF BaseOf, SplitOf
  <2>3. SplitOf(0) \in Nat /\ BaseOf(0 + 1) = BaseOf(0) + NumSplits * SplitOf(0)
    BY StepFacts
  <2>4. IntPow2[MinStepLog2] = NumSplits * SplitOf(0)
    BY <2>2, <2>3, Parameters
  <2>5. size < IntPow2[MinStepLog2]
    <3>1. IntPow2[MinStepLog2] \in Nat \ {0}
      BY Parameters, PowerType
    <3>2. CASE size = 0
      BY <3>1, <3>2
    <3>3. CASE size # 0
      <4>1. low = IntLog2(size) /\ IntLog2(size) + 1 <= MinStepLog2
        BY <1>3, <1>6, Parameters
      <4>2. size < IntPow2[IntLog2(size) + 1]
        BY <3>3, Log2Facts
      <4>3. IntPow2[IntLog2(size) + 1] <= IntPow2[MinStepLog2]
        <5>1. 2 * IntPow2[IntLog2(size)] <= IntPow2[MinStepLog2]
          BY <1>1, <4>1, Parameters, PowerGrows
        <5> QED BY <1>1, <5>1, PowerStep
      <4>4. IntPow2[IntLog2(size) + 1] \in Nat
        BY <1>1, PowerType
      <4> QED BY <3>1, <4>2, <4>3, <4>4
    <3> QED BY <3>2, <3>3
  <2>6. SplitSize(size) = SplitOf(0)
    BY <2>1, <2>2 DEF SplitSize
  <2>7. 0 \in 0 .. NumSteps /\ NumSplits * SplitOf(0) \in Nat
    BY <2>3, Parameters
  <2>8. size < BaseOf(0) + NumSplits * SplitOf(0) /\ BaseOf(0) <= size
    BY <2>2, <2>4, <2>5, <2>7
  <2> QED BY <2>1, <2>2, <2>4, <2>6, <2>7, <2>8
<1>7. CASE MinStepLog2 <= low
  <2> DEFINE step == low - MinStepLog2 + 1
  <2>1. /\ StepId(size) = step /\ StepBase(size) = IntPow2[low] /\ StepLog2(size) = low
        /\ step \in 0 .. NumSteps /\ step # 0 /\ MinStepLog2 + step - 1 = low
    BY <1>3, <1>4, <1>5, <1>7, Parameters DEF StepId, StepBase, NumSteps
  <2>2. BaseOf(step) = IntPow2[low] /\ SplitOf(step) = IntPow2[low - NumSplitsLog2]
    <3> HIDE DEF step
    <3>1. step \in Nat /\ step # 0 /\ MinStepLog2 + step - 1 = low
      BY <2>1, Parameters
    <3>2. BaseOf(step) = IntPow2[MinStepLog2 + step - 1]
      BY <3>1 DEF BaseOf
    <3>3. SplitOf(step) = IntPow2[(MinStepLog2 + step - 1) - NumSplitsLog2]
      BY <3>1, Parameters DEF SplitOf
    <3> QED BY <3>1, <3>2, <3>3
  <2>3. BaseOf(step + 1) = IntPow2[low + 1]
    BY <2>1, Parameters DEF BaseOf
  <2>4. BaseOf(step + 1) = BaseOf(step) + NumSplits * SplitOf(step)
    BY <2>1, StepFacts
  <2>5. PICK p \in Nat \ {0} : p = IntPow2[low] /\ IntPow2[low + 1] = 2 * p
    BY PowerType, PowerStep
  <2>6. IntPow2[low] = NumSplits * SplitOf(step)
    <3>1. SplitOf(step) \in Nat /\ NumSplits \in Nat
      BY <2>1, StepFacts, Parameters
    <3>2. PICK t \in Nat : t = NumSplits * SplitOf(step)
      BY <3>1
    <3> QED BY <2>2, <2>3, <2>4, <2>5, <3>2
  <2>7. SplitSize(size) = SplitOf(step)
    BY <2>1, <2>2 DEF SplitSize
  <2>8. size # 0
    BY <1>3, <1>7, Parameters DEF IntLog2
  <2>9. IntPow2[IntLog2(size)] <= size /\ size < IntPow2[IntLog2(size) + 1]
    BY <2>8, Log2Facts
  <2>10. IntPow2[low] <= size
    <3>1. CASE low = IntLog2(size)
      BY <2>9, <3>1
    <3>2. CASE low < IntLog2(size)
      <4>1. 2 * IntPow2[low] <= IntPow2[IntLog2(size)]
        BY <1>1, <3>2, PowerGrows
      <4>2. IntPow2[IntLog2(size)] \in Nat
        BY <1>1, PowerType
      <4> QED BY <2>5, <2>9, <4>1, <4>2
    <3> QED BY <1>1, <1>3, <3>1, <3>2
  <2>11. size < IntPow2[low + 1] \/ step = NumSteps
    <3>1. CASE low = IntLog2(size)
      BY <2>9, <3>1
    <3>2. CASE low = MaxStepLog2
      BY <3>2, Parameters DEF NumSteps
    <3> QED BY <1>3, <3>1, <3>2
  <2> HIDE DEF step
  <2> QED BY <2>1, <2>2, <2>3, <2>4, <2>6, <2>7, <2>10, <2>11
<1> QED BY <1>6, <1>7, Parameters

\* The split of a step: the division by the length of the step, in splits, is one by
\* the length of a split.
LEMMA SplitOfSize ==
  ASSUME NEW size \in Nat, NEW offset \in Nat
  PROVE  LET split_id == (size + offset - BaseOf(StepId(size))) \div SplitOf(StepId(size))
         IN  /\ split_id \in Nat
             /\ StepSplitId(size, offset)
                  = StepId(size) * NumSplits + (IF split_id <= NumSplits THEN split_id ELSE NumSplits)
<1> DEFINE step == StepId(size)
           x == size + offset - BaseOf(step)
           Q == SplitOf(step)
           split_id == x \div Q
<1>1. step \in Nat /\ BaseOf(step) \in Nat /\ Q \in Nat \ {0} /\ x \in Nat
  BY StepOfSize, StepFacts, Parameters
<1>2. StepBase(size) = BaseOf(step) /\ IntPow2[StepLog2(size)] = NumSplits * Q
  BY StepOfSize
<1>3. ((size + offset - StepBase(size)) * NumSplits) \div IntPow2[StepLog2(size)]
        = (x * NumSplits) \div (NumSplits * Q)
  BY <1>2
<1> HIDE DEF x, Q, step
<1>4. (x * NumSplits) \div (NumSplits * Q) = split_id
  BY <1>1, Parameters, DivScaled
<1>5. split_id \in Nat
  BY <1>1, DivBounds
<1> HIDE DEF split_id
<1>6. Min({split_id, NumSplits}) = IF split_id <= NumSplits THEN split_id ELSE NumSplits
  BY <1>5, Parameters, MinMaxPair
<1>7. StepSplitId(size, offset) = StepId(size) * NumSplits + Min({split_id, NumSplits})
  BY <1>3, <1>4 DEF StepSplitId
<1> QED BY <1>5, <1>6, <1>7 DEF split_id, x, Q, step

\* The bin numbers of one step.
LEMMA BinOfStep ==
  ASSUME NEW step \in 0 .. NumSteps, NEW j \in 0 .. NumSplits
  PROVE  /\ step * NumSplits + j \in BinIds
         /\ step = NumSteps /\ j = NumSplits
              => \A b \in BinIds : b <= step * NumSplits + j
<1>1. NumSplits \in Nat /\ NumSteps \in Nat /\ step \in Nat /\ j \in Nat /\ step <= NumSteps
  BY Parameters
<1>2. step * NumSplits <= NumSteps * NumSplits /\ step * NumSplits \in Nat
  BY <1>1
<1>3. NumSplits * (NumSteps + 1) = NumSteps * NumSplits + NumSplits
  BY <1>1
<1>4. NumSteps * NumSplits \in Nat
  BY <1>1
<1> QED BY <1>1, <1>2, <1>3, <1>4 DEF BinIds

\* A request belongs to the first bin whose base reaches it.
LEMMA SizeBinFacts ==
  ASSUME NEW size \in 0 .. MaxAllocSize
  PROVE  /\ SizeBin(size) \in BinIds /\ SizeBin(size) \in Nat
         /\ BinBase(SizeBin(size)) >= size
         /\ \A b \in Nat : b < SizeBin(size) => BinBase(b) < size
<1> DEFINE step == StepId(size)
           B == BaseOf(step)
           Q == SplitOf(step)
           j == (size + (Q - 1) - B) \div Q
<1>0. MaxAllocSize \in Nat /\ size \in Nat
  BY Parameters, PowerType DEF MaxAllocSize
<1>1. /\ step \in 0 .. NumSteps /\ step \in Nat /\ B \in Nat /\ Q \in Nat \ {0} /\ B <= size
      /\ SplitSize(size) = Q
  BY <1>0, StepOfSize, StepFacts, Parameters
<1>2. size <= B + NumSplits * Q
  <2>1. CASE size < B + NumSplits * Q
    <3>1. NumSplits * Q \in Nat
      BY <1>1, Parameters
    <3> QED BY <1>0, <1>1, <2>1, <3>1
  <2>2. CASE step = NumSteps
    <3>1. BaseOf(step + 1) = B + NumSplits * Q
      BY <1>1, StepFacts
    <3>2. BaseOf(step + 1) = MaxAllocSize
      BY <2>2, Parameters DEF BaseOf, NumSteps, MaxAllocSize
    <3> QED BY <1>0, <3>1, <3>2
  <2> QED BY <1>0, <2>1, <2>2, StepOfSize
<1>3. SizeBin(size) = step * NumSplits + (IF j <= NumSplits THEN j ELSE NumSplits) /\ j \in Nat
  <2>1. Q - 1 \in Nat
    BY <1>1
  <2> QED BY <1>0, <1>1, <2>1, SplitOfSize DEF SizeBin
<1>4. /\ j * Q <= size + (Q - 1) - B
      /\ size + (Q - 1) - B < j * Q + Q
  <2>1. size + (Q - 1) - B \in Nat
    BY <1>0, <1>1
  <2> QED BY <1>1, <2>1, DivBounds
<1> HIDE DEF j, Q, B, step
<1>5. j <= NumSplits
  <2>1. SUFFICES ASSUME NumSplits + 1 <= j PROVE FALSE
    BY <1>3, Parameters
  <2>2. (NumSplits + 1) * Q <= j * Q
    BY <1>1, <1>3, <2>1, Parameters
  <2>3. (NumSplits + 1) * Q = NumSplits * Q + Q /\ NumSplits * Q \in Nat /\ j * Q \in Nat
    BY <1>1, <1>3, Parameters
  <2> QED BY <1>0, <1>1, <1>2, <1>4, <2>2, <2>3
<1>6. SizeBin(size) = step * NumSplits + j /\ j \in 0 .. NumSplits
  BY <1>3, <1>5, Parameters
<1>7. SizeBin(size) \in BinIds /\ SizeBin(size) \in Nat
  BY <1>1, <1>6, BinOfStep, Parameters DEF BinIds
<1>8. BinBase(SizeBin(size)) = B + j * Q
  BY <1>1, <1>6, BinBaseAt DEF B, Q
<1>9. B + j * Q >= size /\ j * Q \in Nat
  BY <1>0, <1>1, <1>3, <1>4
<1>10. ASSUME NEW b \in Nat, b < SizeBin(size) PROVE BinBase(b) < size
  <2>1. CASE j = 0
    <3>1. BinBase(b) < BinBase(SizeBin(size))
      BY <1>7, <1>10, BinBaseGrows
    <3>2. BinBase(SizeBin(size)) = B
      BY <1>1, <1>8, <2>1
    <3> QED BY <1>0, <1>1, <3>1, <3>2, BinBaseNext
  <2>2. CASE j # 0
    <3>1. j - 1 \in 0 .. NumSplits /\ step * NumSplits + (j - 1) = SizeBin(size) - 1
          /\ SizeBin(size) - 1 \in Nat
      BY <1>1, <1>6, <1>7, <1>10, <2>2, Parameters
    <3>2. BinBase(SizeBin(size) - 1) = B + (j - 1) * Q
      BY <1>1, <3>1, BinBaseAt DEF B, Q
    <3>3. (j - 1) * Q = j * Q - Q
      BY <1>1, <1>3
    <3>4. B + (j - 1) * Q < size
      BY <1>0, <1>1, <1>4, <1>9, <3>3
    <3>5. b <= SizeBin(size) - 1
      BY <1>7, <1>10
    <3>6. BinBase(b) <= BinBase(SizeBin(size) - 1)
      BY <3>1, <3>5, BinBaseKeepsOrder
    <3>7. BinBase(b) \in Nat /\ BinBase(SizeBin(size) - 1) \in Nat
      BY <3>1, BinBaseNext
    <3> QED BY <1>0, <3>2, <3>4, <3>6, <3>7
  <2> QED BY <2>1, <2>2
<1> QED BY <1>7, <1>8, <1>9, <1>10

\* An arena belongs to the last bin whose base its room reaches.
LEMMA ArenaBinFacts ==
  ASSUME NEW room \in Nat
  PROVE  /\ ArenaBin(room) \in BinIds /\ ArenaBin(room) \in Nat
         /\ BinBase(ArenaBin(room)) <= room
         /\ \A b \in BinIds : b > ArenaBin(room) => room < BinBase(b)
<1> DEFINE step == StepId(room)
           B == BaseOf(step)
           Q == SplitOf(step)
           d == (room - B) \div Q
           j == IF d <= NumSplits THEN d ELSE NumSplits
<1>1. /\ step \in 0 .. NumSteps /\ step \in Nat /\ B \in Nat /\ Q \in Nat \ {0} /\ B <= room
      /\ room < B + NumSplits * Q \/ step = NumSteps
  BY StepOfSize, StepFacts, Parameters
<1>2. ArenaBin(room) = step * NumSplits + j /\ d \in Nat
  <2>1. 0 \in Nat /\ room + 0 - B = room - B
    BY <1>1
  <2> QED BY <2>1, SplitOfSize DEF ArenaBin
<1>3. d * Q <= room - B /\ room - B < d * Q + Q
  BY <1>1, DivBounds
<1> HIDE DEF d, Q, B, step
<1>4. j \in 0 .. NumSplits /\ j <= d
  BY <1>2, Parameters
<1>5. ArenaBin(room) \in BinIds /\ ArenaBin(room) \in Nat
  BY <1>1, <1>2, <1>4, BinOfStep, Parameters DEF BinIds
<1>6. BinBase(ArenaBin(room)) = B + j * Q
  BY <1>1, <1>2, <1>4, BinBaseAt DEF B, Q
<1>7. B + j * Q <= room
  <2>1. j * Q <= d * Q /\ j * Q \in Nat /\ d * Q \in Nat
    BY <1>1, <1>2, <1>4, Parameters
  <2> QED BY <1>1, <1>3, <2>1
<1>8. ASSUME NEW b \in BinIds, b > ArenaBin(room) PROVE room < BinBase(b)
  <2>1. CASE d < NumSplits
    <3>1. j = d /\ j + 1 \in 0 .. NumSplits
      BY <1>2, <2>1, Parameters
    <3>2. BinBase(ArenaBin(room) + 1) = B + (j + 1) * Q
      <4>1. step * NumSplits + (j + 1) = ArenaBin(room) + 1
        BY <1>1, <1>2, <3>1, Parameters
      <4> QED BY <1>1, <3>1, <4>1, BinBaseAt DEF B, Q
    <3>3. room < B + (j + 1) * Q
      <4>1. (j + 1) * Q = d * Q + Q /\ d * Q \in Nat
        BY <1>1, <1>2, <3>1
      <4> QED BY <1>1, <1>3, <4>1
    <3>4. b \in Nat /\ ArenaBin(room) + 1 \in Nat /\ ArenaBin(room) + 1 <= b
      BY <1>5, <1>8, Parameters DEF BinIds
    <3>5. /\ BinBase(ArenaBin(room) + 1) <= BinBase(b)
          /\ BinBase(ArenaBin(room) + 1) \in Nat /\ BinBase(b) \in Nat
      BY <3>4, BinBaseKeepsOrder
    <3> QED BY <3>2, <3>3, <3>5
  <2>2. CASE d >= NumSplits
    <3>1. j = NumSplits
      BY <1>2, <2>2, Parameters
    <3>2. step = NumSteps
      <4>1. NumSplits * Q <= d * Q /\ NumSplits * Q \in Nat /\ d * Q \in Nat
        BY <1>1, <1>2, <2>2, Parameters
      <4> QED BY <1>1, <1>3, <4>1
    <3>3. b <= step * NumSplits + j
      BY <1>1, <1>4, <3>1, <3>2, BinOfStep
    <3> QED BY <1>2, <1>5, <1>8, <3>3, Parameters DEF BinIds
  <2> QED BY <1>2, <2>1, <2>2, Parameters
<1> HIDE DEF j
<1> QED BY <1>5, <1>6, <1>7, <1>8

-----------------------------------------------------------------------------
(* Clamped to the bins an alignment uses, requests and arenas still meet.  *)

\* The first bin of an alignment is a bin.
LEMMA MinBinFacts ==
  ASSUME NEW id \in AlignmentIds
  PROVE  MinBin(id) \in BinIds /\ MinBin(id) \in Nat /\ MinAllocOf(id) \in Nat
<1>1. MinAllocSize \in Nat /\ MaxAllocSize \in Nat
  BY Parameters, PowerType DEF MinAllocSize, MaxAllocSize
<1>2. MinAllocSize <= MaxAllocSize
  <2>1. 2 * IntPow2[MinStepLog2 - NumSplitsLog2] <= IntPow2[MaxStepLog2 + 1]
    BY Parameters, PowerGrows
  <2> QED BY <1>1, <2>1 DEF MinAllocSize, MaxAllocSize
<1>3. IsAligned(MaxAllocSize, AlignmentOf(id))
  BY Parameters, AlignmentAssumption, StepAssumption, PowerAligned DEF MaxAllocSize
<1>4. AlignmentOf(id) \in Nat \ {0}
  BY AlignmentType
<1>5. AlignUp(MinAllocSize, AlignmentOf(id)) \in 0 .. MaxAllocSize
  BY <1>1, <1>2, <1>3, <1>4, AlignFacts
<1> QED BY <1>5, SizeBinFacts, BinBaseNext DEF MinBin, MinAllocOf

\* A request is looked for from the first bin on whose base reaches it.
LEMMA RequestBin ==
  ASSUME NEW id \in AlignmentIds, NEW size \in 0 .. MaxAllocSize
  PROVE  /\ SizeBinClamped(id, size) \in BinIds /\ SizeBinClamped(id, size) \in Nat
         /\ SizeBinClamped(id, size) >= MinBin(id)
         /\ BinBase(SizeBinClamped(id, size)) >= size
         /\ BinBase(SizeBinClamped(id, size)) >= MinAllocOf(id)
         /\ \A b \in Nat : b < SizeBinClamped(id, size)
                             => BinBase(b) < size \/ BinBase(b) < MinAllocOf(id)
<1> DEFINE s == SizeBin(size)
           m == MinBin(id)
<1>1. /\ s \in BinIds /\ s \in Nat /\ BinBase(s) >= size /\ BinBase(s) \in Nat
      /\ \A b \in Nat : b < s => BinBase(b) < size
  BY SizeBinFacts, BinBaseNext
<1>2. m \in BinIds /\ m \in Nat /\ MinAllocOf(id) = BinBase(m) /\ BinBase(m) \in Nat
  BY MinBinFacts, BinBaseNext DEF MinAllocOf
<1>3. MaxAllocSize \in Nat
  BY Parameters, PowerType DEF MaxAllocSize
<1>4. SizeBinClamped(id, size) = IF s <= m THEN m ELSE s
  <2>1. SizeBinClamped(id, size) = Max({s, m})
    BY DEF SizeBinClamped
  <2>2. s \in Int /\ m \in Int
    BY <1>1, <1>2
  <2> HIDE DEF s, m
  <2> QED BY <2>1, <2>2, MinMaxPair
<1> HIDE DEF s, m
<1>5. CASE s <= m
  <2>1. BinBase(s) <= BinBase(m)
    BY <1>1, <1>2, <1>5, BinBaseKeepsOrder
  <2>2. \A b \in Nat : b < m => BinBase(b) < BinBase(m)
    BY <1>2, BinBaseGrows
  <2> QED BY <1>1, <1>2, <1>3, <1>4, <1>5, <2>1, <2>2 DEF m
<1>6. CASE m < s
  <2>1. BinBase(m) <= BinBase(s)
    BY <1>1, <1>2, <1>6, BinBaseKeepsOrder
  <2> QED BY <1>1, <1>2, <1>3, <1>4, <1>6, <2>1 DEF m
<1> QED BY <1>1, <1>2, <1>5, <1>6

\* An arena belongs to the last bin whose base its room reaches, to bin zero if it has
\* less than the alignment allows.
LEMMA RoomBin ==
  ASSUME NEW id \in AlignmentIds, NEW room \in Nat
  PROVE  /\ ArenaBinClamped(id, room) \in BinIds /\ ArenaBinClamped(id, room) \in Nat
         /\ room < MinAllocOf(id) => ArenaBinClamped(id, room) = 0
         /\ room >= MinAllocOf(id)
              => /\ BinBase(ArenaBinClamped(id, room)) <= room
                 /\ \A b \in BinIds : b > ArenaBinClamped(id, room) => room < BinBase(b)
<1> DEFINE a == ArenaBin(room)
           m == MinBin(id)
<1>1. /\ a \in BinIds /\ a \in Nat /\ BinBase(a) <= room /\ BinBase(a) \in Nat
      /\ \A b \in BinIds : b > a => room < BinBase(b)
  BY ArenaBinFacts, BinBaseNext
<1>2. m \in BinIds /\ m \in Nat /\ MinAllocOf(id) = BinBase(m) /\ BinBase(m) \in Nat
  BY MinBinFacts, BinBaseNext DEF MinAllocOf
<1>3. ArenaBinClamped(id, room) = IF a < m THEN 0 ELSE a
  BY DEF ArenaBinClamped
<1>4. 0 \in BinIds
  <2>1. NumSplits * (NumSteps + 1) \in Nat
    BY Parameters
  <2> QED BY <2>1 DEF BinIds
<1> HIDE DEF a, m
<1>5. CASE a < m
  BY <1>1, <1>2, <1>3, <1>4, <1>5
<1>6. CASE m <= a
  <2>1. BinBase(m) <= BinBase(a)
    BY <1>1, <1>2, <1>6, BinBaseKeepsOrder
  <2> QED BY <1>1, <1>2, <1>3, <1>6, <2>1
<1> QED BY <1>1, <1>2, <1>5, <1>6

\* An arena in the bin of a request or a later one has room for it.
LEMMA BinsServe ==
  ASSUME NEW id \in AlignmentIds, NEW size \in 1 .. MaxAllocSize, NEW room \in Nat,
         ArenaBinClamped(id, room) >= SizeBinClamped(id, size)
  PROVE  size <= room
<1> DEFINE a == ArenaBinClamped(id, room)
           s == SizeBinClamped(id, size)
<1>0. size \in 0 .. MaxAllocSize /\ size \in Nat
  BY Parameters, PowerType DEF MaxAllocSize
<1>1. /\ s \in Nat /\ BinBase(s) >= size /\ BinBase(s) \in Nat
      /\ BinBase(s) >= MinAllocOf(id)
  BY <1>0, RequestBin, BinBaseNext
<1>2. a \in Nat /\ BinBase(a) \in Nat /\ MinAllocOf(id) \in Nat
  BY RoomBin, BinBaseNext, MinBinFacts
<1>3. BinBase(s) <= BinBase(a)
  BY <1>1, <1>2, BinBaseKeepsOrder
<1>4. CASE room >= MinAllocOf(id)
  <2>1. BinBase(a) <= room
    BY <1>4, RoomBin
  <2> QED BY <1>0, <1>1, <1>2, <1>3, <2>1
<1>5. CASE room < MinAllocOf(id)
  <2>1. a = 0 /\ s = 0
    BY <1>1, <1>2, <1>5, RoomBin
  <2>2. BinBase(0) = 0
    <3>1. 0 \in Nat /\ 0 \in 0 .. NumSplits /\ 0 * NumSplits + 0 = 0
      BY Parameters
    <3>2. BinBase(0 * NumSplits + 0) = BaseOf(0) + 0 * SplitOf(0)
      BY <3>1, BinBaseAt
    <3>3. BaseOf(0) = 0 /\ SplitOf(0) \in Nat
      BY StepFacts DEF BaseOf
    <3> QED BY <3>1, <3>2, <3>3
  <2> QED BY <1>0, <1>1, <2>1, <2>2
<1> QED BY <1>2, <1>4, <1>5

\* No size and no room is classified wrongly.
LEMMA NoneIsWrong ==
  \A id \in AlignmentIds : WrongSizes[id] = {} /\ WrongRooms[id] = {}
<1> SUFFICES ASSUME NEW id \in AlignmentIds
             PROVE  WrongSizes[id] = {} /\ WrongRooms[id] = {}
  OBVIOUS
<1>0. MinAllocOf(id) \in Nat /\ MaxAllocSize \in Nat
  BY MinBinFacts, Parameters, PowerType DEF MaxAllocSize
<1>1. ASSUME NEW size \in 0 .. MaxAllocSize
      PROVE  LET bin == SizeBinClamped(id, size)
                 need == Max({size, MinAllocOf(id)})
             IN  /\ bin \in BinIds /\ BinBase(bin) >= need
                 /\ \A b \in BinIds : b < bin => BinBase(b) < need
  <2> DEFINE bin == SizeBinClamped(id, size)
  <2>1. /\ bin \in BinIds /\ bin \in Nat /\ BinBase(bin) >= size
        /\ BinBase(bin) >= MinAllocOf(id)
        /\ \A b \in Nat : b < bin => BinBase(b) < size \/ BinBase(b) < MinAllocOf(id)
    BY RequestBin
  <2>2. size \in Nat
    BY <1>0
  <2>0. PICK k \in Nat : k = MinAllocOf(id)
    BY <1>0
  <2>3. PICK need \in Nat : need = Max({size, k})
    <3>1. size \in Int /\ k \in Int
      BY <2>2
    <3>2. Max({size, k}) = IF size <= k THEN k ELSE size
      BY <3>1, MinMaxPair
    <3> QED BY <2>2, <3>2
  <2>4. size <= need /\ MinAllocOf(id) <= need /\ (need = size \/ need = MinAllocOf(id))
    <3>1. size \in Int /\ k \in Int
      BY <2>2
    <3>2. need = IF size <= k THEN k ELSE size
      BY <2>3, <3>1, MinMaxPair
    <3> QED BY <2>0, <2>2, <3>2
  <2>5. \A b \in BinIds : b \in Nat
    BY Parameters DEF BinIds
  <2> HIDE DEF bin
  <2>6. BinBase(bin) >= need
    BY <2>1, <2>4
  <2>7. ASSUME NEW b \in BinIds, b < bin PROVE BinBase(b) < need
    BY <1>0, <2>1, <2>2, <2>4, <2>5, <2>7, BinBaseNext
  <2>8. Max({size, MinAllocOf(id)}) = need
    BY <2>0, <2>3
  <2> QED BY <2>1, <2>6, <2>7, <2>8 DEF bin
<1>2. ASSUME NEW room \in 0 .. 2 * MaxAllocSize
      PROVE  LET bin == ArenaBinClamped(id, room)
             IN  IF room < MinAllocOf(id) THEN bin = 0
                 ELSE /\ bin \in BinIds /\ BinBase(bin) <= room
                      /\ \A b \in BinIds : b > bin => room < BinBase(b)
  <2>1. room \in Nat
    BY <1>0
  <2> QED BY <1>0, <2>1, RoomBin
<1>3. WrongSizes[id] = {}
  BY <1>1 DEF WrongSizes
<1>4. WrongRooms[id] = {}
  BY <1>2 DEF WrongRooms
<1> QED BY <1>3, <1>4
=============================================================================
