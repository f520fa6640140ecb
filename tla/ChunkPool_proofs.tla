--------------------------- MODULE ChunkPool_proofs ---------------------------
(***************************************************************************)
(* Proofs about ChunkPool, and about the threads of ChunkPoolRounds that    *)
(* nobody interferes with, for every number of handles, splits, threads,   *)
(* rounds, attempts and versions.  A step is first described by what it    *)
(* does to the shared words (Effect); the parts of the inductive invariant *)
(* are then preserved by every such effect.                                *)
(***************************************************************************)
EXTENDS ChunkPoolRounds, TLAPS, FiniteSetTheorems

-----------------------------------------------------------------------------
(* The shares of the splits.                                               *)

\* A product grows with its factor.
LEMMA ProductGrows ==
  ASSUME NEW q \in Nat, NEW i \in Nat, NEW j \in Nat, i <= j
  PROVE q * i <= q * j
<1>1. PICK d \in Nat : j = i + d
  <2>1. j - i \in Nat /\ j = i + (j - i)
    OBVIOUS
  <2> QED BY <2>1
<1>2. q * j = q * i + q * d /\ q * d >= 0
  BY <1>1
<1> QED BY <1>2

\* The shares are big enough for all handles.
LEMMA ShareFacts ==
  /\ HandlesPerSplit \in Nat
  /\ HandlesPerSplit * NumSplits >= NumHandles
<1> DEFINE a == NumHandles + NumSplits - 1
           q == a \div NumSplits
           r == a % NumSplits
<1>1. NumHandles \in Nat /\ NumSplits \in Nat /\ NumSplits > 0 /\ a \in Nat
  BY SizeAssumption
<1>2. q \in Nat /\ r \in 0 .. NumSplits - 1 /\ a = NumSplits * q + r
  BY <1>1, Z3
<1>3. NumSplits * q = q * NumSplits
  BY <1>1, <1>2
<1>4. q * NumSplits >= NumHandles
  <2> HIDE DEF q, r
  <2> QED BY <1>1, <1>2, <1>3
<1> QED BY <1>2, <1>4 DEF HandlesPerSplit

\* The bounds of a split.
LEMMA SplitFacts ==
  ASSUME NEW s \in Splits
  PROVE /\ s \in Nat
        /\ FirstHandle(s) \in Nat
        /\ LastHandle(s) \in Nat
        /\ FirstHandle(s) <= LastHandle(s)
        /\ LastHandle(s) <= NumHandles
<1> DEFINE q == HandlesPerSplit
<1>1. s \in Nat /\ s + 1 \in Nat /\ q \in Nat /\ NumHandles \in Nat
  BY SizeAssumption, ShareFacts DEF Splits
<1>2. q * s \in Nat /\ q * (s + 1) \in Nat /\ q * s <= q * (s + 1)
  <2> HIDE DEF q
  <2> QED BY <1>1, ProductGrows
<1> QED BY <1>1, <1>2 DEF FirstHandle, LastHandle, Smaller

\* A handle between the bounds of a split is in no split before it.
LEMMA SplitsApart ==
  ASSUME NEW s \in Splits, NEW r \in Splits, r < s
  PROVE LastHandle(r) <= FirstHandle(s)
<1> DEFINE q == HandlesPerSplit
<1>1. s \in Nat /\ r + 1 \in Nat /\ r + 1 <= s /\ q \in Nat /\ NumHandles \in Nat
  BY SizeAssumption, ShareFacts DEF Splits
<1>2. q * (r + 1) \in Nat /\ q * s \in Nat /\ q * (r + 1) <= q * s
  <2> HIDE DEF q
  <2> QED BY <1>1, ProductGrows
<1> QED BY <1>1, <1>2 DEF FirstHandle, LastHandle, Smaller

\* search_pool_split finds the split whose bounds a handle is between.
LEMMA SplitFound ==
  ASSUME NEW s \in Splits, NEW h \in Nat, FirstHandle(s) <= h, h < LastHandle(s)
  PROVE h \in Handles /\ SplitOf(h) = s
<1>1. /\ s \in Nat /\ LastHandle(s) \in Nat /\ LastHandle(s) <= NumHandles
      /\ FirstHandle(s) \in Nat /\ NumHandles \in Nat
  BY SplitFacts, SizeAssumption
<1>2. h \in Handles
  BY <1>1 DEF Handles
<1>3. ASSUME NEW r \in Splits, r < s PROVE h >= LastHandle(r)
  <2>1. LastHandle(r) <= FirstHandle(s) /\ LastHandle(r) \in Nat
    BY <1>3, SplitsApart, SplitFacts
  <2> QED BY <2>1, <1>1
<1>4. ASSUME NEW r \in Splits, h < LastHandle(r),
             \A z \in Splits : z < r => h >= LastHandle(z)
      PROVE r = s
  <2>1. r \in Nat /\ LastHandle(r) \in Nat
    BY SplitFacts
  <2>2. ~ r < s
    BY <1>3, <1>4, <2>1
  <2>3. ~ s < r
    BY <1>1, <1>4
  <2> QED BY <1>1, <2>1, <2>2, <2>3
<1> QED BY <1>2, <1>3, <1>4 DEF SplitOf

\* Every handle is in a split, the one search_pool_split finds.
LEMMA SplitOfFacts ==
  ASSUME NEW h \in Handles
  PROVE /\ SplitOf(h) \in Splits
        /\ h \in Nat
        /\ FirstHandle(SplitOf(h)) <= h
        /\ h < LastHandle(SplitOf(h))
<1> DEFINE q == HandlesPerSplit
           s == h \div q
<1>1. h \in Nat /\ h < NumHandles /\ q \in Nat /\ NumHandles \in Nat
      /\ NumSplits \in Nat /\ q * NumSplits >= NumHandles
  BY SizeAssumption, ShareFacts DEF Handles
<1>2. q > 0
  <2>1. q # 0
    <3> HIDE DEF q
    <3> QED BY <1>1
  <2> QED BY <1>1, <2>1
<1>3. s \in Nat /\ q * s <= h /\ h < q * (s + 1)
  <2> HIDE DEF q
  <2> DEFINE r == h % q
  <2>0. h \in Nat /\ q \in Nat /\ q > 0
    BY <1>1, <1>2
  <2>1. s \in Nat /\ r \in 0 .. q - 1 /\ h = q * s + r
    BY <2>0, Z3
  <2> HIDE DEF s, r
  <2>2. q * (s + 1) = q * s + q /\ q * s \in Nat
    BY <2>0, <2>1
  <2> QED BY <2>0, <2>1, <2>2
<1>4. s < NumSplits
  <2> HIDE DEF q, s
  <2> SUFFICES ASSUME NumSplits <= s PROVE FALSE
    BY <1>1, <1>3
  <2>1. q * NumSplits <= q * s
    BY <1>1, <1>3, ProductGrows
  <2>2. q * NumSplits \in Nat /\ q * s \in Nat
    BY <1>1, <1>3
  <2> QED BY <1>1, <1>3, <2>1, <2>2
<1>5. s \in Splits
  <2> HIDE DEF s
  <2> QED BY <1>1, <1>3, <1>4 DEF Splits
<1>6. FirstHandle(s) <= h /\ h < LastHandle(s)
  <2>1. q * s \in Nat /\ q * (s + 1) \in Nat
    <3> HIDE DEF q, s
    <3> QED BY <1>1, <1>3
  <2> HIDE DEF s
  <2> QED BY <1>1, <1>3, <2>1 DEF FirstHandle, LastHandle, Smaller
<1> HIDE DEF s
<1> QED BY <1>1, <1>5, <1>6, SplitFound

-----------------------------------------------------------------------------
(* Sequences of handles.                                                   *)

\* The empty list.
LEMMA EmptyFacts ==
  /\ Elems(<<>>) = {} /\ NoRepeat(<<>>)
  /\ <<>> \in Seq(Handles) /\ Len(<<>>) = 0
  /\ \A s \in Seq(Handles) : s = <<>> <=> Len(s) = 0
BY DEF Elems, NoRepeat

\* Pushing a handle.
LEMMA ConsFacts ==
  ASSUME NEW s \in Seq(Handles), NEW h \in Handles
  PROVE /\ <<h>> \o s \in Seq(Handles)
        /\ <<h>> \o s # <<>>
        /\ Len(<<h>> \o s) = Len(s) + 1
        /\ Len(s) \in Nat
        /\ (<<h>> \o s)[1] = h
        /\ \A i \in 1 .. Len(s) : (<<h>> \o s)[i + 1] = s[i]
        /\ Elems(<<h>> \o s) = Elems(s) \cup {h}
<1> DEFINE z == <<h>> \o s
<1>1. /\ z \in Seq(Handles) /\ Len(z) = Len(s) + 1 /\ Len(s) \in Nat
      /\ z[1] = h
      /\ \A i \in 1 .. Len(s) : z[i + 1] = s[i]
  OBVIOUS
<1>2. z # <<>>
  BY <1>1
<1>3. \A i \in 1 .. Len(z) : i = 1 \/ (i - 1 \in 1 .. Len(s) /\ z[i] = s[i - 1])
  <2> SUFFICES ASSUME NEW i \in 1 .. Len(z), i # 1
               PROVE i - 1 \in 1 .. Len(s) /\ z[i] = s[i - 1]
    OBVIOUS
  <2>1. i - 1 \in 1 .. Len(s) /\ (i - 1) + 1 = i
    BY <1>1
  <2> QED BY <1>1, <2>1
<1>4. Elems(z) \subseteq Elems(s) \cup {h}
  BY <1>1, <1>3 DEF Elems
<1>5. Elems(s) \cup {h} \subseteq Elems(z)
  <2>1. ASSUME NEW i \in 1 .. Len(s) PROVE s[i] \in Elems(z)
    <3>1. i + 1 \in 1 .. Len(z) /\ z[i + 1] = s[i]
      BY <1>1
    <3> QED BY <3>1 DEF Elems
  <2>2. h \in Elems(z)
    <3>1. 1 \in 1 .. Len(z)
      BY <1>1
    <3> QED BY <3>1, <1>1 DEF Elems
  <2> QED BY <2>1, <2>2 DEF Elems
<1> HIDE DEF z
<1>6. Elems(z) = Elems(s) \cup {h}
  BY <1>4, <1>5
<1> QED BY <1>1, <1>2, <1>6 DEF z

\* A handle that is not on a list can be pushed without a repetition.
LEMMA ConsNoRepeat ==
  ASSUME NEW s \in Seq(Handles), NEW h \in Handles, NoRepeat(s), h \notin Elems(s)
  PROVE NoRepeat(<<h>> \o s)
<1> DEFINE z == <<h>> \o s
<1>1. /\ Len(z) = Len(s) + 1 /\ Len(s) \in Nat
      /\ z[1] = h
      /\ \A i \in 1 .. Len(s) : z[i + 1] = s[i]
  BY ConsFacts
<1> HIDE DEF z
<1>2. \A i \in 1 .. Len(z) : i = 1 \/ (i - 1 \in 1 .. Len(s) /\ z[i] = s[i - 1])
  <2> SUFFICES ASSUME NEW i \in 1 .. Len(z), i # 1
               PROVE i - 1 \in 1 .. Len(s) /\ z[i] = s[i - 1]
    OBVIOUS
  <2>1. i - 1 \in 1 .. Len(s) /\ (i - 1) + 1 = i
    BY <1>1
  <2> QED BY <1>1, <2>1
<1>3. \A i \in 1 .. Len(s) : s[i] # h
  BY DEF Elems
<1>4. ASSUME NEW i \in 1 .. Len(z), NEW j \in 1 .. Len(z), z[i] = z[j] PROVE i = j
  <2>1. CASE i = 1 /\ j = 1
    BY <2>1
  <2>2. CASE i = 1 /\ j # 1
    BY <1>1, <1>2, <1>3, <1>4, <2>2
  <2>3. CASE i # 1 /\ j = 1
    BY <1>1, <1>2, <1>3, <1>4, <2>3
  <2>4. CASE i # 1 /\ j # 1
    <3>1. i - 1 \in 1 .. Len(s) /\ j - 1 \in 1 .. Len(s) /\ s[i - 1] = s[j - 1]
      BY <1>2, <1>4, <2>4
    <3>2. i - 1 = j - 1
      BY <3>1 DEF NoRepeat
    <3> QED BY <3>2, <1>1
  <2> QED BY <2>1, <2>2, <2>3, <2>4
<1> QED BY <1>4 DEF NoRepeat, z

\* Popping the first handle.
LEMMA TailFacts ==
  ASSUME NEW s \in Seq(Handles), s # <<>>
  PROVE /\ Tail(s) \in Seq(Handles)
        /\ Len(Tail(s)) = Len(s) - 1
        /\ Len(s) \in Nat /\ Len(s) >= 1
        /\ \A i \in 1 .. Len(s) - 1 : Tail(s)[i] = s[i + 1]
        /\ s[1] \in Handles
        /\ Elems(s) = Elems(Tail(s)) \cup {s[1]}
        /\ NoRepeat(s) => NoRepeat(Tail(s)) /\ s[1] \notin Elems(Tail(s))
        /\ Tail(s) = <<>> <=> Len(s) = 1
<1>1. /\ Tail(s) \in Seq(Handles)
      /\ Len(Tail(s)) = Len(s) - 1
      /\ Len(s) \in Nat /\ Len(s) >= 1
      /\ \A i \in 1 .. Len(s) - 1 : Tail(s)[i] = s[i + 1]
      /\ s[1] \in Handles
  OBVIOUS
<1>2. Elems(s) \subseteq Elems(Tail(s)) \cup {s[1]}
  <2> SUFFICES ASSUME NEW i \in 1 .. Len(s), i # 1 PROVE s[i] \in Elems(Tail(s))
    BY DEF Elems
  <2>1. i - 1 \in 1 .. Len(s) - 1 /\ Tail(s)[i - 1] = s[i]
    BY <1>1
  <2> QED BY <1>1, <2>1 DEF Elems
<1>3. Elems(Tail(s)) \cup {s[1]} \subseteq Elems(s)
  BY <1>1 DEF Elems
<1>4. ASSUME NoRepeat(s) PROVE NoRepeat(Tail(s)) /\ s[1] \notin Elems(Tail(s))
  <2>1. \A i \in 1 .. Len(Tail(s)) : i + 1 \in 1 .. Len(s) /\ Tail(s)[i] = s[i + 1]
    BY <1>1
  <2>2. ASSUME NEW i \in 1 .. Len(Tail(s)), NEW j \in 1 .. Len(Tail(s)),
               Tail(s)[i] = Tail(s)[j]
        PROVE i = j
    <3>1. i + 1 = j + 1
      BY <1>4, <2>1, <2>2 DEF NoRepeat
    <3> QED BY <3>1, <1>1
  <2>3. ASSUME NEW i \in 1 .. Len(Tail(s)), Tail(s)[i] = s[1] PROVE FALSE
    <3>1. i + 1 = 1
      BY <1>1, <1>4, <2>1, <2>3 DEF NoRepeat
    <3> QED BY <3>1, <1>1
  <2> QED BY <2>2, <2>3 DEF NoRepeat, Elems
<1>5. Tail(s) = <<>> <=> Len(s) = 1
  <2>1. Tail(s) = <<>> <=> Len(Tail(s)) = 0
    BY <1>1, EmptyFacts
  <2> QED BY <1>1, <2>1
<1> QED BY <1>1, <1>2, <1>3, <1>4, <1>5

-----------------------------------------------------------------------------
(* Types, and what a step leaves alone.                                    *)

USE DEF vars, sharedVars, scanVars, casVars

\* What the other threads hold stays as it is.
Others(t) ==
  \A u \in Threads \ {t} :
    /\ pc'[u] = pc[u] /\ split'[u] = split[u] /\ mine'[u] = mine[u]
    /\ old'[u] = old[u] /\ link'[u] = link[u]

\* The locals of the threads.
LocalTypeOK ==
  /\ pc \in [Threads -> Pcs]
  /\ rounds \in [Threads -> Int]
  /\ start \in [Threads -> Splits]
  /\ k \in [Threads -> Splits]
  /\ split \in [Threads -> Splits]
  /\ failed \in [Threads -> BOOLEAN]
  /\ old \in [Threads -> HeadType]
  /\ link \in [Threads -> Links]
  /\ attempts \in [Threads -> Int]
  /\ mine \in [Threads -> Links]

\* A split's number stays in range.
LEMMA NextSplitType ==
  ASSUME NEW s \in Splits
  PROVE /\ NextSplit(s, 0) \in Splits
        /\ NextSplit(s, 1) \in Splits
        /\ 0 \in Splits
<1>1. /\ s \in Nat /\ s + 0 \in Nat /\ s + 1 \in Nat
      /\ NumSplits \in Nat /\ NumSplits > 0
  BY SizeAssumption DEF Splits
<1>2. /\ (s + 0) % NumSplits \in 0 .. NumSplits - 1
      /\ (s + 1) % NumSplits \in 0 .. NumSplits - 1
  BY <1>1, Z3
<1> QED BY <1>1, <1>2 DEF NextSplit, Splits

\* The head of an empty list.
LEMMA NoHeadType == NoHead \in HeadType /\ NullLink \in Links
BY ParamAssumption DEF NoHead, HeadType, Versions, Links

\* A call that returns.
LEMMA ForgetFacts ==
  ASSUME LocalTypeOK, NEW t \in Threads, Forget(t)
  PROVE LocalTypeOK' /\ Others(t) /\ pc'[t] = "idle"
<1>1. \A s \in Splits : 0 \in Splits
  BY NextSplitType
<1>2. "idle" \in Pcs
  BY DEF Pcs
<1> QED BY <1>1, <1>2, NoHeadType DEF LocalTypeOK, Forget, ForgetList, Others

\* A split that is left behind.
LEMMA LeaveFacts ==
  ASSUME LocalTypeOK, NEW t \in Threads, NEW f \in BOOLEAN, LeaveSplit(t, f)
  PROVE LocalTypeOK' /\ Others(t) /\ pc'[t] \in {"idle", "pop_load"}
<1> DEFINE givenUp == failed[t] \/ f
           left == RoundsLeft(rounds[t], givenUp)
<1>1. left \in Int /\ givenUp \in BOOLEAN
  BY DEF LocalTypeOK, RoundsLeft
<1>2. /\ NextSplit(split[t], 1) \in Splits /\ NextSplit(start[t], 0) \in Splits
      /\ 0 \in Splits
  BY NextSplitType DEF LocalTypeOK
<1>3. "pop_load" \in Pcs
  BY DEF Pcs, PopPcs
<1> HIDE DEF left, givenUp
<1>4. CASE k[t] + 1 < NumSplits
  <2>1. k[t] + 1 \in Splits
    BY <1>4, SizeAssumption DEF LocalTypeOK, Splits
  <2>2. /\ k' = [k EXCEPT ![t] = @ + 1]
        /\ split' = [split EXCEPT ![t] = NextSplit(@, 1)]
        /\ failed' = [failed EXCEPT ![t] = givenUp]
        /\ pc' = [pc EXCEPT ![t] = "pop_load"]
        /\ ForgetList(t)
        /\ UNCHANGED <<rounds, start, mine>>
    BY <1>4 DEF LeaveSplit, givenUp
  <2> QED BY <1>1, <1>2, <1>3, <2>1, <2>2, NoHeadType
          DEF LocalTypeOK, ForgetList, Others
<1>5. CASE ~ k[t] + 1 < NumSplits /\ left = 0
  BY <1>5, ForgetFacts DEF LeaveSplit, left, givenUp
<1>6. CASE ~ k[t] + 1 < NumSplits /\ left # 0
  <2>1. /\ rounds' = [rounds EXCEPT ![t] = left]
        /\ k' = [k EXCEPT ![t] = 0]
        /\ split' = [split EXCEPT ![t] = NextSplit(start[t], 0)]
        /\ failed' = [failed EXCEPT ![t] = FALSE]
        /\ pc' = [pc EXCEPT ![t] = "pop_load"]
        /\ ForgetList(t)
        /\ UNCHANGED <<start, mine>>
    BY <1>6 DEF LeaveSplit, left, givenUp
  <2> QED BY <1>1, <1>2, <1>3, <2>1, NoHeadType DEF LocalTypeOK, ForgetList, Others
<1> QED BY <1>4, <1>5, <1>6

\* A list whose head is looked at.
LEMMA LookAtFacts ==
  ASSUME LocalTypeOK, NEW t \in Threads, NEW hd \in HeadType, NEW left \in Int,
         LookAt(t, hd, left)
  PROVE /\ LocalTypeOK'
        /\ Others(t)
        /\ \/ pc'[t] \in {"idle", "pop_load", "bump_load"}
           \/ /\ pc'[t] = "pop_next" /\ split'[t] = split[t]
              /\ old'[t] = hd /\ hd.next # NullLink
<1>1. CASE left = 0
  BY <1>1, LeaveFacts DEF LookAt
<1>2. CASE left # 0 /\ hd.next = NullLink
  BY <1>2, NoHeadType DEF LookAt, LocalTypeOK, ForgetList, Others, Pcs, BumpPcs
<1>3. CASE left # 0 /\ hd.next # NullLink
  BY <1>3 DEF LookAt, LocalTypeOK, Others, Pcs, PopPcs
<1> QED BY <1>1, <1>2, <1>3

-----------------------------------------------------------------------------
(* The inductive invariant.                                                *)

Reading == {"pop_next", "pop_cas"}
Holding == Reading \cup {"push_link", "push_cas"}

\* A handle that was handed out at least once.
Used(h) == h < top[SplitOf(h)]

\* A handle on the list of its split.
Listed(h) == h \in Elems(list[SplitOf(h)])

\* A handle some thread is giving back.
Pushed(h) == \E t \in Threads : pc[t] \in PushPcs /\ mine[t] = h

\* Each handle is in one place.
Places ==
  /\ \A s \in Splits :
       /\ NoRepeat(list[s])
       /\ \A h \in Elems(list[s]) : SplitOf(h) = s
  /\ \A h \in Handles :
       /\ ~ Used(h) \/ Listed(h) \/ h \in given \/ Pushed(h)
       /\ Listed(h) => Used(h) /\ h \notin given /\ ~ Pushed(h)
       /\ h \in given => Used(h) /\ ~ Pushed(h)
       /\ Pushed(h) => Used(h)
  /\ \A t \in Threads : pc[t] \in PushPcs =>
       /\ mine[t] \in Handles /\ SplitOf(mine[t]) = split[t]
       /\ \A u \in Threads : pc[u] \in PushPcs /\ mine[u] = mine[t] => u = t

\* A version stands for one state of a list: a thread that has seen the version
\* the head still has, has seen the head; its link is the one to install.
SeenHead(t) ==
  /\ pc[t] \in Holding =>
       /\ old[t].version <= head[split[t]].version
       /\ old[t].version = head[split[t]].version => old[t] = head[split[t]]
  /\ pc[t] \in Reading => old[t].next # NullLink
  /\ pc[t] = "pop_cas" /\ old[t] = head[split[t]] => link[t] = next[old[t].next]
  /\ pc[t] = "push_cas" => next[mine[t]] = old[t].next

\* No version comes round again.
Budget(s) == head[s].version + VersionsDue(s) < VersionLimit

IInv == /\ TypeOK
        /\ Places
        /\ FreeListIntact
        /\ \A t \in Threads : SeenHead(t)
        /\ StackSettles
        /\ \A s \in Splits : Budget(s)

\* The types of the shared words.
SharedTypeOK ==
  /\ head \in [Splits -> HeadType]
  /\ top \in [Splits -> Nat]
  /\ next \in [Handles -> Links]
  /\ given \subseteq Handles
  /\ list \in [Splits -> Seq(Handles)]

\* What TypeOK says, before and after a step.
LEMMA Types ==
  /\ TypeOK <=> LocalTypeOK /\ SharedTypeOK
  /\ TypeOK' <=> LocalTypeOK' /\ SharedTypeOK'
BY DEF TypeOK, LocalTypeOK, SharedTypeOK

\* The parts of a head.
LEMMA HeadFacts ==
  ASSUME NEW hd \in HeadType
  PROVE /\ hd.version \in Nat /\ hd.version < VersionLimit
        /\ hd.next \in Links /\ (hd.next # NullLink => hd.next \in Handles)
        /\ \A p \in Links : hd.version + 1 < VersionLimit =>
             /\ Bumped(hd, p) = [version |-> hd.version + 1, next |-> p]
             /\ Bumped(hd, p) \in HeadType
<1>1. /\ hd.version \in Nat /\ hd.version < VersionLimit
      /\ hd.next \in Links /\ (hd.next # NullLink => hd.next \in Handles)
  BY ParamAssumption DEF HeadType, Versions, Links
<1>2. ASSUME NEW p \in Links, hd.version + 1 < VersionLimit
      PROVE /\ Bumped(hd, p) = [version |-> hd.version + 1, next |-> p]
            /\ Bumped(hd, p) \in HeadType
  <2>1. hd.version + 1 \in Versions /\ VersionLimit \in Nat \ {0}
    BY <1>1, <1>2, ParamAssumption DEF Versions
  <2>2. (hd.version + 1) % VersionLimit = hd.version + 1
    <3> DEFINE v == hd.version + 1
    <3>1. v \in Nat /\ v < VersionLimit /\ VersionLimit \in Nat /\ VersionLimit > 0
      BY <1>1, <1>2, <2>1
    <3> HIDE DEF v
    <3>2. v % VersionLimit = v
      BY <3>1, Z3
    <3> QED BY <3>2 DEF v
  <2> QED BY <2>1, <2>2 DEF Bumped, HeadType
<1> QED BY <1>1, <1>2

-----------------------------------------------------------------------------
(* The effects of the steps.                                               *)

\* Nothing shared changes, and t is not in the middle of a push or an overshoot;
\* if it looks into a list now, it has just read the head.
Looks(t) ==
  /\ UNCHANGED <<sharedVars, given>>
  /\ Others(t)
  /\ pc[t] \notin PushPcs \cup {"bump_sub"}
  /\ \/ pc'[t] \in {"idle", "pop_load", "bump_load", "bump_add"}
     \/ /\ pc'[t] = "pop_next" /\ split'[t] = split[t]
        /\ old'[t] = head[split[t]] /\ old'[t].next # NullLink

\* t reads the head to push its handle.
LooksToPush(t) ==
  /\ UNCHANGED <<sharedVars, given>>
  /\ Others(t)
  /\ pc[t] \in {"push_load", "push_cas"}
  /\ pc'[t] = "push_link" /\ split'[t] = split[t] /\ mine'[t] = mine[t]
  /\ old'[t] = head[split[t]]

\* The steps that only look.
LookStep(t) == \/ \E s \in Splits : StartAllocate(t, s)
               \/ PopLoad(t) \/ PopRetry(t) \/ BumpLoad(t)

\* The steps that start a push or a new attempt at one.
PushLookStep(t) == PushLoad(t) \/ PushRetry(t)

\* They only look.
LEMMA LookFacts ==
  ASSUME TypeOK, NEW t \in Threads, LookStep(t)
  PROVE TypeOK' /\ Looks(t)
<1> USE Types DEF SharedTypeOK
<1>0. /\ split[t] \in Splits /\ head[split[t]] \in HeadType
      /\ attempts[t] \in Int /\ (IF attempts[t] > 0 THEN attempts[t] - 1 ELSE attempts[t]) \in Int
      /\ Attempts \in Int /\ Rounds \in Int
  BY ParamAssumption DEF LocalTypeOK
<1>1. ASSUME NEW s \in Splits, StartAllocate(t, s) PROVE TypeOK' /\ Looks(t)
  <2>1. NextSplit(s, 0) \in Splits /\ 0 \in Splits /\ "pop_load" \in Pcs
    BY NextSplitType DEF Pcs, PopPcs
  <2>2. LocalTypeOK' /\ Others(t) /\ pc'[t] = "pop_load" /\ pc[t] = "idle"
    BY <1>0, <1>1, <2>1, SMTT(20) DEF StartAllocate, LocalTypeOK, Others
  <2> QED BY <1>1, <2>2 DEF StartAllocate, Looks, PushPcs
<1>2. ASSUME PopLoad(t) PROVE TypeOK' /\ Looks(t)
  <2>1. LookAt(t, head[split[t]], Attempts)
    BY <1>2 DEF PopLoad
  <2>2. /\ LocalTypeOK' /\ Others(t)
        /\ \/ pc'[t] \in {"idle", "pop_load", "bump_load"}
           \/ /\ pc'[t] = "pop_next" /\ split'[t] = split[t]
              /\ old'[t] = head[split[t]] /\ head[split[t]].next # NullLink
    BY <1>0, <2>1, LookAtFacts
  <2> QED BY <1>2, <2>2 DEF PopLoad, Looks, PushPcs
<1>3. ASSUME PopRetry(t) PROVE TypeOK' /\ Looks(t)
  <2>1. LookAt(t, head[split[t]], IF attempts[t] > 0 THEN attempts[t] - 1 ELSE attempts[t])
    BY <1>3 DEF PopRetry
  <2>2. /\ LocalTypeOK' /\ Others(t)
        /\ \/ pc'[t] \in {"idle", "pop_load", "bump_load"}
           \/ /\ pc'[t] = "pop_next" /\ split'[t] = split[t]
              /\ old'[t] = head[split[t]] /\ head[split[t]].next # NullLink
    BY <1>0, <2>1, LookAtFacts
  <2> QED BY <1>3, <2>2 DEF PopRetry, Looks, PushPcs
<1>4. ASSUME BumpLoad(t) PROVE TypeOK' /\ Looks(t)
  <2>1. LocalTypeOK' /\ Others(t) /\ pc'[t] \in {"idle", "pop_load", "bump_add"}
    <3>1. CASE top[split[t]] >= LastHandle(split[t])
      BY <1>4, <3>1, LeaveFacts DEF BumpLoad
    <3>2. CASE ~ top[split[t]] >= LastHandle(split[t])
      BY <1>4, <3>2 DEF BumpLoad, LocalTypeOK, Others, Pcs, BumpPcs
    <3> QED BY <3>1, <3>2
  <2> QED BY <1>4, <2>1 DEF BumpLoad, Looks, PushPcs
<1> QED BY <1>1, <1>2, <1>3, <1>4 DEF LookStep

\* They read the head and change nothing else.
LEMMA PushLookFacts ==
  ASSUME TypeOK, NEW t \in Threads, PushLookStep(t)
  PROVE TypeOK' /\ LooksToPush(t)
<1> USE Types DEF SharedTypeOK
<1>0. /\ split[t] \in Splits /\ head[split[t]] \in HeadType
  BY DEF LocalTypeOK
<1>1. LocalTypeOK' /\ Others(t)
  BY <1>0 DEF PushLookStep, PushLoad, PushRetry, LocalTypeOK, Others, Pcs, PushPcs
<1> QED BY <1>1 DEF PushLookStep, PushLoad, PushRetry, LooksToPush, LocalTypeOK

-----------------------------------------------------------------------------
(* What keeps the parts of the invariant.                                  *)

\* t pushes the same handle as before, or none.
SameRole(t) ==
  /\ Others(t)
  /\ pc'[t] \in PushPcs <=> pc[t] \in PushPcs
  /\ pc[t] \in PushPcs => mine'[t] = mine[t] /\ split'[t] = split[t]

\* Then the same handles are on their way back.
LEMMA RoleKept ==
  ASSUME NEW t \in Threads, SameRole(t)
  PROVE /\ \A h \in Handles : Pushed(h)' <=> Pushed(h)
        /\ \A s \in Splits : Pushers(s)' = Pushers(s)
        /\ \A u \in Threads : /\ pc'[u] \in PushPcs <=> pc[u] \in PushPcs
                              /\ pc[u] \in PushPcs => mine'[u] = mine[u] /\ split'[u] = split[u]
<1>1. \A u \in Threads : /\ pc'[u] \in PushPcs <=> pc[u] \in PushPcs
                         /\ pc[u] \in PushPcs => mine'[u] = mine[u] /\ split'[u] = split[u]
  BY DEF SameRole, Others
<1>2. \A h \in Handles : Pushed(h)' <=> Pushed(h)
  BY <1>1 DEF Pushed
<1>3. \A s \in Splits : Pushers(s)' = Pushers(s)
  BY <1>1 DEF Pushers
<1> QED BY <1>1, <1>2, <1>3

\* A step that moves no handle.
LEMMA PlacesKept ==
  ASSUME Places, NEW t \in Threads, SameRole(t), UNCHANGED <<list, given>>,
         \A h \in Handles : Used(h)' <=> Used(h)
  PROVE Places'
<1>1. \A h \in Handles : (Listed(h)' <=> Listed(h)) /\ (Pushed(h)' <=> Pushed(h))
  BY RoleKept DEF Listed
<1>2. \A h \in Handles :
       /\ ~ Used(h)' \/ Listed(h)' \/ h \in given' \/ Pushed(h)'
       /\ Listed(h)' => Used(h)' /\ h \notin given' /\ ~ Pushed(h)'
       /\ h \in given' => Used(h)' /\ ~ Pushed(h)'
       /\ Pushed(h)' => Used(h)'
  BY <1>1 DEF Places
<1>3. \A u \in Threads : pc'[u] \in PushPcs =>
       /\ mine'[u] \in Handles /\ SplitOf(mine'[u]) = split'[u]
       /\ \A v \in Threads : pc'[v] \in PushPcs /\ mine'[v] = mine'[u] => v = u
  BY RoleKept DEF Places
<1> QED BY <1>2, <1>3 DEF Places

\* A step that hands out one handle.
LEMMA PlacesTaken ==
  ASSUME Places, NEW t \in Threads, SameRole(t), NEW h \in Handles,
         given' = given \cup {h}, ~ Pushed(h), ~ Listed(h)', Used(h)',
         \A s \in Splits : NoRepeat(list'[s]) /\ Elems(list'[s]) \subseteq Elems(list[s]),
         \A g \in Handles \ {h} : (Used(g)' <=> Used(g)) /\ (Listed(g)' <=> Listed(g))
  PROVE Places'
<1>1. \A g \in Handles : Pushed(g)' <=> Pushed(g)
  BY RoleKept
<1>2. \A g \in Handles :
       /\ ~ Used(g)' \/ Listed(g)' \/ g \in given' \/ Pushed(g)'
       /\ Listed(g)' => Used(g)' /\ g \notin given' /\ ~ Pushed(g)'
       /\ g \in given' => Used(g)' /\ ~ Pushed(g)'
       /\ Pushed(g)' => Used(g)'
  <2> SUFFICES ASSUME NEW g \in Handles
      PROVE /\ ~ Used(g)' \/ Listed(g)' \/ g \in given' \/ Pushed(g)'
            /\ Listed(g)' => Used(g)' /\ g \notin given' /\ ~ Pushed(g)'
            /\ g \in given' => Used(g)' /\ ~ Pushed(g)'
            /\ Pushed(g)' => Used(g)'
    OBVIOUS
  <2>1. CASE g = h
    BY <1>1, <2>1
  <2>2. CASE g # h
    BY <1>1, <2>2 DEF Places
  <2> QED BY <2>1, <2>2
<1>3. \A u \in Threads : pc'[u] \in PushPcs =>
       /\ mine'[u] \in Handles /\ SplitOf(mine'[u]) = split'[u]
       /\ \A v \in Threads : pc'[v] \in PushPcs /\ mine'[v] = mine'[u] => v = u
  BY RoleKept DEF Places
<1>4. \A s \in Splits : NoRepeat(list'[s]) /\ \A g \in Elems(list'[s]) : SplitOf(g) = s
  BY DEF Places
<1> QED BY <1>2, <1>3, <1>4 DEF Places

\* A step that writes to no handle on a list.
LEMMA FreeListKept ==
  ASSUME TypeOK, Places, FreeListIntact, UNCHANGED <<head, list>>,
         \A h \in Handles : Listed(h) => next'[h] = next[h]
  PROVE FreeListIntact'
<1>1. ASSUME NEW s \in Splits, NEW i \in 1 .. Len(list[s])
      PROVE next'[list[s][i]] = next[list[s][i]]
  <2>1. list[s][i] \in Elems(list[s]) /\ list[s][i] \in Handles
    BY Types DEF SharedTypeOK, Elems
  <2>2. Listed(list[s][i])
    BY <2>1 DEF Places, Listed
  <2> QED BY <2>1, <2>2
<1> QED BY <1>1 DEF FreeListIntact

\* The head of a list that is not empty is the first handle on it.
LEMMA HeadIsFirst ==
  ASSUME TypeOK, Places, FreeListIntact, NEW s \in Splits, head[s].next # NullLink
  PROVE /\ list[s] # <<>> /\ list[s] \in Seq(Handles)
        /\ head[s].next = list[s][1]
        /\ head[s].next \in Handles
        /\ Listed(head[s].next) /\ SplitOf(head[s].next) = s
        /\ next[head[s].next] = IF 1 < Len(list[s]) THEN list[s][2] ELSE NullLink
<1>1. list[s] # <<>> /\ list[s] \in Seq(Handles) /\ head[s].next = list[s][1]
  BY Types DEF FreeListIntact, SharedTypeOK
<1>2. Len(list[s]) \in Nat /\ Len(list[s]) >= 1 /\ list[s][1] \in Handles
      /\ list[s][1] \in Elems(list[s])
  <2>1. Len(list[s]) \in Nat /\ Len(list[s]) >= 1 /\ list[s][1] \in Handles
    BY <1>1, TailFacts
  <2>2. 1 \in 1 .. Len(list[s])
    BY <2>1
  <2> QED BY <2>1, <2>2 DEF Elems
<1>3. SplitOf(list[s][1]) = s
  BY <1>2 DEF Places
<1>4. next[list[s][1]] = IF 1 < Len(list[s]) THEN list[s][2] ELSE NullLink
  <2>1. 1 \in 1 .. Len(list[s]) /\ 1 + 1 = 2
    BY <1>2
  <2> QED BY <2>1 DEF FreeListIntact
<1> QED BY <1>1, <1>2, <1>3, <1>4 DEF Listed

\* A thread that takes no step keeps what it knows, unless the head moves on.
LEMMA SeenKept ==
  ASSUME TypeOK, Places, FreeListIntact, NEW u \in Threads, SeenHead(u),
         pc'[u] = pc[u], split'[u] = split[u], mine'[u] = mine[u],
         old'[u] = old[u], link'[u] = link[u],
         head'[split[u]] \in HeadType,
         head'[split[u]] # head[split[u]] =>
           head'[split[u]].version > head[split[u]].version,
         head'[split[u]] = head[split[u]] =>
           \A h \in Handles : Listed(h) /\ SplitOf(h) = split[u] => next'[h] = next[h],
         pc[u] \in PushPcs => next'[mine[u]] = next[mine[u]]
  PROVE SeenHead(u)'
<1> DEFINE s == split[u]
<1>1. s \in Splits /\ head[s] \in HeadType /\ old[u] \in HeadType
  BY Types DEF LocalTypeOK, SharedTypeOK
<1>2. /\ head[s].version \in Nat /\ head'[s].version \in Nat /\ old[u].version \in Nat
  BY <1>1, HeadFacts
<1>3. pc'[u] = "push_cas" => next'[mine'[u]] = old'[u].next
  BY DEF SeenHead, PushPcs
<1>4. pc'[u] \in Reading => old'[u].next # NullLink
  BY DEF SeenHead
<1>5. CASE head'[s] = head[s]
  <2>1. ASSUME pc[u] = "pop_cas", old[u] = head[s] PROVE link[u] = next'[old[u].next]
    <3>1. old[u].next # NullLink
      BY <2>1 DEF SeenHead, Reading
    <3>2. next'[old[u].next] = next[old[u].next]
      BY <1>1, <1>5, <2>1, <3>1, HeadIsFirst
    <3> QED BY <2>1, <3>2 DEF SeenHead
  <2> QED BY <1>3, <1>4, <1>5, <2>1 DEF SeenHead
<1>6. CASE head'[s] # head[s]
  <2>1. pc[u] \in Holding => old[u].version < head'[s].version
    BY <1>2, <1>6 DEF SeenHead
  <2>2. pc[u] \in Holding => old[u] # head'[s]
    BY <1>2, <2>1
  <2> QED BY <1>2, <1>3, <1>4, <2>1, <2>2 DEF SeenHead, Holding, Reading
<1> QED BY <1>5, <1>6

\* A step that moves no top and no thread into or out of an overshoot.
LEMMA StackKept ==
  ASSUME StackSettles, NEW t \in Threads, Others(t), UNCHANGED top,
         pc[t] # "bump_sub", pc'[t] # "bump_sub"
  PROVE StackSettles'
<1>1. \A s \in Splits : Overshooters(s)' = Overshooters(s)
  BY DEF Overshooters, Others
<1> QED BY <1>1 DEF StackSettles

\* A step that changes no head, no list and no push.
LEMMA BudgetKept ==
  ASSUME \A s \in Splits : Budget(s), NEW t \in Threads, SameRole(t),
         UNCHANGED <<head, list>>
  PROVE \A s \in Splits : Budget(s)'
BY RoleKept DEF Budget, VersionsDue

-----------------------------------------------------------------------------
(* The steps.                                                              *)

\* A thread's locals and the head of its split.
LEMMA ThreadFacts ==
  ASSUME TypeOK, NEW t \in Threads
  PROVE /\ split[t] \in Splits
        /\ head[split[t]] \in HeadType
        /\ old[t] \in HeadType
        /\ list[split[t]] \in Seq(Handles)
        /\ top[split[t]] \in Nat
        /\ old[t].version \in Nat /\ head[split[t]].version \in Nat
<1>1. /\ split[t] \in Splits /\ head[split[t]] \in HeadType /\ old[t] \in HeadType
      /\ list[split[t]] \in Seq(Handles) /\ top[split[t]] \in Nat
  BY Types DEF LocalTypeOK, SharedTypeOK
<1> QED BY <1>1, HeadFacts

\* Nothing a thread knows of is changed by a step that changes no head and no link.
LEMMA SeenUnchanged ==
  ASSUME IInv, NEW t \in Threads, Others(t), UNCHANGED <<head, next>>
  PROVE \A u \in Threads \ {t} : SeenHead(u)'
<1> SUFFICES ASSUME NEW u \in Threads \ {t} PROVE SeenHead(u)'
  OBVIOUS
<1>1. /\ TypeOK /\ Places /\ FreeListIntact /\ SeenHead(u)
  BY DEF IInv
<1>2. /\ pc'[u] = pc[u] /\ split'[u] = split[u] /\ mine'[u] = mine[u]
      /\ old'[u] = old[u] /\ link'[u] = link[u]
  BY DEF Others
<1>3. head'[split[u]] = head[split[u]] /\ head'[split[u]] \in HeadType
  BY <1>1, ThreadFacts
<1> QED BY <1>1, <1>2, <1>3, SeenKept

\* Steps that only look keep the invariant.
LEMMA InvLooks ==
  ASSUME IInv, NEW t \in Threads, LookStep(t) PROVE IInv'
<1>1. TypeOK' /\ Looks(t)
  BY LookFacts DEF IInv
<1>2. SameRole(t)
  BY <1>1 DEF Looks, SameRole, PushPcs
<1>3. Places'
  BY <1>1, <1>2, PlacesKept DEF IInv, Looks, Used
<1>4. FreeListIntact'
  BY <1>1, FreeListKept DEF IInv, Looks
<1>5. SeenHead(t)'
  <2>1. old'[t] = head[split[t]] => old'[t].version \in Nat
    BY ThreadFacts DEF IInv
  <2> QED BY <1>1, <2>1 DEF Looks, SeenHead, Holding, Reading
<1>6. \A u \in Threads : SeenHead(u)'
  BY <1>1, <1>5, SeenUnchanged DEF Looks
<1>7. StackSettles'
  BY <1>1, StackKept DEF IInv, Looks
<1>8. \A s \in Splits : Budget(s)'
  BY <1>1, <1>2, BudgetKept DEF IInv, Looks
<1> QED BY <1>1, <1>3, <1>4, <1>6, <1>7, <1>8 DEF IInv

\* So do steps that read the head for a push.
LEMMA InvPushLooks ==
  ASSUME IInv, NEW t \in Threads, PushLookStep(t) PROVE IInv'
<1>1. TypeOK' /\ LooksToPush(t)
  BY PushLookFacts DEF IInv
<1>2. SameRole(t)
  BY <1>1 DEF LooksToPush, SameRole, PushPcs
<1>3. Places'
  BY <1>1, <1>2, PlacesKept DEF IInv, LooksToPush, Used
<1>4. FreeListIntact'
  BY <1>1, FreeListKept DEF IInv, LooksToPush
<1>5. SeenHead(t)'
  <2>1. head[split[t]].version \in Nat
    BY ThreadFacts DEF IInv
  <2> QED BY <1>1, <2>1 DEF LooksToPush, SeenHead, Holding, Reading
<1>6. \A u \in Threads : SeenHead(u)'
  BY <1>1, <1>5, SeenUnchanged DEF LooksToPush
<1>7. StackSettles'
  BY <1>1, StackKept DEF IInv, LooksToPush
<1>8. \A s \in Splits : Budget(s)'
  BY <1>1, <1>2, BudgetKept DEF IInv, LooksToPush
<1> QED BY <1>1, <1>3, <1>4, <1>6, <1>7, <1>8 DEF IInv

\* The link a pop reads is the link of the first handle, if that still is the first.
LEMMA InvPopNext ==
  ASSUME IInv, NEW t \in Threads, PopNext(t) PROVE IInv'
<1>1. TypeOK'
  <2>1. /\ pc[t] = "pop_next" /\ old[t].next # NullLink /\ TypeOK
    BY DEF IInv, SeenHead, Reading, PopNext
  <2>2. next[old[t].next] \in Links
    <3>1. old[t].next \in Handles
      BY <2>1, ThreadFacts, HeadFacts DEF Links
    <3> QED BY <2>1, <3>1 DEF TypeOK
  <2> QED BY <2>1, <2>2 DEF TypeOK, PopNext, Pcs, PopPcs
<1>2. /\ UNCHANGED <<sharedVars, given>> /\ Others(t)
      /\ pc[t] = "pop_next" /\ pc'[t] = "pop_cas"
      /\ split'[t] = split[t] /\ old'[t] = old[t] /\ mine'[t] = mine[t]
  BY DEF IInv, TypeOK, PopNext, Others
<1>3. SameRole(t)
  BY <1>2 DEF SameRole, PushPcs
<1>4. Places'
  BY <1>2, <1>3, PlacesKept DEF IInv, Used
<1>5. FreeListIntact'
  BY <1>2, FreeListKept DEF IInv
<1>6. SeenHead(t)'
  <2>1. SeenHead(t) /\ Reading \subseteq Holding
    BY DEF IInv, Holding
  <2>2. link'[t] = next[old[t].next]
    BY DEF IInv, TypeOK, PopNext
  <2> QED BY <1>2, <2>1, <2>2 DEF SeenHead, Holding, Reading
<1>7. \A u \in Threads : SeenHead(u)'
  BY <1>2, <1>6, SeenUnchanged
<1>8. StackSettles'
  BY <1>2, StackKept DEF IInv
<1>9. \A s \in Splits : Budget(s)'
  BY <1>2, <1>3, BudgetKept DEF IInv
<1> QED BY <1>1, <1>4, <1>5, <1>7, <1>8, <1>9 DEF IInv

\* A push writes its link to a handle that is on no list.
LEMMA InvPushLink ==
  ASSUME IInv, NEW t \in Threads, PushLink(t) PROVE IInv'
<1> DEFINE h == mine[t]
<1>0. /\ TypeOK /\ Places /\ FreeListIntact
      /\ pc[t] = "push_link" /\ pc'[t] = "push_cas"
      /\ h \in Handles /\ Pushed(h) /\ ~ Listed(h)
      /\ \A u \in Threads \ {t} : pc[u] \in PushPcs => mine[u] # h
  BY DEF IInv, TypeOK, Places, PushLink, PushPcs, Pushed
<1>1. TypeOK'
  <2>1. old[t].next \in Links
    BY <1>0, ThreadFacts, HeadFacts
  <2>2. next' \in [Handles -> Links]
    BY <1>0, <2>1 DEF TypeOK, PushLink
  <2> QED BY <1>0, <2>2 DEF TypeOK, PushLink, Pcs, PushPcs
<1>2. /\ UNCHANGED <<head, top, list, given>> /\ Others(t)
      /\ split'[t] = split[t] /\ old'[t] = old[t] /\ mine'[t] = mine[t]
      /\ \A g \in Handles \ {h} : next'[g] = next[g]
      /\ next'[h] = old[t].next
  BY <1>0 DEF TypeOK, PushLink, Others
<1>3. SameRole(t)
  BY <1>0, <1>2 DEF SameRole, PushPcs
<1>4. Places'
  BY <1>0, <1>2, <1>3, PlacesKept DEF Used
<1>5. FreeListIntact'
  BY <1>0, <1>2, FreeListKept
<1>6. SeenHead(t)'
  BY <1>0, <1>2 DEF IInv, SeenHead, Holding, Reading
<1>7. ASSUME NEW u \in Threads \ {t} PROVE SeenHead(u)'
  <2>1. /\ pc'[u] = pc[u] /\ split'[u] = split[u] /\ mine'[u] = mine[u]
        /\ old'[u] = old[u] /\ link'[u] = link[u]
    BY <1>2 DEF Others
  <2>2. head'[split[u]] = head[split[u]] /\ head'[split[u]] \in HeadType
    BY <1>0, <1>2, ThreadFacts
  <2>3. \A g \in Handles : Listed(g) => next'[g] = next[g]
    BY <1>0, <1>2
  <2>4. pc[u] \in PushPcs => next'[mine[u]] = next[mine[u]]
    BY <1>0, <1>2 DEF Places
  <2>5. SeenHead(u)
    BY DEF IInv
  <2> QED BY <1>0, <2>1, <2>2, <2>3, <2>4, <2>5, SeenKept
<1>8. StackSettles'
  BY <1>0, <1>2, StackKept DEF IInv
<1>9. \A s \in Splits : Budget(s)'
  BY <1>2, <1>3, BudgetKept DEF IInv
<1> QED BY <1>1, <1>4, <1>5, <1>6, <1>7, <1>8, <1>9 DEF IInv

\* Sets of threads can be counted.
LEMMA CountFacts ==
  ASSUME NEW S \in SUBSET Threads
  PROVE /\ IsFiniteSet(S)
        /\ Cardinality(S) \in Nat
        /\ Cardinality(S) = 0 <=> S = {}
        /\ \A t \in S : Cardinality(S \ {t}) = Cardinality(S) - 1
        /\ \A t \in Threads \ S : Cardinality(S \cup {t}) = Cardinality(S) + 1
<1>1. IsFiniteSet(S)
  BY ThreadsAssumption, FS_Subset
<1> QED BY <1>1, FS_CardinalityType, FS_EmptySet, FS_RemoveElement, FS_AddElement

\* A push in progress, or a handle on the list, means versions to come.
LEMMA BudgetFacts ==
  ASSUME TypeOK, NEW s \in Splits, Budget(s)
  PROVE /\ Len(list[s]) \in Nat /\ Cardinality(Pushers(s)) \in Nat
        /\ VersionLimit \in Nat /\ head[s].version \in Nat
        /\ head[s].version + Len(list[s]) + 2 * Cardinality(Pushers(s)) < VersionLimit
        /\ \A t \in Pushers(s) : Cardinality(Pushers(s)) >= 1
<1>1. Pushers(s) \in SUBSET Threads
  BY DEF Pushers
<1>2. /\ list[s] \in Seq(Handles) /\ head[s] \in HeadType
      /\ Cardinality(Pushers(s)) \in Nat
      /\ Cardinality(Pushers(s)) = 0 <=> Pushers(s) = {}
  BY <1>1, CountFacts, Types DEF SharedTypeOK
<1>3. Len(list[s]) \in Nat /\ head[s].version \in Nat /\ VersionLimit \in Nat
  BY <1>2, HeadFacts, ParamAssumption
<1>4. head[s].version + Len(list[s]) + 2 * Cardinality(Pushers(s)) < VersionLimit
  <2> DEFINE v == head[s].version
             l == Len(list[s])
             c == Cardinality(Pushers(s))
  <2>1. v + (l + 2 * c) < VersionLimit
    BY DEF Budget, VersionsDue
  <2>2. v \in Nat /\ l \in Nat /\ c \in Nat
    BY <1>2, <1>3
  <2> HIDE DEF v, l, c
  <2>3. v + l + 2 * c < VersionLimit
    BY <1>3, <2>1, <2>2
  <2> QED BY <2>3 DEF v, l, c
<1>5. \A t \in Pushers(s) : Cardinality(Pushers(s)) >= 1
  BY <1>2
<1> QED BY <1>2, <1>3, <1>4, <1>5

\* A pop whose compare_exchange succeeds takes the first handle and leaves the rest.
LEMMA InvPopCas ==
  ASSUME IInv, NEW t \in Threads, PopCas(t) PROVE IInv'
<1> DEFINE s == split[t]
<1>0. PICK h : h = old[t].next
  OBVIOUS
<1>1. /\ TypeOK /\ Places /\ FreeListIntact /\ SeenHead(t) /\ s \in Splits
      /\ Budget(s) /\ StackSettles
      /\ pc[t] = "pop_cas" /\ head[s] = old[t]
      /\ head' = [head EXCEPT ![s] = Bumped(old[t], link[t])]
      /\ list' = [list EXCEPT ![s] = Tail(@)]
      /\ given' = given \cup {h}
      /\ Forget(t) /\ UNCHANGED <<top, next>>
      /\ LocalTypeOK
  BY <1>0, ThreadFacts, Types DEF IInv, PopCas, Acquire
<1>2. h # NullLink /\ link[t] = next[h]
  BY <1>0, <1>1 DEF SeenHead, Reading
<1>3. /\ list[s] # <<>> /\ list[s] \in Seq(Handles)
      /\ h = list[s][1] /\ h \in Handles /\ Listed(h) /\ SplitOf(h) = s
      /\ link[t] = IF 1 < Len(list[s]) THEN list[s][2] ELSE NullLink
  BY <1>0, <1>1, <1>2, HeadIsFirst
<1>4. /\ Tail(list[s]) \in Seq(Handles)
      /\ Len(Tail(list[s])) = Len(list[s]) - 1
      /\ Len(list[s]) \in Nat /\ Len(list[s]) >= 1
      /\ \A i \in 1 .. Len(list[s]) - 1 : Tail(list[s])[i] = list[s][i + 1]
      /\ Elems(list[s]) = Elems(Tail(list[s])) \cup {h}
      /\ NoRepeat(Tail(list[s])) /\ h \notin Elems(Tail(list[s]))
      /\ Tail(list[s]) = <<>> <=> Len(list[s]) = 1
  BY <1>1, <1>3, TailFacts DEF Places
<1>5. link[t] \in Links
  <2>1. 1 < Len(list[s]) => list[s][2] \in Handles
    BY <1>3, <1>4
  <2> QED BY <1>3, <2>1 DEF Links
<1>6. /\ head[s].version \in Nat
      /\ Bumped(old[t], link[t]) = [version |-> head[s].version + 1, next |-> link[t]]
      /\ Bumped(old[t], link[t]) \in HeadType
  <2>1. head[s].version \in Nat /\ head[s].version + 1 < VersionLimit
    <3> DEFINE v == head[s].version
               l == Len(list[s])
               c == Cardinality(Pushers(s))
    <3>1. v + l + 2 * c < VersionLimit /\ v \in Nat /\ l \in Nat /\ c \in Nat
          /\ VersionLimit \in Nat /\ l >= 1
      BY <1>1, <1>4, BudgetFacts
    <3> HIDE DEF v, l, c
    <3>2. v \in Nat /\ v + 1 < VersionLimit
      BY <3>1
    <3> QED BY <3>2 DEF v
  <2> QED BY <1>1, <1>5, <2>1, HeadFacts, ThreadFacts
<1>7. LocalTypeOK' /\ Others(t) /\ pc'[t] = "idle"
  BY <1>1, ForgetFacts
<1>8. SameRole(t)
  BY <1>1, <1>7 DEF SameRole, PushPcs
<1>9. /\ head'[s] = [version |-> head[s].version + 1, next |-> link[t]]
      /\ list'[s] = Tail(list[s])
      /\ \A z \in Splits \ {s} : head'[z] = head[z] /\ list'[z] = list[z]
      /\ \A g \in Handles \ {h} : next'[g] = next[g]
  BY <1>1, <1>6, Types DEF SharedTypeOK
<1>10. TypeOK'
  <2>1. head' \in [Splits -> HeadType] /\ list' \in [Splits -> Seq(Handles)]
    BY <1>1, <1>4, <1>6, Types DEF SharedTypeOK
  <2>2. /\ next' \in [Handles -> Links] /\ given' \subseteq Handles
        /\ top' \in [Splits -> Nat]
    BY <1>1, <1>3, Types DEF SharedTypeOK
  <2> QED BY <1>7, <2>1, <2>2, Types DEF SharedTypeOK
<1>11. Places'
  <2>1. ~ Pushed(h) /\ Used(h)
    BY <1>1, <1>3 DEF Places
  <2>4. Used(h)' /\ ~ Listed(h)'
    BY <1>1, <1>3, <1>4, <1>9, <2>1 DEF Used, Listed
  <2>2. \A z \in Splits : NoRepeat(list'[z]) /\ Elems(list'[z]) \subseteq Elems(list[z])
    BY <1>1, <1>4, <1>9 DEF Places
  <2>3. ASSUME NEW g \in Handles \ {h}
        PROVE (Used(g)' <=> Used(g)) /\ (Listed(g)' <=> Listed(g))
    <3>1. SplitOf(g) \in Splits
      BY SplitOfFacts
    <3> QED BY <1>1, <1>4, <1>9, <3>1 DEF Used, Listed
  <2>5. Places /\ given' = given \cup {h} /\ h \in Handles
    BY <1>1, <1>3
  <2> QED BY <1>8, <2>1, <2>2, <2>3, <2>4, <2>5, PlacesTaken
<1>12. FreeListIntact'
  <2>1. ASSUME NEW z \in Splits \ {s}
        PROVE /\ head'[z].next = IF list'[z] = <<>> THEN NullLink ELSE list'[z][1]
              /\ \A i \in 1 .. Len(list'[z]) :
                   next'[list'[z][i]] = IF i < Len(list'[z]) THEN list'[z][i + 1]
                                                             ELSE NullLink
    <3>1. \A i \in 1 .. Len(list[z]) : list[z][i] \in Handles \ {h}
      <4>1. ASSUME NEW i \in 1 .. Len(list[z]) PROVE list[z][i] \in Handles \ {h}
        <5>1. list[z][i] \in Handles /\ list[z][i] \in Elems(list[z])
          BY <1>1, Types DEF SharedTypeOK, Elems
        <5>2. SplitOf(list[z][i]) = z
          BY <1>1, <5>1 DEF Places
        <5> QED BY <1>3, <5>1, <5>2
      <4> QED BY <4>1
    <3>2. head'[z] = head[z] /\ list'[z] = list[z]
      BY <1>9
    <3>3. \A i \in 1 .. Len(list[z]) : next'[list[z][i]] = next[list[z][i]]
      BY <1>9, <3>1
    <3>4. FreeListIntact
      BY <1>1
    <3> QED BY <3>2, <3>3, <3>4 DEF FreeListIntact
  <2>2. head'[s].next = IF list'[s] = <<>> THEN NullLink ELSE list'[s][1]
    <3>1. CASE Len(list[s]) = 1
      BY <1>3, <1>4, <1>9, <3>1
    <3>2. CASE Len(list[s]) # 1
      <4>1. 1 < Len(list[s]) /\ Tail(list[s])[1] = list[s][2]
        BY <1>4, <3>2
      <4> QED BY <1>3, <1>4, <1>9, <3>2, <4>1
    <3> QED BY <3>1, <3>2
  <2>3. ASSUME NEW i \in 1 .. Len(list'[s])
        PROVE next'[list'[s][i]] = IF i < Len(list'[s]) THEN list'[s][i + 1] ELSE NullLink
    <3>1. /\ i \in 1 .. Len(list[s]) - 1 /\ list'[s][i] = list[s][i + 1]
          /\ Len(list'[s]) = Len(list[s]) - 1
          /\ i + 1 \in 1 .. Len(list[s])
          /\ list[s][i + 1] \in Handles
      BY <1>3, <1>4, <1>9
    <3>2. list[s][i + 1] # h
      <4>1. list'[s][i] \in Elems(list'[s])
        BY DEF Elems
      <4> QED BY <1>4, <1>9, <3>1, <4>1
    <3>3. next'[list'[s][i]] = IF i + 1 < Len(list[s]) THEN list[s][(i + 1) + 1] ELSE NullLink
      BY <1>1, <1>9, <3>1, <3>2 DEF FreeListIntact
    <3>4. i < Len(list'[s]) => list'[s][i + 1] = list[s][(i + 1) + 1]
      BY <1>4, <1>9, <3>1
    <3>5. i < Len(list'[s]) <=> i + 1 < Len(list[s])
      BY <1>4, <3>1
    <3> QED BY <3>3, <3>4, <3>5
  <2> QED BY <2>1, <2>2, <2>3 DEF FreeListIntact
<1>13. SeenHead(t)'
  BY <1>7 DEF SeenHead, Holding, Reading
<1>14. ASSUME NEW u \in Threads \ {t} PROVE SeenHead(u)'
  <2>1. /\ pc'[u] = pc[u] /\ split'[u] = split[u] /\ mine'[u] = mine[u]
        /\ old'[u] = old[u] /\ link'[u] = link[u] /\ SeenHead(u)
        /\ split[u] \in Splits
    BY <1>1, <1>7, ThreadFacts DEF Others, IInv
  <2>2. /\ head'[split[u]] \in HeadType
        /\ head'[split[u]] # head[split[u]] =>
             head'[split[u]].version > head[split[u]].version
    <3>1. CASE split[u] = s
      BY <1>1, <1>6, <1>9, <3>1
    <3>2. CASE split[u] # s
      BY <1>1, <1>9, <2>1, <3>2, ThreadFacts
    <3> QED BY <3>1, <3>2
  <2>3. head'[split[u]] = head[split[u]] =>
           \A g \in Handles : Listed(g) /\ SplitOf(g) = split[u] => next'[g] = next[g]
    <3>1. head'[s] # head[s]
      BY <1>6, <1>9
    <3> QED BY <1>3, <1>9, <3>1
  <2>4. pc[u] \in PushPcs => next'[mine[u]] = next[mine[u]]
    <3>1. pc[u] \in PushPcs => mine[u] \in Handles /\ mine[u] # h
      BY <1>1, <1>3 DEF Places, Pushed
    <3> QED BY <1>9, <3>1
  <2> QED BY <1>1, <2>1, <2>2, <2>3, <2>4, SeenKept
<1>15. StackSettles'
  BY <1>1, <1>7, StackKept
<1>16. ASSUME NEW z \in Splits PROVE Budget(z)'
  <2>1. Pushers(z)' = Pushers(z) /\ Budget(z)
    BY <1>8, RoleKept DEF IInv
  <2>2. CASE z # s
    BY <1>9, <2>1, <2>2 DEF Budget, VersionsDue
  <2>3. CASE z = s
    <3>1. /\ head'[s].version = head[s].version + 1
          /\ Len(list'[s]) = Len(list[s]) - 1
      BY <1>4, <1>9
    <3>2. head'[s].version + (Len(list'[s]) + 2 * Cardinality(Pushers(s))) < VersionLimit
      BY <1>1, <3>1, BudgetFacts
    <3> QED BY <2>1, <2>3, <3>2 DEF Budget, VersionsDue
  <2> QED BY <2>2, <2>3
<1> QED BY <1>10, <1>11, <1>12, <1>13, <1>14, <1>15, <1>16 DEF IInv

\* A push whose compare_exchange succeeds puts the handle in front of the list.
LEMMA InvPushCas ==
  ASSUME IInv, NEW t \in Threads, PushCas(t) PROVE IInv'
<1>0. PICK h, s : h = mine[t] /\ s = split[t]
  OBVIOUS
<1>1. /\ TypeOK /\ Places /\ FreeListIntact /\ SeenHead(t)
      /\ s = split[t] /\ s \in Splits
      /\ Budget(s) /\ StackSettles
      /\ pc[t] = "push_cas" /\ head[s] = old[t]
      /\ head' = [head EXCEPT ![s] = Bumped(old[t], h)]
      /\ list' = [list EXCEPT ![s] = <<h>> \o @]
      /\ UNCHANGED <<top, next, given>>
      /\ Forget(t)
      /\ LocalTypeOK
  BY <1>0, ThreadFacts, Types DEF IInv, PushCas
<1>2. /\ h \in Handles /\ SplitOf(h) = s /\ Pushed(h) /\ next[h] = head[s].next
      /\ \A u \in Threads : pc[u] \in PushPcs /\ mine[u] = h => u = t
      /\ list[s] \in Seq(Handles) /\ NoRepeat(list[s])
  <2>1. pc[t] \in PushPcs
    BY <1>1 DEF PushPcs
  <2>2. /\ h \in Handles /\ SplitOf(h) = s /\ Pushed(h)
        /\ \A u \in Threads : pc[u] \in PushPcs /\ mine[u] = h => u = t
    BY <1>0, <1>1, <2>1 DEF Places, Pushed
  <2> QED BY <1>0, <1>1, <2>2, ThreadFacts DEF SeenHead, Places
<1>3. ~ Listed(h) /\ Used(h) /\ h \notin given /\ h \notin Elems(list[s])
  BY <1>1, <1>2 DEF Places, Listed
<1>4. /\ <<h>> \o list[s] \in Seq(Handles)
      /\ <<h>> \o list[s] # <<>>
      /\ Len(<<h>> \o list[s]) = Len(list[s]) + 1
      /\ Len(list[s]) \in Nat
      /\ (<<h>> \o list[s])[1] = h
      /\ \A i \in 1 .. Len(list[s]) : (<<h>> \o list[s])[i + 1] = list[s][i]
      /\ Elems(<<h>> \o list[s]) = Elems(list[s]) \cup {h}
      /\ NoRepeat(<<h>> \o list[s])
  BY <1>2, <1>3, ConsFacts, ConsNoRepeat
<1>5. t \in Pushers(s)
  BY <1>1 DEF Pushers, PushPcs
<1>6. /\ head[s].version \in Nat
      /\ Bumped(old[t], h) = [version |-> head[s].version + 1, next |-> h]
      /\ Bumped(old[t], h) \in HeadType
  <2>1. head[s].version \in Nat /\ head[s].version + 1 < VersionLimit
    <3> DEFINE v == head[s].version
               l == Len(list[s])
               c == Cardinality(Pushers(s))
    <3>1. v + l + 2 * c < VersionLimit /\ v \in Nat /\ l \in Nat /\ c \in Nat
          /\ VersionLimit \in Nat /\ c >= 1
      BY <1>1, <1>5, BudgetFacts
    <3> HIDE DEF v, l, c
    <3>2. v \in Nat /\ v + 1 < VersionLimit
      BY <3>1
    <3> QED BY <3>2 DEF v
  <2>2. h \in Links
    BY <1>2 DEF Links
  <2> QED BY <1>1, <2>1, <2>2, HeadFacts, ThreadFacts
<1>7. LocalTypeOK' /\ Others(t) /\ pc'[t] = "idle"
  BY <1>1, ForgetFacts
<1>9. /\ head'[s] = [version |-> head[s].version + 1, next |-> h]
      /\ list'[s] = <<h>> \o list[s]
      /\ \A z \in Splits \ {s} : head'[z] = head[z] /\ list'[z] = list[z]
  BY <1>1, <1>6, Types DEF SharedTypeOK
<1>10. TypeOK'
  <2>1. head' \in [Splits -> HeadType] /\ list' \in [Splits -> Seq(Handles)]
    BY <1>1, <1>4, <1>6, Types DEF SharedTypeOK
  <2>2. /\ next' \in [Handles -> Links] /\ given' \subseteq Handles
        /\ top' \in [Splits -> Nat]
    BY <1>1, Types DEF SharedTypeOK
  <2> QED BY <1>7, <2>1, <2>2, Types DEF SharedTypeOK
<1>8. \A u \in Threads : /\ pc'[u] \in PushPcs <=> pc[u] \in PushPcs /\ u # t
                         /\ u # t => mine'[u] = mine[u] /\ split'[u] = split[u]
  BY <1>7 DEF Others, PushPcs
<1>11. Places'
  <2>1. \A g \in Handles : Pushed(g)' <=> Pushed(g) /\ g # h
    BY <1>0, <1>2, <1>8 DEF Pushed
  <2>2. \A g \in Handles : /\ Listed(g)' <=> Listed(g) \/ g = h
                           /\ Used(g)' <=> Used(g)
    <3>1. \A g \in Handles : SplitOf(g) \in Splits
      BY SplitOfFacts
    <3> QED BY <1>1, <1>2, <1>4, <1>9, <3>1 DEF Listed, Used
  <2>3. ASSUME NEW z \in Splits
        PROVE NoRepeat(list'[z]) /\ \A g \in Elems(list'[z]) : SplitOf(g) = z
    BY <1>1, <1>2, <1>4, <1>9 DEF Places
  <2>4. \A g \in Handles :
       /\ ~ Used(g)' \/ Listed(g)' \/ g \in given' \/ Pushed(g)'
       /\ Listed(g)' => Used(g)' /\ g \notin given' /\ ~ Pushed(g)'
       /\ g \in given' => Used(g)' /\ ~ Pushed(g)'
       /\ Pushed(g)' => Used(g)'
    BY <1>1, <1>3, <2>1, <2>2 DEF Places
  <2>5. \A u \in Threads : pc'[u] \in PushPcs =>
       /\ mine'[u] \in Handles /\ SplitOf(mine'[u]) = split'[u]
       /\ \A v \in Threads : pc'[v] \in PushPcs /\ mine'[v] = mine'[u] => v = u
    BY <1>1, <1>8 DEF Places
  <2> QED BY <2>3, <2>4, <2>5 DEF Places
<1>12. FreeListIntact'
  <2>1. ASSUME NEW z \in Splits \ {s}
        PROVE /\ head'[z].next = IF list'[z] = <<>> THEN NullLink ELSE list'[z][1]
              /\ \A i \in 1 .. Len(list'[z]) :
                   next'[list'[z][i]] = IF i < Len(list'[z]) THEN list'[z][i + 1]
                                                             ELSE NullLink
    <3>1. head'[z] = head[z] /\ list'[z] = list[z] /\ next' = next /\ FreeListIntact
      BY <1>1, <1>9
    <3> QED BY <3>1 DEF FreeListIntact
  <2>2. head'[s].next = IF list'[s] = <<>> THEN NullLink ELSE list'[s][1]
    BY <1>4, <1>9
  <2>3. ASSUME NEW i \in 1 .. Len(list'[s])
        PROVE next'[list'[s][i]] = IF i < Len(list'[s]) THEN list'[s][i + 1] ELSE NullLink
    <3>1. CASE i = 1
      <4>1. /\ list'[s][i] = h /\ Len(list'[s]) = Len(list[s]) + 1
            /\ next' = next
        BY <1>1, <1>4, <1>9, <3>1
      <4>2. next[h] = IF list[s] = <<>> THEN NullLink ELSE list[s][1]
        BY <1>1, <1>2 DEF FreeListIntact
      <4>3. list[s] = <<>> <=> Len(list[s]) = 0
        BY <1>2, EmptyFacts
      <4>4. Len(list[s]) # 0 => list'[s][i + 1] = list[s][1]
        <5>1. Len(list[s]) # 0 => 1 \in 1 .. Len(list[s])
          BY <1>4
        <5> QED BY <1>4, <1>9, <3>1, <5>1
      <4> QED BY <1>4, <3>1, <4>1, <4>2, <4>3, <4>4
    <3>2. CASE i # 1
      <4> DEFINE j == i - 1
      <4>1. /\ j \in 1 .. Len(list[s]) /\ i = j + 1 /\ Len(list'[s]) = Len(list[s]) + 1
        BY <1>4, <1>9, <3>2
      <4>2. list'[s][i] = list[s][j]
        BY <1>4, <1>9, <4>1
      <4>3. i < Len(list'[s]) => j + 1 \in 1 .. Len(list[s]) /\ list'[s][i + 1] = list[s][j + 1]
        BY <1>4, <1>9, <4>1
      <4>4. i < Len(list'[s]) <=> j < Len(list[s])
        BY <1>4, <4>1
      <4> HIDE DEF j
      <4>5. next[list[s][j]] = IF j < Len(list[s]) THEN list[s][j + 1] ELSE NullLink
        BY <1>1, <4>1 DEF FreeListIntact
      <4>6. next' = next
        BY <1>1
      <4> QED BY <4>2, <4>3, <4>4, <4>5, <4>6
    <3> QED BY <3>1, <3>2
  <2> QED BY <2>1, <2>2, <2>3 DEF FreeListIntact
<1>13. SeenHead(t)'
  BY <1>7 DEF SeenHead, Holding, Reading
<1>14. ASSUME NEW u \in Threads \ {t} PROVE SeenHead(u)'
  <2>1. /\ pc'[u] = pc[u] /\ split'[u] = split[u] /\ mine'[u] = mine[u]
        /\ old'[u] = old[u] /\ link'[u] = link[u] /\ SeenHead(u)
        /\ split[u] \in Splits
    BY <1>1, <1>7, ThreadFacts DEF Others, IInv
  <2>2. /\ head'[split[u]] \in HeadType
        /\ head'[split[u]] # head[split[u]] =>
             head'[split[u]].version > head[split[u]].version
    <3>1. CASE split[u] = s
      BY <1>1, <1>6, <1>9, <3>1
    <3>2. CASE split[u] # s
      BY <1>1, <1>9, <2>1, <3>2, ThreadFacts
    <3> QED BY <3>1, <3>2
  <2>3. next' = next
    BY <1>1
  <2> QED BY <1>1, <2>1, <2>2, <2>3, SeenKept
<1>15. StackSettles'
  BY <1>1, <1>7, StackKept
<1>16. ASSUME NEW z \in Splits PROVE Budget(z)'
  <2>0. Budget(z)
    BY DEF IInv
  <2>1. CASE z # s
    <3>1. Pushers(z)' = Pushers(z)
      BY <1>1, <1>8, <2>1 DEF Pushers
    <3> QED BY <1>9, <2>0, <2>1, <3>1 DEF Budget, VersionsDue
  <2>2. CASE z = s
    <3> DEFINE v == head[s].version
               l == Len(list[s])
               c == Cardinality(Pushers(s))
               d == Cardinality(Pushers(s)')
    <3>1. v + l + 2 * c < VersionLimit /\ v \in Nat /\ l \in Nat /\ c \in Nat
          /\ VersionLimit \in Nat
      BY <1>1, BudgetFacts
    <3>2. d = c - 1
      <4>1. Pushers(s) \in SUBSET Threads
        BY DEF Pushers
      <4>2. Pushers(s)' = Pushers(s) \ {t}
        BY <1>8, <1>7 DEF Pushers
      <4> QED BY <1>5, <4>1, <4>2, CountFacts
    <3>3. head'[s].version = v + 1 /\ Len(list'[s]) = l + 1
      BY <1>4, <1>9
    <3> HIDE DEF v, l, c, d
    <3>4. head'[s].version + (Len(list'[s]) + 2 * d) < VersionLimit
      BY <3>1, <3>2, <3>3
    <3> QED BY <2>2, <3>4 DEF Budget, VersionsDue, d
  <2> QED BY <2>1, <2>2
<1> QED BY <1>10, <1>11, <1>12, <1>13, <1>14, <1>15, <1>16 DEF IInv

\* A client's handle is on its way back.
LEMMA InvStartDeallocate ==
  ASSUME IInv, NEW t \in Threads, NEW h \in Handles, StartDeallocate(t, h)
  PROVE IInv'
<1>0. PICK s : s = SplitOf(h)
  OBVIOUS
<1>1. /\ TypeOK /\ Places /\ FreeListIntact /\ StackSettles
      /\ s \in Splits /\ VersionsLeft(s) /\ h \in given
      /\ pc[t] = "idle" /\ pc'[t] = "push_load"
      /\ mine'[t] = h /\ split'[t] = s
      /\ given' = given \ {h}
      /\ UNCHANGED <<head, top, next, list>> /\ Others(t)
  BY <1>0, SplitOfFacts DEF IInv, TypeOK, StartDeallocate, Others
<1>2. TypeOK'
  BY <1>0, SplitOfFacts DEF IInv, TypeOK, StartDeallocate, Links, Pcs, PushPcs
<1>3. \A u \in Threads :
        /\ pc'[u] \in PushPcs <=> pc[u] \in PushPcs \/ u = t
        /\ u # t => mine'[u] = mine[u] /\ split'[u] = split[u]
  BY <1>1 DEF Others, PushPcs
<1>4. t \notin Pushers(s) /\ pc[t] \notin PushPcs
  BY <1>1 DEF Pushers, PushPcs
<1>5. Places'
  <2>1. \A g \in Handles : /\ Pushed(g)' <=> Pushed(g) \/ g = h
                           /\ Listed(g)' <=> Listed(g)
                           /\ Used(g)' <=> Used(g)
    BY <1>1, <1>3, <1>4 DEF Pushed, Listed, Used
  <2>2. \A g \in Handles :
       /\ ~ Used(g)' \/ Listed(g)' \/ g \in given' \/ Pushed(g)'
       /\ Listed(g)' => Used(g)' /\ g \notin given' /\ ~ Pushed(g)'
       /\ g \in given' => Used(g)' /\ ~ Pushed(g)'
       /\ Pushed(g)' => Used(g)'
    BY <1>1, <2>1 DEF Places
  <2>3. \A u \in Threads : pc'[u] \in PushPcs =>
       /\ mine'[u] \in Handles /\ SplitOf(mine'[u]) = split'[u]
       /\ \A v \in Threads : pc'[v] \in PushPcs /\ mine'[v] = mine'[u] => v = u
    <3>1. ~ Pushed(h)
      BY <1>1 DEF Places
    <3>2. \A u \in Threads : pc[u] \in PushPcs => mine[u] # h
      BY <3>1 DEF Pushed
    <3> QED BY <1>0, <1>1, <1>3, <3>2 DEF Places
  <2> QED BY <1>1, <2>2, <2>3 DEF Places
<1>6. FreeListIntact'
  BY <1>1, FreeListKept
<1>7. \A u \in Threads : SeenHead(u)'
  <2>1. SeenHead(t)'
    BY <1>1 DEF SeenHead, Holding, Reading
  <2> QED BY <1>1, <2>1, SeenUnchanged
<1>8. StackSettles'
  BY <1>1, StackKept
<1>9. ASSUME NEW z \in Splits PROVE Budget(z)'
  <2>0. Budget(z)
    BY DEF IInv
  <2>1. CASE z # s
    <3>1. Pushers(z)' = Pushers(z)
      BY <1>1, <1>3, <1>4, <2>1 DEF Pushers
    <3> QED BY <1>1, <2>0, <3>1 DEF Budget, VersionsDue
  <2>2. CASE z = s
    <3> DEFINE v == head[s].version
               l == Len(list[s])
               c == Cardinality(Pushers(s))
               d == Cardinality(Pushers(s)')
    <3>1. /\ v \in Nat /\ l \in Nat /\ c \in Nat /\ VersionLimit \in Nat
          /\ v + (l + 2 * c) + 2 < VersionLimit
      BY <1>1, <2>0, <2>2, BudgetFacts DEF VersionsLeft, VersionsDue
    <3>2. d = c + 1
      <4>1. Pushers(s) \in SUBSET Threads
        BY DEF Pushers
      <4>2. Pushers(s)' = Pushers(s) \cup {t}
        BY <1>1, <1>3, <1>4 DEF Pushers
      <4> QED BY <1>4, <4>1, <4>2, CountFacts
    <3>3. head'[s].version = v /\ Len(list'[s]) = l
      BY <1>1
    <3> HIDE DEF v, l, c, d
    <3>4. head'[s].version + (Len(list'[s]) + 2 * d) < VersionLimit
      BY <3>1, <3>2, <3>3
    <3> QED BY <2>2, <3>4 DEF Budget, VersionsDue, d
  <2> QED BY <2>1, <2>2
<1> QED BY <1>1, <1>2, <1>5, <1>6, <1>7, <1>8, <1>9 DEF IInv

\* What StackSettles says in numbers.
LEMMA StackFacts ==
  ASSUME TypeOK, NEW s \in Splits,
         IF Overshooters(s) = {}
           THEN top[s] \in FirstHandle(s) .. LastHandle(s)
           ELSE top[s] = LastHandle(s) + Cardinality(Overshooters(s))
  PROVE /\ top[s] \in Nat /\ Cardinality(Overshooters(s)) \in Nat
        /\ FirstHandle(s) \in Nat /\ LastHandle(s) \in Nat
        /\ FirstHandle(s) <= LastHandle(s) /\ LastHandle(s) <= NumHandles
        /\ top[s] >= FirstHandle(s)
        /\ top[s] < LastHandle(s) => Overshooters(s) = {}
        /\ top[s] >= LastHandle(s) =>
             top[s] = LastHandle(s) + Cardinality(Overshooters(s))
        /\ Overshooters(s) \in SUBSET Threads
<1>1. Overshooters(s) \in SUBSET Threads
  BY DEF Overshooters
<1>2. /\ Cardinality(Overshooters(s)) \in Nat
      /\ Cardinality(Overshooters(s)) = 0 <=> Overshooters(s) = {}
  BY <1>1, CountFacts
<1>3. /\ FirstHandle(s) \in Nat /\ LastHandle(s) \in Nat
      /\ FirstHandle(s) <= LastHandle(s) /\ LastHandle(s) <= NumHandles
  BY SplitFacts
<1>4. top[s] \in Nat
  BY Types DEF SharedTypeOK
<1> QED BY <1>1, <1>2, <1>3, <1>4

\* A handle of a split with an exhausted stack is used, a handle below the top is.
LEMMA UsedFacts ==
  ASSUME TypeOK, NEW s \in Splits, top[s] >= LastHandle(s), NEW h \in Handles,
         SplitOf(h) = s
  PROVE Used(h)
<1>1. top[s] \in Nat /\ LastHandle(s) \in Nat /\ h \in Nat /\ h < LastHandle(s)
  BY SplitFacts, SplitOfFacts, Types DEF SharedTypeOK
<1> QED BY <1>1 DEF Used

\* A bump hands out the handle at the top, or overshoots.
LEMMA InvBumpAdd ==
  ASSUME IInv, NEW t \in Threads, BumpAdd(t) PROVE IInv'
<1>0. PICK h, s : h = top[s] /\ s = split[t]
  <2>1. \E s : s = split[t]
    OBVIOUS
  <2> QED BY <2>1
<1>1. /\ TypeOK /\ Places /\ FreeListIntact /\ StackSettles /\ LocalTypeOK
      /\ h = top[s] /\ s = split[t] /\ s \in Splits /\ h \in Nat
      /\ pc[t] = "bump_add"
      /\ top' = [top EXCEPT ![s] = @ + 1]
      /\ UNCHANGED <<head, list>>
  BY <1>0, ThreadFacts, Types DEF IInv, BumpAdd
<1>2. /\ top[s] \in Nat /\ Cardinality(Overshooters(s)) \in Nat
      /\ FirstHandle(s) \in Nat /\ LastHandle(s) \in Nat
      /\ FirstHandle(s) <= LastHandle(s) /\ LastHandle(s) <= NumHandles
      /\ top[s] >= FirstHandle(s)
      /\ top[s] < LastHandle(s) => Overshooters(s) = {}
      /\ top[s] >= LastHandle(s) =>
           top[s] = LastHandle(s) + Cardinality(Overshooters(s))
      /\ Overshooters(s) \in SUBSET Threads
  BY <1>1, StackFacts DEF StackSettles
<1>3. /\ top' \in [Splits -> Nat] /\ top'[s] = h + 1
      /\ \A z \in Splits \ {s} : top'[z] = top[z]
  BY <1>1, Types DEF SharedTypeOK
<1>4. CASE h < LastHandle(s)
  <2>1. /\ given' = given \cup {h}
        /\ next' = next
        /\ Forget(t)
    BY <1>1, <1>4 DEF BumpAdd, Acquire
  <2>2. h \in Handles /\ SplitOf(h) = s
    BY <1>1, <1>2, <1>4, SplitFound
  <2>3. LocalTypeOK' /\ Others(t) /\ pc'[t] = "idle"
    BY <1>1, <2>1, ForgetFacts
  <2>4. SameRole(t)
    BY <1>1, <2>3 DEF SameRole, PushPcs
  <2>5. ~ Used(h) /\ ~ Listed(h) /\ ~ Pushed(h) /\ h \notin given
    <3>1. ~ Used(h)
      BY <1>1, <2>2 DEF Used
    <3> QED BY <1>1, <2>2, <3>1 DEF Places
  <2>6. /\ \A g \in Handles \ {h} : next'[g] = next[g]
        /\ next' \in [Handles -> Links]
    BY <1>1, <2>1, <2>2, Types DEF SharedTypeOK
  <2>7. TypeOK'
    BY <1>1, <1>3, <2>1, <2>2, <2>3, <2>6, Types DEF SharedTypeOK
  <2>8. Places'
    <3>1. Used(h)' /\ ~ Listed(h)'
      BY <1>1, <1>3, <2>2, <2>5 DEF Used, Listed
    <3>2. ASSUME NEW g \in Handles \ {h}
          PROVE (Used(g)' <=> Used(g)) /\ (Listed(g)' <=> Listed(g))
      <4>1. SplitOf(g) \in Splits /\ g \in Nat
        BY SplitOfFacts
      <4>2. CASE SplitOf(g) = s
        BY <1>1, <1>3, <4>1, <4>2 DEF Used, Listed
      <4>3. CASE SplitOf(g) # s
        BY <1>1, <1>3, <4>1, <4>3 DEF Used, Listed
      <4> QED BY <4>2, <4>3
    <3>3. \A z \in Splits : NoRepeat(list'[z]) /\ Elems(list'[z]) \subseteq Elems(list[z])
      BY <1>1 DEF Places
    <3>4. Places /\ given' = given \cup {h} /\ h \in Handles /\ ~ Pushed(h)
      BY <1>1, <2>1, <2>2, <2>5
    <3> QED BY <2>4, <3>1, <3>2, <3>3, <3>4, PlacesTaken
  <2>9. FreeListIntact'
    BY <1>1, <2>5, <2>6, FreeListKept
  <2>10. SeenHead(t)'
    BY <2>3 DEF SeenHead, Holding, Reading
  <2>11. ASSUME NEW u \in Threads \ {t} PROVE SeenHead(u)'
    <3>1. /\ pc'[u] = pc[u] /\ split'[u] = split[u] /\ mine'[u] = mine[u]
          /\ old'[u] = old[u] /\ link'[u] = link[u] /\ SeenHead(u)
      BY <2>3 DEF Others, IInv
    <3>2. head'[split[u]] = head[split[u]] /\ head'[split[u]] \in HeadType
      BY <1>1, ThreadFacts
    <3>3. \A g \in Handles : Listed(g) => next'[g] = next[g]
      BY <2>5, <2>6
    <3>4. pc[u] \in PushPcs => next'[mine[u]] = next[mine[u]]
      <4>1. pc[u] \in PushPcs => mine[u] \in Handles /\ mine[u] # h
        BY <1>1, <2>5 DEF Places, Pushed
      <4> QED BY <2>6, <4>1
    <3> QED BY <1>1, <3>1, <3>2, <3>3, <3>4, SeenKept
  <2>12. StackSettles'
    <3>1. \A z \in Splits : Overshooters(z)' = Overshooters(z)
      BY <1>1, <2>3 DEF Overshooters, Others
    <3>2. Overshooters(s) = {} /\ h + 1 \in FirstHandle(s) .. LastHandle(s)
      BY <1>1, <1>2, <1>4
    <3> QED BY <1>1, <1>3, <3>1, <3>2 DEF StackSettles
  <2>13. \A z \in Splits : Budget(z)'
    BY <1>1, <2>4, BudgetKept DEF IInv
  <2> QED BY <2>7, <2>8, <2>9, <2>10, <2>11, <2>12, <2>13 DEF IInv
<1>5. CASE ~ h < LastHandle(s)
  <2>1. /\ pc' = [pc EXCEPT ![t] = "bump_sub"]
        /\ UNCHANGED <<next, given, scanVars, casVars, mine>>
    BY <1>1, <1>5 DEF BumpAdd
  <2>2. LocalTypeOK' /\ Others(t) /\ pc'[t] = "bump_sub" /\ split'[t] = s
    BY <1>1, <2>1 DEF LocalTypeOK, Others, Pcs, BumpPcs
  <2>3. SameRole(t)
    BY <1>1, <2>2 DEF SameRole, PushPcs
  <2>4. TypeOK'
    BY <1>1, <1>3, <2>1, <2>2, Types DEF SharedTypeOK
  <2>5. Places'
    <3>1. ASSUME NEW g \in Handles PROVE Used(g)' <=> Used(g)
      <4>1. SplitOf(g) \in Splits /\ g \in Nat
        BY SplitOfFacts
      <4>2. CASE SplitOf(g) = s
        <5>1. Used(g)
          BY <1>1, <1>2, <1>5, <4>2, UsedFacts
        <5> QED BY <1>1, <1>3, <4>1, <4>2, <5>1 DEF Used
      <4>3. CASE SplitOf(g) # s
        BY <1>3, <4>1, <4>3 DEF Used
      <4> QED BY <4>2, <4>3
    <3> QED BY <1>1, <2>1, <2>3, <3>1, PlacesKept
  <2>6. FreeListIntact'
    BY <1>1, <2>1, FreeListKept
  <2>7. SeenHead(t)'
    BY <2>2 DEF SeenHead, Holding, Reading
  <2>8. \A u \in Threads : SeenHead(u)'
    BY <1>1, <2>1, <2>2, <2>7, SeenUnchanged
  <2>9. StackSettles'
    <3>1. /\ Overshooters(s)' = Overshooters(s) \cup {t}
          /\ t \notin Overshooters(s)
          /\ \A z \in Splits \ {s} : Overshooters(z)' = Overshooters(z)
      BY <1>1, <2>2 DEF Overshooters, Others
    <3>2. Cardinality(Overshooters(s)') = Cardinality(Overshooters(s)) + 1
      BY <1>2, <3>1, CountFacts
    <3>3. top'[s] = LastHandle(s) + Cardinality(Overshooters(s)') /\ Overshooters(s)' # {}
      BY <1>1, <1>2, <1>3, <1>5, <3>1, <3>2
    <3> QED BY <1>1, <1>3, <3>1, <3>3, ZenonT(40) DEF StackSettles
  <2>10. \A z \in Splits : Budget(z)'
    BY <1>1, <2>3, BudgetKept DEF IInv
  <2> QED BY <2>4, <2>5, <2>6, <2>8, <2>9, <2>10 DEF IInv
<1> QED BY <1>4, <1>5

\* An overshoot is taken back.
LEMMA InvBumpSub ==
  ASSUME IInv, NEW t \in Threads, BumpSub(t) PROVE IInv'
<1>0. PICK s : s = split[t]
  OBVIOUS
<1>1. /\ TypeOK /\ Places /\ FreeListIntact /\ StackSettles /\ LocalTypeOK
      /\ s = split[t] /\ s \in Splits
      /\ pc[t] = "bump_sub" /\ t \in Overshooters(s)
      /\ top' = [top EXCEPT ![s] = @ - 1]
      /\ LeaveSplit(t, FALSE)
      /\ UNCHANGED <<head, next, list, given>>
  BY <1>0, ThreadFacts, Types DEF IInv, BumpSub, Overshooters
<1>2. LocalTypeOK' /\ Others(t) /\ pc'[t] \in {"idle", "pop_load"}
  BY <1>1, LeaveFacts
<1>3. /\ Overshooters(s) \in SUBSET Threads
      /\ Cardinality(Overshooters(s)) \in Nat /\ Cardinality(Overshooters(s)) >= 1
      /\ LastHandle(s) \in Nat /\ FirstHandle(s) \in Nat
      /\ FirstHandle(s) <= LastHandle(s)
      /\ top[s] = LastHandle(s) + Cardinality(Overshooters(s))
  BY <1>1, StackFacts, CountFacts DEF StackSettles
<1>4. /\ top'[s] = top[s] - 1 /\ top[s] - 1 \in Nat /\ top[s] - 1 >= LastHandle(s)
      /\ \A z \in Splits \ {s} : top'[z] = top[z]
      /\ top' \in [Splits -> Nat]
  <2>1. top[s] - 1 \in Nat /\ top[s] - 1 >= LastHandle(s)
    BY <1>3
  <2> QED BY <1>1, <2>1, Types DEF SharedTypeOK
<1>5. TypeOK'
  BY <1>1, <1>2, <1>4, Types DEF SharedTypeOK
<1>6. SameRole(t)
  BY <1>1, <1>2 DEF SameRole, PushPcs
<1>7. Places'
  <2>1. ASSUME NEW g \in Handles PROVE Used(g)' <=> Used(g)
    <3>1. SplitOf(g) \in Splits /\ g \in Nat /\ g < LastHandle(SplitOf(g))
      BY SplitOfFacts
    <3>2. CASE SplitOf(g) = s
      BY <1>3, <1>4, <3>1, <3>2 DEF Used
    <3>3. CASE SplitOf(g) # s
      BY <1>4, <3>1, <3>3 DEF Used
    <3> QED BY <3>2, <3>3
  <2> QED BY <1>1, <1>6, <2>1, PlacesKept
<1>8. FreeListIntact'
  BY <1>1, FreeListKept
<1>9. \A u \in Threads : SeenHead(u)'
  <2>1. SeenHead(t)'
    BY <1>2 DEF SeenHead, Holding, Reading
  <2> QED BY <1>1, <1>2, <2>1, SeenUnchanged
<1>10. StackSettles'
  <2>1. /\ Overshooters(s)' = Overshooters(s) \ {t}
        /\ \A z \in Splits \ {s} : Overshooters(z)' = Overshooters(z)
    BY <1>1, <1>2 DEF Overshooters, Others
  <2>2. /\ Cardinality(Overshooters(s)') = Cardinality(Overshooters(s)) - 1
        /\ Cardinality(Overshooters(s)') = 0 <=> Overshooters(s)' = {}
    <3>1. Overshooters(s) \ {t} \in SUBSET Threads
      BY <1>3
    <3>2. Cardinality(Overshooters(s) \ {t}) = Cardinality(Overshooters(s)) - 1
      BY <1>1, <1>3, CountFacts
    <3>3. Cardinality(Overshooters(s) \ {t}) = 0 <=> Overshooters(s) \ {t} = {}
      BY <3>1, CountFacts
    <3> QED BY <2>1, <3>2, <3>3
  <2>3. top'[s] = LastHandle(s) + Cardinality(Overshooters(s)')
    BY <1>3, <1>4, <2>2
  <2>4. Overshooters(s)' = {} => top'[s] \in FirstHandle(s) .. LastHandle(s)
    BY <1>3, <2>2, <2>3
  <2> QED BY <1>1, <1>4, <2>1, <2>3, <2>4, ZenonT(40) DEF StackSettles
<1>11. \A z \in Splits : Budget(z)'
  BY <1>1, <1>6, BudgetKept DEF IInv
<1> QED BY <1>5, <1>7, <1>8, <1>9, <1>10, <1>11 DEF IInv

\* A region starts with every handle on its stack.
LEMMA InitInv == Init => IInv
<1> SUFFICES ASSUME Init PROVE IInv
  OBVIOUS
<1>1. TypeOK
  <2>1. \A s \in Splits : FirstHandle(s) \in Nat /\ 0 \in Splits
    BY SplitFacts, NextSplitType
  <2>2. "idle" \in Pcs
    BY DEF Pcs
  <2>3. next \in [Handles -> Links]
    <3>1. \A h \in Handles : 0 \in Handles
      BY SizeAssumption DEF Handles
    <3> QED BY <3>1 DEF Init, Links
  <2> QED BY <2>1, <2>2, <2>3, NoHeadType, EmptyFacts, ThreadsAssumption, SizeAssumption
          DEF Init, TypeOK, Splits
<1>2. \A h \in Handles : ~ Used(h) /\ ~ Listed(h) /\ ~ Pushed(h) /\ h \notin given
  <2> SUFFICES ASSUME NEW h \in Handles
               PROVE ~ Used(h) /\ ~ Listed(h) /\ ~ Pushed(h) /\ h \notin given
    OBVIOUS
  <2>1. SplitOf(h) \in Splits /\ h \in Nat /\ FirstHandle(SplitOf(h)) <= h
        /\ FirstHandle(SplitOf(h)) \in Nat
    BY SplitOfFacts, SplitFacts
  <2>2. ~ Used(h)
    BY <2>1 DEF Init, Used
  <2>3. ~ Listed(h)
    BY <2>1, EmptyFacts DEF Init, Listed
  <2> QED BY <2>2, <2>3 DEF Init, Pushed, PushPcs
<1>3. Places
  <2>1. \A t \in Threads : pc[t] \notin PushPcs
    BY DEF Init, PushPcs
  <2>2. \A s \in Splits : NoRepeat(list[s]) /\ Elems(list[s]) = {}
    BY EmptyFacts DEF Init
  <2> QED BY <1>2, <2>1, <2>2 DEF Places
<1>4. FreeListIntact
  BY EmptyFacts DEF Init, FreeListIntact, NoHead
<1>5. \A t \in Threads : SeenHead(t)
  BY DEF Init, SeenHead, Holding, Reading
<1>6. StackSettles
  <2>1. ASSUME NEW s \in Splits
        PROVE Overshooters(s) = {} /\ top[s] \in FirstHandle(s) .. LastHandle(s)
    <3>1. FirstHandle(s) \in FirstHandle(s) .. LastHandle(s)
      BY SplitFacts
    <3> QED BY <3>1 DEF Init, Overshooters
  <2> QED BY <2>1 DEF StackSettles
<1>7. ASSUME NEW s \in Splits PROVE Budget(s)
  <2>1. Pushers(s) = {} /\ list[s] = <<>> /\ head[s].version = 0
    BY DEF Init, Pushers, PushPcs, NoHead
  <2>2. Len(list[s]) = 0 /\ Cardinality(Pushers(s)) = 0
    BY <2>1, FS_EmptySet
  <2> QED BY <2>1, <2>2, ParamAssumption DEF Budget, VersionsDue
<1> QED BY <1>1, <1>3, <1>4, <1>5, <1>6, <1>7 DEF IInv

\* A step that changes nothing.
LEMMA InvStutter == IInv /\ UNCHANGED vars => IInv'
<1> SUFFICES ASSUME IInv, UNCHANGED vars PROVE IInv'
  OBVIOUS
<1>1. TypeOK'
  BY DEF IInv, TypeOK
<1>2. Places'
  BY DEF IInv, Places, Used, Listed, Pushed
<1>3. FreeListIntact'
  BY DEF IInv, FreeListIntact
<1>4. \A t \in Threads : SeenHead(t)'
  BY DEF IInv, SeenHead
<1>5. StackSettles'
  BY DEF IInv, StackSettles, Overshooters
<1>6. \A s \in Splits : Budget(s)'
  BY DEF IInv, Budget, VersionsDue, Pushers
<1> QED BY <1>1, <1>2, <1>3, <1>4, <1>5, <1>6 DEF IInv

\* IInv is inductive.
LEMMA InvStep == IInv /\ [Next]_vars => IInv'
<1> SUFFICES ASSUME IInv, [Next]_vars PROVE IInv'
  OBVIOUS
<1>1. ASSUME NEW t \in Threads, NEW s \in Splits, StartAllocate(t, s) PROVE IInv'
  BY <1>1, InvLooks DEF LookStep
<1>2. ASSUME NEW t \in Threads, NEW h \in Handles, StartDeallocate(t, h) PROVE IInv'
  BY <1>2, InvStartDeallocate
<1>3. ASSUME NEW t \in Threads, Step(t) PROVE IInv'
  <2>1. CASE PopLoad(t) \/ PopRetry(t) \/ BumpLoad(t)
    BY <2>1, InvLooks DEF LookStep
  <2>2. CASE PushLoad(t) \/ PushRetry(t)
    BY <2>2, InvPushLooks DEF PushLookStep
  <2>3. CASE PopNext(t) \/ PopCas(t)
    BY <2>3, InvPopNext, InvPopCas
  <2>4. CASE PushLink(t) \/ PushCas(t)
    BY <2>4, InvPushLink, InvPushCas
  <2>5. CASE BumpAdd(t) \/ BumpSub(t)
    BY <2>5, InvBumpAdd, InvBumpSub
  <2> QED BY <1>3, <2>1, <2>2, <2>3, <2>4, <2>5 DEF Step
<1>4. CASE UNCHANGED vars
  BY <1>4, InvStutter
<1> QED BY <1>1, <1>2, <1>3, <1>4 DEF Next

\* IInv is an invariant of the pools.
THEOREM Invariant == Spec => []IInv
BY InitInv, InvStep, PTL DEF Spec

\* The variables hold what the declarations in the code allow them to; no head
\* ever runs out of versions under the bound of the model.
THEOREM TypeCorrect == Spec => []TypeOK
<1>1. IInv => TypeOK
  BY DEF IInv
<1> QED BY Invariant, <1>1, PTL

\* No interleaving of pushes and pops corrupts a free list: the versions of the
\* heads defeat a handle that left the list and came back in between.
THEOREM ListsStayIntact == Spec => []FreeListIntact
<1>1. IInv => FreeListIntact
  BY DEF IInv
<1> QED BY Invariant, <1>1, PTL

\* However many threads race for the last handles of a split, the top of its
\* stack comes back to its end.
THEOREM StacksSettle == Spec => []StackSettles
<1>1. IInv => StackSettles
  BY DEF IInv
<1> QED BY Invariant, <1>1, PTL

\* The free handles are those never used and those on the lists.
FreeIs == /\ Free \subseteq Handles
          /\ \A h \in Handles : h \in Free <=> ~ Used(h) \/ Listed(h)

\* The invariant says which chunks are free.
LEMMA FreeFacts == IInv => FreeIs
<1> SUFFICES ASSUME IInv PROVE FreeIs
  OBVIOUS
<1>1. TypeOK /\ Places
  BY DEF IInv
<1>2. ASSUME NEW s \in Splits PROVE Elems(list[s]) \subseteq Handles
  BY <1>1, Types DEF SharedTypeOK, Elems
<1>3. Free \subseteq Handles
  BY <1>2 DEF Free, Fresh
<1>4. ASSUME NEW h \in Handles PROVE h \in Free <=> ~ Used(h) \/ Listed(h)
  <2>1. SplitOf(h) \in Splits /\ h \in Nat /\ top[SplitOf(h)] \in Nat
    BY <1>1, SplitOfFacts, Types DEF SharedTypeOK
  <2>2. h \in Fresh(SplitOf(h)) <=> ~ Used(h)
    BY <2>1 DEF Fresh, Used
  <2>3. ASSUME NEW s \in Splits, h \in Elems(list[s]) \cup Fresh(s)
        PROVE s = SplitOf(h)
    BY <1>1, <2>3 DEF Places, Fresh
  <2>4. h \in Free <=> h \in Elems(list[SplitOf(h)]) \cup Fresh(SplitOf(h))
    BY <2>1, <2>3 DEF Free
  <2> QED BY <2>2, <2>4 DEF Listed
<1> QED BY <1>3, <1>4 DEF FreeIs

\* A chunk is never handed out twice, and none gets lost: each is free, given or
\* on its way back, in one place.
THEOREM ChunksInOnePlace == Spec => []EachChunkOnce
<1>1. ASSUME IInv PROVE EachChunkOnce
  <2>0. TypeOK /\ Places /\ FreeIs
    BY <1>1, FreeFacts DEF IInv
  <2>1. \A t \in Threads : Returning(t) \subseteq Handles
    BY <2>0 DEF Places, Returning
  <2>2. \A h \in Handles : Pushed(h) <=> \E t \in Threads : h \in Returning(t)
    BY DEF Pushed, Returning
  <2>3. Handles = Free \cup given \cup UNION {Returning(t) : t \in Threads}
    <3>1. given \subseteq Handles
      BY <2>0, Types DEF SharedTypeOK
    <3> QED BY <2>0, <2>1, <2>2, <3>1 DEF FreeIs, Places
  <2>4. Free \cap given = {}
    BY <2>0 DEF FreeIs, Places
  <2>5. ASSUME NEW s \in Splits
        PROVE /\ NoRepeat(list[s])
              /\ \A h \in Elems(list[s]) : SplitOf(h) = s /\ h \notin Fresh(s)
    <3>1. \A h \in Elems(list[s]) : h \in Handles /\ SplitOf(h) = s
      BY <2>0, Types DEF SharedTypeOK, Elems, Places
    <3>2. ASSUME NEW h \in Elems(list[s]) PROVE h \notin Fresh(s)
      <4>1. Used(h)
        BY <2>0, <3>1 DEF Places, Listed
      <4>2. h \in Nat /\ top[s] \in Nat
        BY <2>0, <3>1, SplitOfFacts, Types DEF SharedTypeOK
      <4> QED BY <3>1, <4>1, <4>2 DEF Used, Fresh
    <3> QED BY <2>0, <3>1, <3>2 DEF Places
  <2>6. ASSUME NEW t \in Threads
        PROVE /\ Returning(t) \cap (Free \cup given) = {}
              /\ \A u \in Threads \ {t} : Returning(t) \cap Returning(u) = {}
    <3>1. Returning(t) \cap (Free \cup given) = {}
      BY <2>0, <2>1, <2>2 DEF FreeIs, Places
    <3>2. \A u \in Threads \ {t} : Returning(t) \cap Returning(u) = {}
      BY <2>0 DEF Places, Returning
    <3> QED BY <3>1, <3>2
  <2> QED BY <2>3, <2>4, <2>5, <2>6 DEF EachChunkOnce
<1> QED BY Invariant, <1>1, PTL

-----------------------------------------------------------------------------
(* The pools implement a store of chunks.                                  *)

\* A step under which the used and the listed handles are the same.
LEMMA FreeKept ==
  ASSUME FreeIs, FreeIs', \A h \in Handles : /\ Used(h)' <=> Used(h)
                                             /\ Listed(h)' <=> Listed(h)
  PROVE Free' = Free
BY DEF FreeIs

\* A thread that pushes what it pushed returns what it returned.
LEMMA ReturningKept ==
  ASSUME NEW t \in Threads, SameRole(t)
  PROVE \A u \in Threads : Returning(u)' = Returning(u)
BY RoleKept DEF Returning

\* Every step of the pools is a step of the store or leaves it alone.
LEMMA StoreStep == IInv /\ IInv' /\ [Next]_vars => [Store!Next]_(Store!vars)
<1> SUFFICES ASSUME IInv, IInv', [Next]_vars PROVE [Store!Next]_(Store!vars)
  OBVIOUS
<1>0. /\ TypeOK /\ Places /\ FreeListIntact /\ StackSettles /\ FreeIs /\ FreeIs'
      /\ LocalTypeOK
  <2>1. FreeIs'
    BY FreeFacts, PTL
  <2> QED BY <2>1, FreeFacts, Types DEF IInv
<1> USE DEF Store!vars, Store!Next
<1>1. ASSUME NEW t \in Threads, LookStep(t) PROVE UNCHANGED Store!vars
  <2>1. Looks(t)
    BY <1>0, <1>1, LookFacts
  <2>2. SameRole(t)
    BY <2>1 DEF Looks, SameRole, PushPcs
  <2>3. Free' = Free
    BY <1>0, <2>1, FreeKept DEF Looks, Used, Listed
  <2> QED BY <2>1, <2>2, <2>3, ReturningKept DEF Looks
<1>2. ASSUME NEW t \in Threads, PushLookStep(t) PROVE UNCHANGED Store!vars
  <2>1. LooksToPush(t)
    BY <1>0, <1>2, PushLookFacts
  <2>2. SameRole(t)
    BY <2>1 DEF LooksToPush, SameRole, PushPcs
  <2>3. Free' = Free
    BY <1>0, <2>1, FreeKept DEF LooksToPush, Used, Listed
  <2> QED BY <2>1, <2>2, <2>3, ReturningKept DEF LooksToPush
<1>3. ASSUME NEW t \in Threads, PopNext(t) \/ PushLink(t) PROVE UNCHANGED Store!vars
  <2>1. UNCHANGED <<top, list, given>> /\ SameRole(t)
    BY <1>0, <1>3 DEF PopNext, PushLink, SameRole, Others, PushPcs, LocalTypeOK
  <2>2. Free' = Free
    BY <1>0, <2>1, FreeKept DEF Used, Listed
  <2> QED BY <2>1, <2>2, ReturningKept
<1>4. ASSUME NEW t \in Threads, PopCas(t) PROVE Store!Next
  <2>0. PICK h, s : h = old[t].next /\ s = split[t]
    OBVIOUS
  <2>1. /\ SeenHead(t) /\ h = old[t].next /\ s = split[t] /\ s \in Splits
        /\ pc[t] = "pop_cas" /\ head[s] = old[t]
        /\ list' = [list EXCEPT ![s] = Tail(@)]
        /\ given' = given \cup {h}
        /\ Forget(t) /\ UNCHANGED top
    BY <1>0, <1>4, <2>0, ThreadFacts DEF IInv, PopCas, Acquire
  <2>2. h # NullLink
    BY <2>1 DEF SeenHead, Reading
  <2>3. /\ list[s] # <<>> /\ list[s] \in Seq(Handles)
        /\ h = list[s][1] /\ h \in Handles /\ Listed(h) /\ SplitOf(h) = s
    BY <1>0, <2>1, <2>2, HeadIsFirst
  <2>4. /\ Elems(list[s]) = Elems(Tail(list[s])) \cup {h}
        /\ h \notin Elems(Tail(list[s]))
    BY <1>0, <2>1, <2>3, TailFacts DEF Places
  <2>5. SameRole(t)
    <3>1. Others(t) /\ pc'[t] = "idle"
      BY <1>0, <2>1, ForgetFacts
    <3> QED BY <2>1, <3>1 DEF SameRole, PushPcs
  <2>6. ASSUME NEW g \in Handles
        PROVE (Used(g)' <=> Used(g)) /\ (Listed(g)' <=> Listed(g) /\ g # h)
    <3>1. SplitOf(g) \in Splits
      BY SplitOfFacts
    <3>2. list'[s] = Tail(list[s]) /\ \A z \in Splits \ {s} : list'[z] = list[z]
      BY <1>0, <2>1, Types DEF SharedTypeOK
    <3>3. CASE SplitOf(g) = s
      BY <2>1, <2>4, <3>2, <3>3 DEF Used, Listed
    <3>4. CASE SplitOf(g) # s
      BY <2>1, <2>3, <3>1, <3>2, <3>4 DEF Used, Listed
    <3> QED BY <3>3, <3>4
  <2>7. Used(h)
    BY <1>0, <2>3 DEF Places
  <2>8. h \in Free /\ Free' = Free \ {h}
    BY <1>0, <2>3, <2>6, <2>7 DEF FreeIs
  <2>9. Store!Give(h)
    BY <2>1, <2>5, <2>8, ReturningKept DEF Store!Give
  <2> QED BY <2>3, <2>9
<1>5. ASSUME NEW t \in Threads, PushCas(t) PROVE Store!Next
  <2>0. PICK h, s : h = mine[t] /\ s = split[t]
    OBVIOUS
  <2>1. /\ h = mine[t] /\ s = split[t] /\ s \in Splits
        /\ pc[t] \in PushPcs
        /\ list' = [list EXCEPT ![s] = <<h>> \o @]
        /\ Forget(t) /\ UNCHANGED <<top, given>>
    BY <1>0, <1>5, <2>0, ThreadFacts DEF PushCas, PushPcs
  <2>2. /\ h \in Handles /\ SplitOf(h) = s /\ list[s] \in Seq(Handles)
    BY <1>0, <2>1, ThreadFacts DEF Places
  <2>3. Pushed(h) /\ Used(h)
    <3>1. Pushed(h)
      BY <2>1 DEF Pushed
    <3> QED BY <1>0, <2>2, <3>1 DEF Places
  <2>4. Elems(<<h>> \o list[s]) = Elems(list[s]) \cup {h}
    BY <2>2, ConsFacts
  <2>5. ASSUME NEW g \in Handles
        PROVE (Used(g)' <=> Used(g)) /\ (Listed(g)' <=> Listed(g) \/ g = h)
    <3>1. SplitOf(g) \in Splits
      BY SplitOfFacts
    <3>2. list'[s] = <<h>> \o list[s] /\ \A z \in Splits \ {s} : list'[z] = list[z]
      BY <1>0, <2>1, Types DEF SharedTypeOK
    <3>3. CASE SplitOf(g) = s
      BY <2>1, <2>4, <3>2, <3>3 DEF Used, Listed
    <3>4. CASE SplitOf(g) # s
      BY <2>1, <2>2, <3>1, <3>2, <3>4 DEF Used, Listed
    <3> QED BY <3>3, <3>4
  <2>6. Free' = Free \cup {h}
    BY <1>0, <2>2, <2>3, <2>5 DEF FreeIs
  <2>7. /\ Returning(t) = {h} /\ Returning(t)' = {}
        /\ \A u \in Threads \ {t} : Returning(u)' = Returning(u)
    <3>1. Others(t) /\ pc'[t] = "idle"
      BY <1>0, <2>1, ForgetFacts
    <3> QED BY <2>1, <3>1 DEF Returning, Others, PushPcs
  <2>8. Store!Return(t)
    BY <2>1, <2>6, <2>7 DEF Store!Return
  <2> QED BY <2>8
<1>6. ASSUME NEW t \in Threads, NEW h \in Handles, StartDeallocate(t, h)
      PROVE Store!Next
  <2>1. /\ pc[t] = "idle" /\ pc'[t] = "push_load" /\ mine'[t] = h
        /\ h \in given /\ given' = given \ {h}
        /\ UNCHANGED <<top, list>> /\ Others(t)
    BY <1>0, <1>6 DEF StartDeallocate, TypeOK, Others
  <2>2. Free' = Free
    BY <1>0, <2>1, FreeKept DEF Used, Listed
  <2>3. /\ Returning(t) = {} /\ Returning(t)' = {h}
        /\ \A u \in Threads \ {t} : Returning(u)' = Returning(u)
    BY <2>1 DEF Returning, Others, PushPcs
  <2>4. Store!StartReturn(t, h)
    BY <2>1, <2>2, <2>3 DEF Store!StartReturn
  <2> QED BY <2>4
<1>7. ASSUME NEW t \in Threads, BumpAdd(t) PROVE [Store!Next]_(Store!vars)
  <2>0. PICK h, s : h = top[s] /\ s = split[t]
    <3>1. \E s : s = split[t]
      OBVIOUS
    <3> QED BY <3>1
  <2>1. /\ h = top[s] /\ s = split[t] /\ s \in Splits /\ h \in Nat
        /\ pc[t] = "bump_add"
        /\ top' = [top EXCEPT ![s] = @ + 1]
        /\ UNCHANGED list
    BY <1>0, <1>7, <2>0, ThreadFacts DEF BumpAdd
  <2>2. /\ FirstHandle(s) \in Nat /\ LastHandle(s) \in Nat /\ FirstHandle(s) <= h
    BY <1>0, <2>1, StackFacts DEF StackSettles
  <2>3. top'[s] = h + 1 /\ \A z \in Splits \ {s} : top'[z] = top[z]
    BY <1>0, <2>1, Types DEF SharedTypeOK
  <2>4. ASSUME NEW g \in Handles, SplitOf(g) # s
        PROVE Used(g)' <=> Used(g)
    <3>1. SplitOf(g) \in Splits
      BY SplitOfFacts
    <3> QED BY <2>3, <2>4, <3>1 DEF Used
  <2>5. \A g \in Handles : Listed(g)' <=> Listed(g)
    BY <2>1 DEF Listed
  <2>6. CASE h < LastHandle(s)
    <3>1. h \in Handles /\ SplitOf(h) = s
      BY <2>1, <2>2, <2>6, SplitFound
    <3>2. given' = given \cup {h} /\ Forget(t)
      BY <1>7, <2>1, <2>6 DEF BumpAdd, Acquire
    <3>3. SameRole(t)
      <4>1. Others(t) /\ pc'[t] = "idle"
        BY <1>0, <3>2, ForgetFacts
      <4> QED BY <2>1, <4>1 DEF SameRole, PushPcs
    <3>4. \A g \in Handles : Used(g)' <=> Used(g) \/ g = h
      <4>1. ASSUME NEW g \in Handles, SplitOf(g) = s
            PROVE Used(g)' <=> Used(g) \/ g = h
        <5>1. g \in Nat
          BY SplitOfFacts
        <5> QED BY <2>1, <2>3, <4>1, <5>1 DEF Used
      <4> QED BY <2>4, <3>1, <4>1
    <3>5. ~ Used(h) /\ ~ Listed(h)
      <4>1. ~ Used(h)
        BY <2>1, <3>1 DEF Used
      <4> QED BY <1>0, <3>1, <4>1 DEF Places
    <3>6. h \in Free /\ Free' = Free \ {h}
      BY <1>0, <2>5, <3>1, <3>4, <3>5 DEF FreeIs
    <3>7. Store!Give(h)
      BY <3>2, <3>3, <3>6, ReturningKept DEF Store!Give
    <3> QED BY <3>1, <3>7
  <2>7. CASE ~ h < LastHandle(s)
    <3>1. pc' = [pc EXCEPT ![t] = "bump_sub"] /\ UNCHANGED <<given, scanVars, casVars, mine>>
      BY <1>7, <2>1, <2>7 DEF BumpAdd
    <3>2. SameRole(t)
      BY <1>0, <2>1, <3>1 DEF SameRole, Others, PushPcs, LocalTypeOK
    <3>3. \A g \in Handles : Used(g)' <=> Used(g)
      <4>1. ASSUME NEW g \in Handles, SplitOf(g) = s PROVE Used(g)' <=> Used(g)
        <5>1. g \in Nat /\ g < LastHandle(s)
          BY <4>1, SplitOfFacts
        <5> QED BY <2>1, <2>2, <2>3, <2>7, <4>1, <5>1 DEF Used
      <4> QED BY <2>4, <4>1
    <3>4. Free' = Free
      BY <1>0, <2>5, <3>3, FreeKept
    <3> QED BY <3>1, <3>2, <3>4, ReturningKept
  <2> QED BY <2>6, <2>7
<1>8. ASSUME NEW t \in Threads, BumpSub(t) PROVE UNCHANGED Store!vars
  <2>0. PICK s : s = split[t]
    OBVIOUS
  <2>1. /\ s = split[t] /\ s \in Splits /\ t \in Overshooters(s)
        /\ pc[t] = "bump_sub"
        /\ top' = [top EXCEPT ![s] = @ - 1]
        /\ LeaveSplit(t, FALSE) /\ UNCHANGED <<list, given>>
    BY <1>0, <1>8, <2>0, ThreadFacts DEF BumpSub, Overshooters
  <2>2. SameRole(t)
    <3>1. Others(t) /\ pc'[t] \in {"idle", "pop_load"}
      BY <1>0, <2>1, LeaveFacts
    <3> QED BY <2>1, <3>1 DEF SameRole, PushPcs
  <2>3. /\ LastHandle(s) \in Nat /\ top[s] \in Nat
        /\ top'[s] = top[s] - 1 /\ top[s] - 1 >= LastHandle(s)
        /\ \A z \in Splits \ {s} : top'[z] = top[z]
    <3>1. /\ Cardinality(Overshooters(s)) \in Nat /\ Cardinality(Overshooters(s)) >= 1
          /\ LastHandle(s) \in Nat
          /\ top[s] = LastHandle(s) + Cardinality(Overshooters(s))
      BY <1>0, <2>1, StackFacts, CountFacts DEF StackSettles
    <3>2. top[s] - 1 >= LastHandle(s) /\ top[s] \in Nat
      BY <3>1
    <3> QED BY <1>0, <2>1, <3>1, <3>2, Types DEF SharedTypeOK
  <2>4. ASSUME NEW g \in Handles PROVE Used(g)' <=> Used(g)
    <3>1. SplitOf(g) \in Splits /\ g \in Nat /\ g < LastHandle(SplitOf(g))
      BY SplitOfFacts
    <3>2. CASE SplitOf(g) = s
      BY <2>3, <3>1, <3>2 DEF Used
    <3>3. CASE SplitOf(g) # s
      BY <2>3, <3>1, <3>3 DEF Used
    <3> QED BY <3>2, <3>3
  <2>5. Free' = Free
    BY <1>0, <2>1, <2>4, FreeKept DEF Listed
  <2> QED BY <2>1, <2>2, <2>5, ReturningKept
<1>9. CASE UNCHANGED vars
  <2>1. Free' = Free
    BY <1>0, <1>9, FreeKept DEF Used, Listed
  <2> QED BY <1>9, <2>1 DEF Returning
<1> QED BY <1>1, <1>2, <1>3, <1>4, <1>5, <1>6, <1>7, <1>8, <1>9
        DEF Next, Step, LookStep, PushLookStep

\* The pools implement a store of chunks: every chunk handed out was free, and
\* every chunk given back gets free again.
THEOREM Implements == Spec => ImplementsStore
<1>1. Init => Store!Init
  <2> SUFFICES ASSUME Init PROVE Store!Init
    OBVIOUS
  <2>1. IInv
    BY InitInv
  <2>2. Free = Handles
    <3>1. \A h \in Handles : ~ Used(h)
      <4>1. \A h \in Handles : /\ SplitOf(h) \in Splits /\ h \in Nat
                               /\ FirstHandle(SplitOf(h)) <= h
        BY SplitOfFacts
      <4>2. \A s \in Splits : FirstHandle(s) \in Nat
        BY SplitFacts
      <4> QED BY <4>1, <4>2 DEF Init, Used
    <3> QED BY <2>1, <3>1, FreeFacts DEF FreeIs
  <2> QED BY <2>2 DEF Init, Store!Init, Returning, PushPcs
<1> QED BY <1>1, StoreStep, Invariant, PTL DEF Spec, ImplementsStore, Store!Spec

-----------------------------------------------------------------------------
(* Versions.                                                               *)

\* A head that changes gets a version it never had.
THEOREM NoVersionTwice == Spec => VersionsRise
<1>1. ASSUME IInv, [Next]_vars, NEW s \in Splits, head'[s] # head[s]
      PROVE  head'[s].version > head[s].version
  <2>1. PICK t \in Threads : PopCas(t) \/ PushCas(t)
    BY <1>1 DEF Next, Step, StartAllocate, StartDeallocate, PopLoad, PopNext, PopRetry,
                BumpLoad, BumpAdd, BumpSub, PushLoad, PushLink, PushRetry
  <2>2. /\ TypeOK /\ Places /\ FreeListIntact /\ Budget(s) /\ s = split[t]
        /\ SeenHead(t) /\ old[t] = head[s] /\ head[s] \in HeadType
        /\ head' = [head EXCEPT ![s] = Bumped(old[t], IF PopCas(t) THEN link[t] ELSE mine[t])]
    <3>1. TypeOK /\ head \in [Splits -> HeadType]
      BY <1>1, Types DEF IInv, SharedTypeOK
    <3>2. s = split[t] /\ old[t] = head[s]
      BY <1>1, <2>1, <3>1 DEF PopCas, PushCas
    <3>3. PopCas(t) => ~ PushCas(t)
      BY DEF PopCas, PushCas
    <3> QED BY <1>1, <2>1, <3>1, <3>2, <3>3 DEF IInv, PopCas, PushCas
  <2>3. head[s].version + 1 < VersionLimit
    <3>1. CASE PopCas(t)
      <4>1. head[s].next # NullLink
        BY <2>2, <3>1 DEF PopCas, SeenHead, Reading
      <4>2. list[s] # <<>> /\ list[s] \in Seq(Handles)
        BY <2>2, <4>1, HeadIsFirst
      <4>3. Len(list[s]) >= 1
        BY <4>2, EmptyFacts
      <4> QED BY <2>2, <4>3, BudgetFacts
    <3>2. CASE PushCas(t)
      <4>1. t \in Pushers(s)
        BY <2>2, <3>2 DEF Pushers, PushCas, PushPcs
      <4>2. Cardinality(Pushers(s)) >= 1
        BY <2>2, <4>1, BudgetFacts
      <4> QED BY <2>2, <4>2, BudgetFacts
    <3> QED BY <2>1, <3>1, <3>2
  <2>4. link[t] \in Links /\ mine[t] \in Links
    BY <2>2, Types DEF LocalTypeOK
  <2>5. \A p \in Links : Bumped(head[s], p).version = head[s].version + 1
    BY <2>2, <2>3, HeadFacts
  <2>6. head'[s].version = head[s].version + 1 /\ head[s].version \in Nat
    <3>1. head'[s] = Bumped(head[s], IF PopCas(t) THEN link[t] ELSE mine[t])
      BY <2>2, Types DEF SharedTypeOK
    <3> QED BY <2>2, <2>4, <2>5, <3>1, HeadFacts
  <2> QED BY <2>6
<1>2. ASSUME IInv, [Next]_vars
      PROVE  [\A s \in Splits : head'[s] # head[s] => head'[s].version > head[s].version]_vars
  BY <1>1, <1>2
<1> QED BY <1>2, Invariant, PTL DEF Spec, VersionsRise

-----------------------------------------------------------------------------
(* A thread that is left alone.                                            *)

\* A split whose list and stack hold nothing.
Dry(s) == list[s] = <<>> /\ top[s] >= LastHandle(s)

\* The split n steps after s, n below NumSplits.
Around(s, n) == IF s + n < NumSplits THEN s + n ELSE s + n - NumSplits

\* What t has found in its round so far, if it is alone.
AloneFound(t) ==
  /\ t \in Threads
  /\ pc[t] \in PopPcs \cup {"bump_load", "bump_add"}
  /\ split[t] = Around(start[t], k[t])
  /\ Attempts # 0 => ~ failed[t]
  /\ ~ failed[t] => \A j \in 0 .. k[t] - 1 : Dry(Around(start[t], j))
  /\ pc[t] \in Reading => old[t] = head[split[t]]
  /\ pc[t] \in {"bump_load", "bump_add"} => list[split[t]] = <<>>
  /\ pc[t] = "bump_add" => top[split[t]] < LastHandle(split[t])

AloneInv == \A t \in alone : AloneFound(t)

\* Where NextSplit leads.
LEMMA NextSplitIs ==
  ASSUME NEW s \in Splits
  PROVE  /\ NextSplit(s, 0) = s
         /\ NextSplit(s, 1) = IF s + 1 < NumSplits THEN s + 1 ELSE 0
<1>1. s \in Nat /\ NumSplits \in Nat /\ NumSplits > 0 /\ s < NumSplits
  BY SizeAssumption DEF Splits
<1>2. s % NumSplits = s
  BY <1>1, Z3
<1>3. CASE s + 1 < NumSplits
  <2>1. (s + 1) % NumSplits = s + 1
    BY <1>1, <1>3, Z3
  <2> QED BY <1>1, <1>2, <1>3, <2>1 DEF NextSplit
<1>4. CASE s + 1 = NumSplits
  <2>1. NumSplits % NumSplits = 0
    BY <1>1, Z3
  <2> QED BY <1>1, <1>2, <1>4, <2>1 DEF NextSplit
<1> QED BY <1>1, <1>3, <1>4

\* A round goes from split to split.
LEMMA AroundFacts ==
  ASSUME NEW s \in Splits
  PROVE  /\ Around(s, 0) = s
         /\ \A n \in Splits : /\ Around(s, n) \in Splits
                              /\ n + 1 < NumSplits =>
                                   NextSplit(Around(s, n), 1) = Around(s, n + 1)
         /\ \A r \in Splits : \E n \in Splits : Around(s, n) = r
<1>1. s \in Nat /\ NumSplits \in Nat /\ NumSplits > 0 /\ s < NumSplits
  BY SizeAssumption DEF Splits
<1>2. Around(s, 0) = s
  BY <1>1 DEF Around
<1>3. ASSUME NEW n \in Splits
      PROVE  Around(s, n) \in Splits
  BY <1>1 DEF Around, Splits
<1>4. ASSUME NEW n \in Splits, n + 1 < NumSplits
      PROVE  NextSplit(Around(s, n), 1) = Around(s, n + 1)
  <2>1. NextSplit(Around(s, n), 1) = IF Around(s, n) + 1 < NumSplits THEN Around(s, n) + 1 ELSE 0
    BY <1>3, NextSplitIs
  <2> QED BY <1>1, <1>4, <2>1 DEF Around, Splits
<1>5. ASSUME NEW r \in Splits
      PROVE  \E n \in Splits : Around(s, n) = r
  <2>1. CASE r >= s
    <3>1. r - s \in Splits /\ Around(s, r - s) = r
      BY <1>1, <2>1 DEF Around, Splits
    <3> QED BY <3>1
  <2>2. CASE r < s
    <3>1. r - s + NumSplits \in Splits /\ Around(s, r - s + NumSplits) = r
      BY <1>1, <2>2 DEF Around, Splits
    <3> QED BY <3>1
  <2> QED BY <1>1, <2>1, <2>2 DEF Splits
<1> QED BY <1>2, <1>3, <1>4, <1>5

\* What leaving a split does to the round of t: it goes on, or the call ends, or
\* another round starts.
GoesOn(t, f) ==
  /\ k[t] + 1 < NumSplits /\ k'[t] = k[t] + 1
  /\ split'[t] = NextSplit(split[t], 1) /\ start'[t] = start[t]
  /\ failed'[t] = (failed[t] \/ f) /\ rounds'[t] = rounds[t]
  /\ pc'[t] = "pop_load"

RoundIsOver(t, f) ==
  /\ ~ k[t] + 1 < NumSplits
  /\ rounds'[t] = RoundsLeft(rounds[t], failed[t] \/ f)
  /\ \/ pc'[t] = "idle"
     \/ /\ pc'[t] = "pop_load" /\ k'[t] = 0 /\ ~ failed'[t]
        /\ start'[t] = start[t] /\ split'[t] = NextSplit(start[t], 0)

\* Which of the two it is; the rounds of the others stay as they are.
LEMMA LeaveCases ==
  ASSUME LocalTypeOK, NEW t \in Threads, NEW f \in BOOLEAN, LeaveSplit(t, f)
  PROVE  /\ GoesOn(t, f) \/ RoundIsOver(t, f)
         /\ \A u \in Threads \ {t} : rounds'[u] = rounds[u]
<1> DEFINE left == RoundsLeft(rounds[t], failed[t] \/ f)
<1>1. CASE k[t] + 1 < NumSplits
  <2>1. /\ k' = [k EXCEPT ![t] = @ + 1]
        /\ split' = [split EXCEPT ![t] = NextSplit(@, 1)]
        /\ failed' = [failed EXCEPT ![t] = failed[t] \/ f]
        /\ pc' = [pc EXCEPT ![t] = "pop_load"]
        /\ UNCHANGED <<rounds, start, mine>>
    BY <1>1 DEF LeaveSplit
  <2> QED BY <1>1, <2>1 DEF LocalTypeOK, GoesOn
<1>2. CASE ~ k[t] + 1 < NumSplits /\ left = 0
  <2>1. Forget(t)
    BY <1>2 DEF LeaveSplit
  <2>2. pc'[t] = "idle" /\ rounds' = [rounds EXCEPT ![t] = 0]
    BY <2>1 DEF Forget, LocalTypeOK
  <2> QED BY <1>2, <2>2 DEF LocalTypeOK, RoundIsOver
<1>3. CASE ~ k[t] + 1 < NumSplits /\ left # 0
  <2>1. /\ rounds' = [rounds EXCEPT ![t] = left]
        /\ k' = [k EXCEPT ![t] = 0]
        /\ split' = [split EXCEPT ![t] = NextSplit(start[t], 0)]
        /\ failed' = [failed EXCEPT ![t] = FALSE]
        /\ pc' = [pc EXCEPT ![t] = "pop_load"]
        /\ UNCHANGED <<start, mine>>
    BY <1>3 DEF LeaveSplit
  <2> HIDE DEF left
  <2>2. /\ rounds'[t] = left /\ \A u \in Threads \ {t} : rounds'[u] = rounds[u]
        /\ k'[t] = 0 /\ split'[t] = NextSplit(start[t], 0) /\ ~ failed'[t]
        /\ pc'[t] = "pop_load" /\ start'[t] = start[t]
    BY <2>1 DEF LocalTypeOK
  <2> QED BY <1>3, <2>2 DEF RoundIsOver, left
<1> QED BY <1>1, <1>2, <1>3

\* What a look at a list does.
Enters(t, hd) ==
  /\ pc'[t] = IF hd.next = NullLink THEN "bump_load" ELSE "pop_next"
  /\ hd.next # NullLink => old'[t] = hd
  /\ UNCHANGED scanVars

\* Without attempts left a look leaves the split, else it enters the list or goes on
\* to the stack.
LEMMA LookCases ==
  ASSUME LocalTypeOK, NEW t \in Threads, NEW hd \in HeadType, NEW left \in Int,
         LookAt(t, hd, left)
  PROVE  /\ IF left = 0 THEN LeaveSplit(t, TRUE) ELSE Enters(t, hd)
         /\ \A u \in Threads \ {t} : rounds'[u] = rounds[u]
<1>1. CASE left = 0
  <2>1. LeaveSplit(t, TRUE)
    BY <1>1 DEF LookAt
  <2> QED BY <1>1, <2>1, LeaveCases
<1>2. CASE left # 0 /\ hd.next = NullLink
  BY <1>2 DEF LookAt, LocalTypeOK, Enters
<1>3. CASE left # 0 /\ hd.next # NullLink
  BY <1>3 DEF LookAt, LocalTypeOK, Enters
<1> QED BY <1>1, <1>2, <1>3

\* What t, when it is alone, does in a step: it goes on in its split, leaves it when it
\* was dry, gives it up when it may not try, or has a chunk.
AloneDoes(t) ==
  \/ /\ UNCHANGED <<sharedVars, given>>
     /\ UNCHANGED scanVars
     /\ \/ /\ pc[t] = "pop_load" /\ pc'[t] = "pop_next"
           /\ old'[t] = head[split[t]]
        \/ /\ pc[t] = "pop_next" /\ pc'[t] = "pop_cas"
           /\ old'[t] = old[t]
        \/ /\ pc[t] = "pop_load" /\ pc'[t] = "bump_load"
           /\ list[split[t]] = <<>>
        \/ /\ pc[t] = "bump_load" /\ pc'[t] = "bump_add"
           /\ top[split[t]] < LastHandle(split[t])
  \/ /\ UNCHANGED <<sharedVars, given>>
     /\ \E f \in BOOLEAN :
          /\ GoesOn(t, f) \/ RoundIsOver(t, f)
          /\ IF f THEN Attempts = 0 /\ pc[t] = "pop_load"
                  ELSE Dry(split[t]) /\ pc[t] = "bump_load"
  \/ pc'[t] = "idle" /\ given' # given

\* A thread that is alone finds each word as it left it, so no CAS of its fails and
\* its fetch_add stays below the end.
LEMMA AloneStep ==
  ASSUME IInv, AloneInv, NEW t \in alone, Step(t)
  PROVE  /\ AloneDoes(t)
         /\ \A u \in Threads \ {t} : rounds'[u] = rounds[u]
<1>1. /\ TypeOK /\ LocalTypeOK /\ SharedTypeOK /\ Places /\ FreeListIntact /\ SeenHead(t)
      /\ t \in Threads /\ split[t] \in Splits /\ head[split[t]] \in HeadType
      /\ Attempts \in Int
  BY Types, ParamAssumption DEF IInv, AloneInv, AloneFound, LocalTypeOK, SharedTypeOK
<1>2. /\ pc[t] \in PopPcs \cup {"bump_load", "bump_add"}
      /\ pc[t] \in Reading => old[t] = head[split[t]]
      /\ pc[t] \in {"bump_load", "bump_add"} => list[split[t]] = <<>>
      /\ pc[t] = "bump_add" => top[split[t]] < LastHandle(split[t])
  BY DEF AloneInv, AloneFound
<1>3. CASE PopLoad(t)
  <2>1. /\ LookAt(t, head[split[t]], Attempts)
        /\ pc[t] = "pop_load" /\ UNCHANGED <<sharedVars, given>>
    BY <1>3 DEF PopLoad
  <2>2. /\ IF Attempts = 0 THEN LeaveSplit(t, TRUE) ELSE Enters(t, head[split[t]])
        /\ \A u \in Threads \ {t} : rounds'[u] = rounds[u]
    BY <1>1, <2>1, LookCases
  <2>3. CASE Attempts = 0
    <3>1. GoesOn(t, TRUE) \/ RoundIsOver(t, TRUE)
      BY <1>1, <2>2, <2>3, LeaveCases
    <3> QED BY <2>1, <2>2, <2>3, <3>1 DEF AloneDoes
  <2>4. CASE Attempts # 0
    <3>1. head[split[t]].next = NullLink => list[split[t]] = <<>>
      <4>1. list[split[t]] # <<>> => list[split[t]][1] \in Handles
        BY <1>1, TailFacts DEF SharedTypeOK
      <4>2. NullLink \notin Handles
        BY NullAssumption DEF Handles
      <4> QED BY <1>1, <4>1, <4>2 DEF FreeListIntact
    <3> QED BY <2>1, <2>2, <2>4, <3>1 DEF AloneDoes, Enters
  <2> QED BY <2>3, <2>4
<1>4. CASE PopNext(t)
  <2>1. /\ UNCHANGED <<sharedVars, given>>
        /\ UNCHANGED scanVars
        /\ pc[t] = "pop_next" /\ pc'[t] = "pop_cas"
        /\ old'[t] = old[t]
    BY <1>1, <1>4 DEF PopNext, LocalTypeOK
  <2>2. \A u \in Threads \ {t} : rounds'[u] = rounds[u]
    BY <2>1 DEF scanVars
  <2> QED BY <2>1, <2>2 DEF AloneDoes
<1>5. CASE PopCas(t)
  <2>1. /\ pc[t] = "pop_cas" /\ head[split[t]] = old[t]
        /\ given' = given \cup {old[t].next} /\ Forget(t)
    BY <1>5 DEF PopCas, Acquire
  <2>2. old[t].next # NullLink
    BY <1>1, <2>1 DEF SeenHead, Reading
  <2>3. old[t].next \in Handles /\ Listed(old[t].next)
    BY <1>1, <2>1, <2>2, HeadIsFirst
  <2>4. old[t].next \notin given
    BY <1>1, <2>3 DEF Places
  <2>5. pc'[t] = "idle" /\ \A u \in Threads \ {t} : rounds'[u] = rounds[u]
    BY <1>1, <2>1 DEF Forget, LocalTypeOK
  <2> QED BY <2>1, <2>4, <2>5 DEF AloneDoes
<1>6. CASE PopRetry(t)
  BY <1>2, <1>6 DEF PopRetry, Reading
<1>7. CASE BumpLoad(t)
  <2>1. pc[t] = "bump_load" /\ UNCHANGED <<sharedVars, given>>
    BY <1>7 DEF BumpLoad
  <2>2. CASE top[split[t]] >= LastHandle(split[t])
    <3>1. LeaveSplit(t, FALSE)
      BY <1>7, <2>2 DEF BumpLoad
    <3>2. /\ GoesOn(t, FALSE) \/ RoundIsOver(t, FALSE)
          /\ \A u \in Threads \ {t} : rounds'[u] = rounds[u]
      BY <1>1, <3>1, LeaveCases
    <3>3. Dry(split[t])
      BY <1>2, <2>1, <2>2 DEF Dry
    <3> QED BY <2>1, <3>2, <3>3 DEF AloneDoes
  <2>3. CASE ~ top[split[t]] >= LastHandle(split[t])
    <3>1. top[split[t]] < LastHandle(split[t])
      BY <1>1, <2>3, SplitFacts DEF SharedTypeOK
    <3> QED BY <1>1, <1>7, <2>1, <2>3, <3>1 DEF BumpLoad, AloneDoes, LocalTypeOK
  <2> QED BY <2>2, <2>3
<1>8. CASE BumpAdd(t)
  <2>0. PICK h, s : h = top[s] /\ s = split[t]
    <3>1. \E s : s = split[t]
      OBVIOUS
    <3> QED BY <3>1
  <2>1. /\ pc[t] = "bump_add" /\ s \in Splits /\ h < LastHandle(s)
        /\ given' = given \cup {h} /\ Forget(t)
    BY <1>1, <1>2, <1>8, <2>0 DEF BumpAdd, Acquire
  <2>2. h \in Nat /\ FirstHandle(s) <= h
    BY <1>1, <2>0, <2>1, StackFacts DEF IInv, StackSettles
  <2>3. h \in Handles /\ SplitOf(h) = s
    BY <2>1, <2>2, SplitFound
  <2>4. ~ Used(h)
    BY <2>0, <2>2, <2>3 DEF Used
  <2>5. h \notin given
    BY <1>1, <2>3, <2>4 DEF Places
  <2>6. pc'[t] = "idle" /\ \A u \in Threads \ {t} : rounds'[u] = rounds[u]
    BY <1>1, <2>1 DEF Forget, LocalTypeOK
  <2> QED BY <2>1, <2>5, <2>6 DEF AloneDoes
<1>9. CASE BumpSub(t) \/ PushLoad(t) \/ PushLink(t) \/ PushCas(t) \/ PushRetry(t)
  BY <1>2, <1>9 DEF BumpSub, PushLoad, PushLink, PushCas, PushRetry, PopPcs
<1> QED BY <1>3, <1>4, <1>5, <1>6, <1>7, <1>8, <1>9 DEF Step

\* A step leaves the rounds of the other threads as they are.
LEMMA RoundsOfOthers ==
  ASSUME LocalTypeOK, SharedTypeOK, NEW u \in Threads, Move(u), NEW t \in Threads, t # u
  PROVE  rounds'[t] = rounds[t]
<1>1. /\ head[split[u]] \in HeadType /\ Attempts \in Int
      /\ (IF attempts[u] > 0 THEN attempts[u] - 1 ELSE attempts[u]) \in Int
  BY ParamAssumption DEF LocalTypeOK, SharedTypeOK
<1>2. CASE PopLoad(u) \/ PopRetry(u)
  BY <1>1, <1>2, LookCases DEF PopLoad, PopRetry
<1>3. CASE BumpSub(u)
  BY <1>3, LeaveCases DEF BumpSub
<1>4. CASE BumpLoad(u)
  <2>1. CASE LeaveSplit(u, FALSE)
    BY <2>1, LeaveCases
  <2>2. CASE UNCHANGED scanVars
    BY <2>2 DEF scanVars
  <2> QED BY <1>4, <2>1, <2>2 DEF BumpLoad
<1>5. CASE \E s \in Splits : StartAllocate(u, s)
  BY <1>5 DEF StartAllocate, LocalTypeOK
<1>6. CASE \E h \in Handles : StartDeallocate(u, h)
  BY <1>6 DEF StartDeallocate
<1>7. CASE PopCas(u) \/ PushCas(u)
  BY <1>7 DEF PopCas, PushCas, Acquire, Forget, LocalTypeOK
<1>8. CASE BumpAdd(u)
  BY <1>8 DEF BumpAdd, Acquire, Forget, scanVars, LocalTypeOK
<1>9. CASE PopNext(u) \/ PushLoad(u) \/ PushLink(u) \/ PushRetry(u)
  BY <1>9 DEF PopNext, PushLoad, PushLink, PushRetry, scanVars
<1> QED BY <1>2, <1>3, <1>4, <1>5, <1>6, <1>7, <1>8, <1>9 DEF Move, Step

\* A round starts in the split the call starts from, with nothing given up.
LEMMA RoundStartsClean ==
  ASSUME LocalTypeOK, SharedTypeOK, NEW t \in Threads, Move(t), RoundStarts(t)
  PROVE  split'[t] = start'[t] /\ ~ failed'[t]
<1>1. /\ pc'[t] = "pop_load" /\ k'[t] = 0 /\ start[t] \in Splits /\ k[t] \in Nat
      /\ Attempts \in Int
  BY SizeAssumption, ParamAssumption DEF RoundStarts, LocalTypeOK, Splits
<1>2. ASSUME NEW f \in BOOLEAN, LeaveSplit(t, f)
      PROVE  split'[t] = start'[t] /\ ~ failed'[t]
  <2>1. GoesOn(t, f) \/ RoundIsOver(t, f)
    BY <1>2, LeaveCases
  <2>2. ~ GoesOn(t, f)
    BY <1>1 DEF GoesOn
  <2> QED BY <1>1, <2>1, <2>2, NextSplitIs DEF RoundIsOver
<1>3. ASSUME NEW left \in Int, LookAt(t, head[split[t]], left)
      PROVE  split'[t] = start'[t] /\ ~ failed'[t]
  <2>1. head[split[t]] \in HeadType
    BY DEF LocalTypeOK, SharedTypeOK
  <2>2. IF left = 0 THEN LeaveSplit(t, TRUE) ELSE Enters(t, head[split[t]])
    BY <1>3, <2>1, LookCases
  <2>3. ~ Enters(t, head[split[t]])
    BY <1>1 DEF Enters
  <2> QED BY <1>2, <2>2, <2>3
<1>4. CASE \E s \in Splits : StartAllocate(t, s)
  BY <1>4, NextSplitIs DEF StartAllocate, LocalTypeOK
<1>5. CASE PopLoad(t)
  BY <1>1, <1>3, <1>5 DEF PopLoad
<1>6. CASE PopRetry(t)
  <2>1. (IF attempts[t] > 0 THEN attempts[t] - 1 ELSE attempts[t]) \in Int
    BY DEF LocalTypeOK
  <2> QED BY <1>3, <1>6, <2>1 DEF PopRetry
<1>7. CASE BumpLoad(t)
  <2>1. pc' = [pc EXCEPT ![t] = "bump_add"] => pc'[t] = "bump_add"
    BY DEF LocalTypeOK
  <2> QED BY <1>1, <1>2, <1>7, <2>1 DEF BumpLoad
<1>8. CASE BumpSub(t)
  BY <1>2, <1>8 DEF BumpSub
<1>9. CASE PopCas(t) \/ PushCas(t) \/ BumpAdd(t)
  BY <1>1, <1>9 DEF PopCas, PushCas, BumpAdd, Acquire, Forget, LocalTypeOK
<1>10. CASE \/ PopNext(t) \/ PushLoad(t) \/ PushLink(t) \/ PushRetry(t)
            \/ \E h \in Handles : StartDeallocate(t, h)
  BY <1>1, <1>10 DEF PopNext, PushLoad, PushLink, PushRetry, StartDeallocate, LocalTypeOK
<1> QED BY <1>4, <1>5, <1>6, <1>7, <1>8, <1>9, <1>10 DEF Move, Step

\* A thread in the middle of an allocation can only go on with it.
LEMMA AllocatingSteps ==
  ASSUME NEW t \in Threads, Move(t), Allocating(t)
  PROVE  Step(t)
BY DEF Move, Allocating, PopPcs, BumpPcs, StartAllocate, StartDeallocate

\* A thread that is alone after a step has found what AloneInv says: at the start of
\* a round nothing, and then split after split.
LEMMA AloneKept == IInv /\ IInv' /\ AloneInv /\ [RoundsNext]_roundVars => AloneInv'
<1> SUFFICES ASSUME IInv, IInv', AloneInv, [RoundsNext]_roundVars PROVE AloneInv'
  OBVIOUS
<1>1. CASE UNCHANGED roundVars
  BY <1>1 DEF roundVars, vars, sharedVars, scanVars, casVars, AloneInv, AloneFound, Dry
<1>2. ASSUME NEW t \in Threads, Move(t),
             alone' = {u \in {t} : Allocating(u)' /\ (RoundStarts(u) \/ u \in alone)}
      PROVE  AloneInv'
  <2> SUFFICES ASSUME t \in alone' PROVE AloneFound(t)'
    BY <1>2 DEF AloneInv, AloneFound
  <2>1. Allocating(t)' /\ (RoundStarts(t) \/ t \in alone)
    BY <1>2
  <2>2. LocalTypeOK /\ SharedTypeOK /\ LocalTypeOK' /\ SharedTypeOK'
    BY Types DEF IInv
  <2>3. CASE RoundStarts(t)
    <3>1. /\ split'[t] = start'[t] /\ ~ failed'[t]
          /\ pc'[t] = "pop_load" /\ k'[t] = 0 /\ start'[t] \in Splits
      BY <1>2, <2>2, <2>3, RoundStartsClean DEF RoundStarts, LocalTypeOK
    <3>2. Around(start'[t], 0) = start'[t]
      BY <3>1, AroundFacts
    <3> QED BY <3>1, <3>2 DEF AloneFound, PopPcs, Reading
  <2>4. CASE t \in alone /\ ~ RoundStarts(t)
    <3>1. AloneFound(t) /\ Step(t)
      BY <1>2, <2>4, AllocatingSteps DEF AloneInv, AloneFound, Allocating, BumpPcs
    <3>2. AloneDoes(t)
      BY <2>4, <3>1, AloneStep
    <3>3. pc'[t] # "idle"
      BY <2>1 DEF Allocating, PopPcs, BumpPcs
    <3>4. /\ start[t] \in Splits /\ k[t] \in Splits /\ split[t] \in Splits
          /\ k[t] \in Nat
      BY <2>2 DEF LocalTypeOK, Splits
    <3>5. CASE UNCHANGED <<sharedVars, given>> /\ UNCHANGED scanVars
      <4>1. \/ pc'[t] = "pop_next" /\ old'[t] = head[split[t]]
            \/ pc[t] = "pop_next" /\ pc'[t] = "pop_cas" /\ old'[t] = old[t]
            \/ pc'[t] = "bump_load" /\ list[split[t]] = <<>>
            \/ pc[t] = "bump_load" /\ pc'[t] = "bump_add" /\ top[split[t]] < LastHandle(split[t])
            \/ ~ UNCHANGED scanVars
            \/ pc'[t] = "pop_load"
        BY <3>2, <3>3, <3>5 DEF AloneDoes, GoesOn, RoundIsOver
      <4>2. pc'[t] # "pop_load"
        BY <3>2, <3>3, <3>4, <3>5, <2>4, SizeAssumption
           DEF AloneDoes, GoesOn, RoundIsOver, RoundStarts, scanVars
      <4>3. /\ split' = split /\ start' = start /\ k' = k /\ failed' = failed
            /\ head' = head /\ list' = list /\ top' = top
        BY <3>5 DEF scanVars, sharedVars
      <4>4. pc'[t] \in PopPcs \cup {"bump_load", "bump_add"}
        BY <4>1, <4>2, <3>5 DEF PopPcs
      <4>5. (~ failed[t] => \A j \in 0 .. k[t] - 1 : Dry(Around(start[t], j)))'
        BY <3>1, <4>3 DEF AloneFound, Dry, Around
      <4>6. (split[t] = Around(start[t], k[t]) /\ (Attempts # 0 => ~ failed[t]))'
        BY <3>1, <4>3 DEF AloneFound, Around
      <4>7. (/\ pc[t] \in Reading => old[t] = head[split[t]]
             /\ pc[t] \in {"bump_load", "bump_add"} => list[split[t]] = <<>>
             /\ pc[t] = "bump_add" => top[split[t]] < LastHandle(split[t]))'
        BY <3>1, <3>5, <4>1, <4>2, <4>3 DEF AloneFound, Reading
      <4> QED BY <3>1, <4>4, <4>5, <4>6, <4>7 DEF AloneFound
    <3>6. CASE UNCHANGED <<sharedVars, given>> /\ ~ UNCHANGED scanVars
      <4>1. PICK f \in BOOLEAN :
              /\ GoesOn(t, f) \/ RoundIsOver(t, f)
              /\ IF f THEN Attempts = 0 /\ pc[t] = "pop_load"
                      ELSE Dry(split[t]) /\ pc[t] = "bump_load"
        BY <3>2, <3>3, <3>6 DEF AloneDoes
      <4>2. GoesOn(t, f)
        BY <2>4, <3>3, <4>1 DEF RoundIsOver, RoundStarts
      <4>3. /\ k[t] + 1 < NumSplits /\ k'[t] = k[t] + 1 /\ start'[t] = start[t]
            /\ split'[t] = NextSplit(split[t], 1) /\ pc'[t] = "pop_load"
            /\ failed'[t] = (failed[t] \/ f)
            /\ list' = list /\ top' = top
        BY <3>6, <4>2 DEF GoesOn, sharedVars
      <4>4. (split[t] = Around(start[t], k[t]))'
        <5>1. NextSplit(Around(start[t], k[t]), 1) = Around(start[t], k[t] + 1)
          BY <3>4, <4>3, AroundFacts
        <5>2. split'[t] = Around(start[t], k[t] + 1)
          BY <3>1, <4>3, <5>1 DEF AloneFound
        <5> QED BY <4>3, <5>2 DEF Around
      <4>5. Attempts # 0 => ~ failed'[t]
        BY <3>1, <4>1, <4>3 DEF AloneFound
      <4>6. ASSUME ~ failed'[t], NEW j \in 0 .. k'[t] - 1
            PROVE  Dry(Around(start[t], j))'
        <5>1. ~ failed[t] /\ ~ f
          BY <4>3, <4>6
        <5>2. Dry(Around(start[t], j))
          <6>1. j \in 0 .. k[t] - 1 \/ j = k[t]
            BY <3>4, <4>3
          <6> QED BY <3>1, <4>1, <5>1, <6>1 DEF AloneFound
        <5> QED BY <4>3, <5>2 DEF Dry, Around
      <4>7. (~ failed[t] => \A j \in 0 .. k[t] - 1 : Dry(Around(start[t], j)))'
        BY <4>6
      <4>8. pc'[t] \notin Reading \cup {"bump_load", "bump_add"} /\ pc'[t] \in PopPcs
        BY <4>3 DEF Reading, PopPcs
      <4> QED BY <3>1, <4>4, <4>5, <4>7, <4>8 DEF AloneFound
    <3> QED BY <3>2, <3>3, <3>5, <3>6 DEF AloneDoes
  <2> QED BY <2>1, <2>3, <2>4
<1> QED BY <1>1, <1>2 DEF RoundsNext

\* The invariants hold in every state of the rounds.
LEMMA RoundsInvariant == RoundsSpec => [](IInv /\ AloneInv)
<1>1. RoundsInit => IInv /\ AloneInv
  BY InitInv DEF RoundsInit, AloneInv
<1>2. [RoundsNext]_roundVars => [Next]_vars
  BY DEF RoundsNext, roundVars, Move, Next
<1>3. IInv /\ AloneInv /\ [RoundsNext]_roundVars => (IInv /\ AloneInv)'
  BY <1>2, InvStep, AloneKept
<1> QED BY <1>1, <1>3, PTL DEF RoundsSpec

\* When every split is dry no chunk is free.
LEMMA DryIsEmpty ==
  ASSUME SharedTypeOK, \A s \in Splits : Dry(s)
  PROVE  Free = {}
<1>1. ASSUME NEW s \in Splits PROVE Elems(list[s]) \cup Fresh(s) = {}
  <2>1. Elems(list[s]) = {}
    BY EmptyFacts DEF Dry
  <2>2. ASSUME NEW h \in Fresh(s) PROVE FALSE
    <3>1. h \in Handles /\ SplitOf(h) = s /\ h >= top[s]
      BY DEF Fresh
    <3> QED BY <3>1, SplitOfFacts, SplitFacts DEF Dry, SharedTypeOK
  <2> QED BY <2>1, <2>2
<1> QED BY <1>1 DEF Free

\* A thread that nobody interferes with finds a chunk if there is one.
THEOREM AloneRoundIsComplete == RoundsSpec => AloneFinds
<1>1. ASSUME IInv, AloneInv, [RoundsNext]_roundVars, NEW t \in alone, RoundCounts(t)
      PROVE  Free = {}
  <2>1. /\ AloneFound(t) /\ LocalTypeOK /\ SharedTypeOK /\ rounds[t] \in Int
        /\ start[t] \in Splits /\ k[t] \in Splits
    BY <1>1, Types DEF AloneInv, AloneFound, IInv, LocalTypeOK
  <2>2. rounds'[t] < rounds[t] /\ given' = given
    BY <1>1 DEF RoundCounts
  <2>3. PICK u \in Threads : Move(u)
    BY <1>1, <2>1, <2>2 DEF RoundsNext, roundVars, vars, scanVars
  <2>4. u = t
    BY <2>1, <2>2, <2>3, RoundsOfOthers DEF AloneFound
  <2>5. AloneDoes(t)
    <3>1. Allocating(t)
      BY <2>1 DEF AloneFound, Allocating, BumpPcs
    <3> QED BY <1>1, <2>1, <2>3, <2>4, <3>1, AllocatingSteps, AloneStep DEF AloneFound
  <2>6. ~ UNCHANGED scanVars
    BY <2>1, <2>2 DEF scanVars
  <2>7. PICK f \in BOOLEAN :
          /\ GoesOn(t, f) \/ RoundIsOver(t, f)
          /\ IF f THEN Attempts = 0 ELSE Dry(split[t])
    BY <2>2, <2>5, <2>6 DEF AloneDoes
  <2>8. RoundIsOver(t, f)
    BY <2>1, <2>2, <2>7 DEF GoesOn
  <2>9. ~ failed[t] /\ ~ f
    BY <2>1, <2>2, <2>8 DEF RoundIsOver, RoundsLeft
  <2>10. ASSUME NEW s \in Splits PROVE Dry(s)
    <3>1. PICK n \in Splits : Around(start[t], n) = s
      BY <2>1, AroundFacts
    <3>2. n \in 0 .. k[t] - 1 \/ n = k[t]
      BY <2>1, <2>8, SizeAssumption DEF RoundIsOver, Splits
    <3> QED BY <2>1, <2>7, <2>9, <3>1, <3>2 DEF AloneFound
  <2> QED BY <2>1, <2>10, DryIsEmpty
<1>2. ASSUME IInv, AloneInv, [RoundsNext]_roundVars
      PROVE  [\A t \in alone : RoundCounts(t) => Free = {}]_roundVars
  BY <1>1, <1>2
<1> QED BY <1>2, RoundsInvariant, PTL DEF RoundsSpec, AloneFinds

\* A call that is left alone comes to its end: the pools are obstruction free.
THEOREM AloneCallsAdvance == RoundsSpec => AloneAdvances
<1>1. ASSUME IInv, AloneInv, NEW t \in alone, Step(t)
      PROVE  RoundEnds(t) \/ StepsLeft(t)' < StepsLeft(t)
  <2>1. /\ AloneFound(t) /\ LocalTypeOK /\ rounds[t] \in Int
        /\ k[t] \in Int /\ NumSplits \in Int
    BY <1>1, Types, SizeAssumption DEF AloneInv, AloneFound, IInv, LocalTypeOK, Splits
  <2>2. AloneDoes(t)
    BY <1>1, AloneStep
  <2>3. CASE pc'[t] = "idle"
    BY <2>3 DEF RoundEnds
  <2>4. ASSUME NEW f \in BOOLEAN, RoundIsOver(t, f), f => Attempts = 0, pc'[t] # "idle"
        PROVE  RoundEnds(t)
    <3>1. RoundStarts(t)
      BY <2>4 DEF RoundIsOver, RoundStarts
    <3>2. rounds[t] > 0 /\ Attempts # 0 => rounds'[t] < rounds[t]
      BY <2>1, <2>4 DEF RoundIsOver, RoundsLeft, AloneFound
    <3> QED BY <3>1, <3>2 DEF RoundEnds
  <2>5. ASSUME NEW f \in BOOLEAN, GoesOn(t, f) PROVE StepsLeft(t)' < StepsLeft(t)
    BY <2>1, <2>5 DEF GoesOn, StepsLeft
  <2>6. ASSUME UNCHANGED scanVars,
               \/ pc[t] = "pop_load" /\ pc'[t] = "pop_next"
               \/ pc[t] = "pop_next" /\ pc'[t] = "pop_cas"
               \/ pc[t] = "pop_load" /\ pc'[t] = "bump_load"
               \/ pc[t] = "bump_load" /\ pc'[t] = "bump_add"
        PROVE  StepsLeft(t)' < StepsLeft(t)
    BY <2>1, <2>6 DEF scanVars, StepsLeft
  <2> QED BY <2>2, <2>3, <2>4, <2>5, <2>6 DEF AloneDoes
<1>2. ASSUME IInv, AloneInv
      PROVE  [\A t \in alone :
                Step(t) => RoundEnds(t) \/ StepsLeft(t)' < StepsLeft(t)]_roundVars
  BY <1>1, <1>2
<1> QED BY <1>2, RoundsInvariant, PTL DEF RoundsSpec, AloneAdvances
=============================================================================
