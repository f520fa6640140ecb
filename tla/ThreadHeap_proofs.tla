---------------------------- MODULE ThreadHeap_proofs ----------------------------
(***************************************************************************)
(* The heap of one thread, for any chunks, sizes, alignments and regions:  *)
(* a chunk is in one place, every arena is filed by its room, an arena     *)
(* taken for a request can serve it, and bytes and chunks are accounted.   *)
(***************************************************************************)
EXTENDS ThreadHeap, StepSplit_proofs, SequenceTheorems

-----------------------------------------------------------------------------
(* Lists of arenas.                                                        *)

\* What a list holds, said with its places.
LEMMA ListMembers ==
  ASSUME NEW S, NEW s \in Seq(S)
  PROVE  /\ \A e : e \in ToSet(s) <=> \E i \in 1 .. Len(s) : s[i] = e
         /\ ToSet(s) \subseteq S
         /\ s = <<>> <=> ToSet(s) = {}
         /\ IsInjective(s) <=> \A i, j \in 1 .. Len(s) : s[i] = s[j] => i = j
<1>1. DOMAIN s = 1 .. Len(s) /\ Len(s) \in Nat /\ \A i \in 1 .. Len(s) : s[i] \in S
  BY LenProperties, ElementOfSeq
<1>2. s # <<>> => 1 \in 1 .. Len(s)
  BY EmptySeq
<1>3. s = <<>> => Len(s) = 0
  BY EmptySeq
<1> QED BY <1>1, <1>2, <1>3 DEF ToSet, IsInjective

\* An arena that is in no list is put in front of one.
LEMMA ListPush ==
  ASSUME NEW S, NEW s \in Seq(S), IsInjective(s), NEW e \in S, e \notin ToSet(s)
  PROVE  /\ <<e>> \o s \in Seq(S)
         /\ IsInjective(<<e>> \o s)
         /\ ToSet(<<e>> \o s) = ToSet(s) \cup {e}
<1> DEFINE t == <<e>> \o s
<1>1. /\ t \in Seq(S) /\ Len(t) = Len(s) + 1 /\ Len(s) \in Nat
      /\ \A i \in 1 .. Len(t) : t[i] = IF i = 1 THEN e ELSE s[i - 1]
  <2>1. <<e>> \in Seq(S) /\ Len(<<e>>) = 1 /\ <<e>>[1] = e
    OBVIOUS
  <2>2. Len(s) \in Nat
    BY LenProperties
  <2>3. t \in Seq(S) /\ Len(t) = 1 + Len(s)
    BY <2>1, ConcatProperties
  <2>4. ASSUME NEW i \in 1 .. 1 + Len(s) PROVE t[i] = IF i = 1 THEN e ELSE s[i - 1]
    <3>1. t[i] = IF i <= 1 THEN <<e>>[i] ELSE s[i - 1]
      BY <2>1, <2>2, ConcatProperties
    <3> QED BY <2>1, <2>2, <3>1
  <2> QED BY <2>2, <2>3, <2>4
<1> HIDE DEF t
<1>2. \A i \in 1 .. Len(s) : s[i] # e /\ t[i + 1] = s[i] /\ i + 1 \in 1 .. Len(t)
  BY <1>1, ListMembers
<1>3. 1 \in 1 .. Len(t) /\ t[1] = e
  BY <1>1
<1>4. \A i \in 1 .. Len(t) : i # 1 => i - 1 \in 1 .. Len(s) /\ t[i] = s[i - 1]
  BY <1>1
<1>5. ToSet(t) = ToSet(s) \cup {e}
  <2>1. ASSUME NEW x \in ToSet(t) PROVE x \in ToSet(s) \cup {e}
    <3>1. PICK i \in 1 .. Len(t) : t[i] = x
      BY <1>1, ListMembers
    <3> QED BY <1>3, <1>4, <3>1, ListMembers
  <2>2. ASSUME NEW x \in ToSet(s) PROVE x \in ToSet(t)
    <3>1. PICK i \in 1 .. Len(s) : s[i] = x
      BY ListMembers
    <3> QED BY <1>1, <1>2, <3>1, ListMembers
  <2>3. e \in ToSet(t)
    BY <1>1, <1>3, ListMembers
  <2> QED BY <2>1, <2>2, <2>3
<1>6. ASSUME NEW i \in 1 .. Len(t), NEW j \in 1 .. Len(t), t[i] = t[j] PROVE i = j
  <2>1. \A k, l \in 1 .. Len(s) : s[k] = s[l] => k = l
    BY ListMembers
  <2>2. i = 1 <=> j = 1
    <3>1. \A k \in 1 .. Len(t) : k # 1 => t[k] # e
      BY <1>2, <1>4
    <3> QED BY <1>3, <1>6, <3>1
  <2>3. CASE i # 1
    <3>1. i - 1 = j - 1
      BY <1>4, <1>6, <2>1, <2>2, <2>3
    <3> QED BY <1>1, <3>1
  <2> QED BY <2>2, <2>3
<1> QED BY <1>1, <1>5, <1>6, ListMembers DEF t

\* The first arena of a list is taken.
LEMMA ListPop ==
  ASSUME NEW S, NEW s \in Seq(S), IsInjective(s), s # <<>>
  PROVE  /\ Head(s) \in S /\ Head(s) \in ToSet(s)
         /\ Tail(s) \in Seq(S)
         /\ IsInjective(Tail(s))
         /\ ToSet(Tail(s)) = ToSet(s) \ {Head(s)}
         /\ Len(Tail(s)) = Len(s) - 1
<1> DEFINE t == Tail(s)
<1>1. /\ Head(s) \in S /\ t \in Seq(S) /\ Len(t) = Len(s) - 1
      /\ \A i \in 1 .. Len(t) : t[i] = s[i + 1]
  BY HeadTailProperties
<1>2. Len(s) \in Nat \ {0} /\ Head(s) = s[1] /\ 1 \in 1 .. Len(s)
  BY EmptySeq
<1> HIDE DEF t
<1>3. \A i \in 1 .. Len(s) : i # 1 => i - 1 \in 1 .. Len(t) /\ t[i - 1] = s[i]
  BY <1>1, <1>2
<1>4. \A i \in 1 .. Len(t) : i + 1 \in 1 .. Len(s) /\ i + 1 # 1
  BY <1>1, <1>2
<1>5. \A k, l \in 1 .. Len(s) : s[k] = s[l] => k = l
  BY ListMembers
<1>6. ToSet(t) = ToSet(s) \ {Head(s)}
  <2>1. ASSUME NEW e PROVE e \in ToSet(t) <=> e \in ToSet(s) /\ e # Head(s)
    <3>1. ASSUME e \in ToSet(t) PROVE e \in ToSet(s) /\ e # Head(s)
      <4>1. PICK i \in 1 .. Len(t) : t[i] = e
        BY <1>1, <3>1, ListMembers
      <4>2. e = s[i + 1] /\ i + 1 \in 1 .. Len(s) /\ i + 1 # 1
        BY <1>1, <1>4, <4>1
      <4> QED BY <1>2, <1>5, <4>2, ListMembers
    <3>2. ASSUME e \in ToSet(s), e # Head(s) PROVE e \in ToSet(t)
      <4>1. PICK i \in 1 .. Len(s) : s[i] = e
        BY <3>2, ListMembers
      <4>2. i # 1
        BY <1>2, <3>2, <4>1
      <4>3. i - 1 \in 1 .. Len(t) /\ t[i - 1] = e
        BY <1>3, <4>1, <4>2
      <4> QED BY <1>1, <4>3, ListMembers
    <3> QED BY <3>1, <3>2
  <2> QED BY <2>1
<1>7. ASSUME NEW i \in 1 .. Len(t), NEW j \in 1 .. Len(t), t[i] = t[j] PROVE i = j
  <2>1. i + 1 = j + 1
    BY <1>1, <1>4, <1>5, <1>7
  <2> QED BY <1>1, <1>2, <2>1
<1>8. Head(s) \in ToSet(s)
  BY <1>2, ListMembers
<1> QED BY <1>1, <1>6, <1>7, <1>8, ListMembers DEF t

\* list_erase: an arena is taken out of the list, if it is in it.
LEMMA ListErase ==
  ASSUME NEW S, NEW s \in Seq(S), IsInjective(s), NEW e
  PROVE  /\ RemoveFirst(s, e) \in Seq(S)
         /\ IsInjective(RemoveFirst(s, e))
         /\ ToSet(RemoveFirst(s, e)) = ToSet(s) \ {e}
         /\ e \notin ToSet(s) => RemoveFirst(s, e) = s
<1> DEFINE t == RemoveFirst(s, e)
<1>0. Len(s) \in Nat /\ \A i \in 1 .. Len(s) : s[i] \in S
  BY LenProperties, ElementOfSeq
<1>1. CASE ~ \E i \in 1 .. Len(s) : s[i] = e
  <2>1. t = s
    BY <1>1 DEF RemoveFirst
  <2>2. e \notin ToSet(s)
    BY <1>1, ListMembers
  <2> HIDE DEF t
  <2>3. t \in Seq(S) /\ IsInjective(t) /\ ToSet(t) = ToSet(s) \ {e}
    BY <2>1, <2>2
  <2> QED BY <2>1, <2>3 DEF t
<1>2. CASE \E i \in 1 .. Len(s) : s[i] = e
  <2>1. PICK k \in 1 .. Len(s) : s[k] = e
    BY <1>2
  <2>2. \A i \in 1 .. Len(s) : s[i] = e => i = k
    BY <2>1, ListMembers
  <2>3. SelectInSeq(s, LAMBDA v : v = e) = k
    <3>1. {i \in 1 .. Len(s) : s[i] = e} = {k}
      BY <2>1, <2>2
    <3>2. Min({k}) = k
      <4>1. Min({k}) \in {k}
        BY <1>0, <2>1 DEF Min
      <4> QED BY <4>1
    <3>3. SelectInSeq(s, LAMBDA v : v = e)
            = IF {i \in 1 .. Len(s) : s[i] = e} # {} THEN Min({i \in 1 .. Len(s) : s[i] = e}) ELSE 0
      BY DEF SelectInSeq
    <3> QED BY <3>1, <3>2, <3>3
  <2>4. t = RemoveAt(s, k)
    BY <1>2, <2>3 DEF RemoveFirst
  <2>5. t = SubSeq(s, 1, k - 1) \o SubSeq(s, k + 1, Len(s))
    BY <2>4 DEF RemoveAt
  <2>6. /\ t \in Seq(S) /\ Len(t) = Len(s) - 1
        /\ \A i \in 1 .. Len(t) : t[i] = IF i < k THEN s[i] ELSE s[i + 1]
    <3> DEFINE a == SubSeq(s, 1, k - 1)
               b == SubSeq(s, k + 1, Len(s))
    <3>1. a \in Seq(S) /\ Len(a) = k - 1 /\ \A i \in 1 .. k - 1 : a[i] = s[i]
      BY <1>0
    <3>2. b \in Seq(S) /\ Len(b) = Len(s) - k /\ \A i \in 1 .. Len(s) - k : b[i] = s[i + k]
      BY <1>0
    <3>3. t = a \o b
      BY <2>5
    <3> HIDE DEF a, b, t
    <3>4. t \in Seq(S) /\ Len(t) = Len(s) - 1
      BY <1>0, <3>1, <3>2, <3>3, ConcatProperties
    <3>5. ASSUME NEW i \in 1 .. Len(t) PROVE t[i] = IF i < k THEN s[i] ELSE s[i + 1]
      <4>1. t[i] = IF i <= Len(a) THEN a[i] ELSE b[i - Len(a)]
        BY <1>0, <3>1, <3>2, <3>3, <3>4, ConcatProperties
      <4>2. CASE i < k
        BY <1>0, <3>1, <4>1, <4>2
      <4>3. CASE i >= k
        <5>1. i - Len(a) = i - k + 1 /\ i - k + 1 \in 1 .. Len(s) - k /\ ~ (i <= Len(a))
          BY <1>0, <3>1, <3>4, <4>3
        <5>2. b[i - k + 1] = s[(i - k + 1) + k] /\ (i - k + 1) + k = i + 1
          BY <1>0, <3>2, <5>1
        <5> QED BY <1>0, <4>1, <4>3, <5>1, <5>2
      <4> QED BY <1>0, <3>4, <4>2, <4>3
    <3> QED BY <3>4, <3>5
  <2> HIDE DEF t
  <2>7. \A i \in 1 .. Len(s) : i < k => i \in 1 .. Len(t) /\ t[i] = s[i]
    BY <1>0, <2>1, <2>6
  <2>8. \A i \in 1 .. Len(s) : i > k => i - 1 \in 1 .. Len(t) /\ t[i - 1] = s[i]
    BY <1>0, <2>1, <2>6
  <2>9. \A i \in 1 .. Len(t) : \E j \in 1 .. Len(s) :
          j # k /\ t[i] = s[j] /\ j = IF i < k THEN i ELSE i + 1
    BY <1>0, <2>1, <2>6
  <2>10. \A i, j \in 1 .. Len(s) : s[i] = s[j] => i = j
    BY ListMembers
  <2>11. ToSet(t) = ToSet(s) \ {e}
    <3>1. ASSUME NEW x \in ToSet(t) PROVE x \in ToSet(s) \ {e}
      BY <2>2, <2>6, <2>9, ListMembers
    <3>2. ASSUME NEW x \in ToSet(s) \ {e} PROVE x \in ToSet(t)
      <4>1. PICK i \in 1 .. Len(s) : s[i] = x
        BY ListMembers
      <4>2. i < k \/ i > k
        BY <1>0, <2>1, <4>1
      <4> QED BY <2>6, <2>7, <2>8, <4>1, <4>2, ListMembers
    <3> QED BY <3>1, <3>2
  <2>12. ASSUME NEW i \in 1 .. Len(t), NEW j \in 1 .. Len(t), t[i] = t[j] PROVE i = j
    BY <1>0, <2>1, <2>6, <2>9, <2>10, <2>12
  <2>13. e \in ToSet(s)
    BY <2>1, ListMembers
  <2> QED BY <2>6, <2>11, <2>12, <2>13, ListMembers DEF t
<1> QED BY <1>1, <1>2

\* Two lists together hold what either holds.
LEMMA ListJoin ==
  ASSUME NEW S, NEW s \in Seq(S), NEW t \in Seq(S)
  PROVE  ToSet(s \o t) = ToSet(s) \cup ToSet(t)
<1>1. /\ s \o t \in Seq(S) /\ Len(s \o t) = Len(s) + Len(t) /\ Len(s) \in Nat /\ Len(t) \in Nat
      /\ \A i \in 1 .. Len(s) + Len(t) :
           (s \o t)[i] = IF i <= Len(s) THEN s[i] ELSE t[i - Len(s)]
  BY ConcatProperties, LenProperties
<1>2. \A i \in 1 .. Len(s) : i \in 1 .. Len(s) + Len(t) /\ (s \o t)[i] = s[i]
  BY <1>1
<1>3. ASSUME NEW i \in 1 .. Len(t)
      PROVE  i + Len(s) \in 1 .. Len(s) + Len(t) /\ (s \o t)[i + Len(s)] = t[i]
  <2>1. i + Len(s) \in 1 .. Len(s) + Len(t) /\ ~ (i + Len(s) <= Len(s)) /\ (i + Len(s)) - Len(s) = i
    BY <1>1
  <2> QED BY <1>1, <2>1
<1>4. \A i \in 1 .. Len(s) + Len(t) : i <= Len(s) => i \in 1 .. Len(s)
  BY <1>1
<1>5. \A i \in 1 .. Len(s) + Len(t) : ~ (i <= Len(s)) => i - Len(s) \in 1 .. Len(t)
  BY <1>1
<1>6. ASSUME NEW x \in ToSet(s \o t) PROVE x \in ToSet(s) \cup ToSet(t)
  <2>1. PICK i \in 1 .. Len(s) + Len(t) : (s \o t)[i] = x
    BY <1>1, ListMembers
  <2> QED BY <1>1, <1>4, <1>5, <2>1, ListMembers
<1>7. ASSUME NEW x \in ToSet(s) PROVE x \in ToSet(s \o t)
  <2>1. PICK i \in 1 .. Len(s) : s[i] = x
    BY ListMembers
  <2> QED BY <1>1, <1>2, <2>1, ListMembers
<1>8. ASSUME NEW x \in ToSet(t) PROVE x \in ToSet(s \o t)
  <2>1. PICK i \in 1 .. Len(t) : t[i] = x
    BY ListMembers
  <2> QED BY <1>1, <1>3, <2>1, ListMembers
<1> QED BY <1>6, <1>7, <1>8

-----------------------------------------------------------------------------
(* A bin that holds each of its arenas once.                               *)

Lists(D) == [D -> Seq(Chunks)]

Pushed(D, lists, new, l, c) ==
  /\ new \in Lists(D) /\ new[l] = <<c>> \o lists[l]
  /\ \A k \in D : k # l => new[k] = lists[k]

Popped(D, lists, new, l) ==
  /\ lists[l] # <<>> /\ new \in Lists(D) /\ new[l] = Tail(lists[l])
  /\ \A k \in D : k # l => new[k] = lists[k]

Erased(D, lists, new, c) ==
  new \in Lists(D) /\ \A l \in D : new[l] = RemoveFirst(lists[l], c)

\* What it means, list by list.
Held(D, lists, front, set) ==
  /\ \A l \in D : IsInjective(lists[l]) /\ front \notin ToSet(lists[l])
  /\ \A l, m \in D, e \in Chunks : e \in ToSet(lists[l]) /\ e \in ToSet(lists[m]) => l = m
  /\ set \subseteq Chunks
  /\ \A e \in Chunks : e \in set <=> e = front \/ \E l \in D : e \in ToSet(lists[l])

\* The arena in front of a bin is taken.
LEMMA HoldsTakeFront ==
  ASSUME NEW D, NEW lists \in Lists(D), NEW front \in Chunks, NEW set,
         HoldsOnce(lists, front, set)
  PROVE  /\ front \in set
         /\ HoldsOnce(lists, NoChunk, set \ {front})
<1> USE DEF Lists
<1>1. \A l \in D : ToSet(lists[l]) \subseteq Chunks
  BY ListMembers
<1>2. front # NoChunk /\ NoChunk \notin Chunks
  BY ChunkAssumption
<1>3. DOMAIN lists = D
  OBVIOUS
<1>4. /\ \A l \in D : IsInjective(lists[l]) /\ front \notin ToSet(lists[l])
      /\ \A l, m \in D : l # m => ToSet(lists[l]) \cap ToSet(lists[m]) = {}
      /\ set = (Listed(lists) \cup {front}) \ {NoChunk}
  BY <1>3 DEF HoldsOnce
<1>5. front \notin Listed(lists) /\ NoChunk \notin Listed(lists)
  BY <1>1, <1>2, <1>3, <1>4 DEF Listed
<1>6. set \ {front} = (Listed(lists) \cup {NoChunk}) \ {NoChunk}
  BY <1>4, <1>5
<1>7. \A l \in D : NoChunk \notin ToSet(lists[l])
  BY <1>1, <1>2
<1> QED BY <1>2, <1>3, <1>4, <1>6, <1>7 DEF HoldsOnce

\* An arena that is not in the bin is put in front, where there was none.
LEMMA HoldsSetFront ==
  ASSUME NEW D, NEW lists \in Lists(D), NEW set,
         HoldsOnce(lists, NoChunk, set), NEW c \in Chunks, c \notin set
  PROVE  HoldsOnce(lists, c, set \cup {c})
<1> USE DEF Lists
<1>2. c # NoChunk
  BY ChunkAssumption
<1>3. DOMAIN lists = D
  OBVIOUS
<1>4. /\ \A l \in D : IsInjective(lists[l]) /\ NoChunk \notin ToSet(lists[l])
      /\ \A l, m \in D : l # m => ToSet(lists[l]) \cap ToSet(lists[m]) = {}
      /\ set = (Listed(lists) \cup {NoChunk}) \ {NoChunk}
  BY <1>3 DEF HoldsOnce
<1>5. c \notin Listed(lists)
  BY <1>2, <1>4
<1>6. \A l \in D : c \notin ToSet(lists[l])
  BY <1>3, <1>5 DEF Listed
<1>7. NoChunk \notin Listed(lists)
  BY <1>3, <1>4 DEF Listed
<1>8. set \cup {c} = (Listed(lists) \cup {c}) \ {NoChunk}
  BY <1>2, <1>4, <1>7
<1> QED BY <1>3, <1>4, <1>6, <1>8 DEF HoldsOnce

\* A bin that holds its arenas list by list holds each once.
LEMMA HoldsFrom ==
  ASSUME NEW D, NEW lists \in Lists(D), NEW front, NEW set,
         Held(D, lists, front, set), front \in Chunks \cup {NoChunk}
  PROVE  HoldsOnce(lists, front, set)
<1> USE DEF Held, Lists
<1>1. DOMAIN lists = D /\ \A l \in D : ToSet(lists[l]) \subseteq Chunks
  BY ListMembers
<1>2. NoChunk \notin Chunks
  BY ChunkAssumption
<1>3. \A l, m \in D : l # m => ToSet(lists[l]) \cap ToSet(lists[m]) = {}
  BY <1>1
<1>4. set = (Listed(lists) \cup {front}) \ {NoChunk}
  <2>1. \A e : e \in Listed(lists) <=> \E l \in D : e \in ToSet(lists[l])
    BY <1>1 DEF Listed
  <2>2. ASSUME NEW e \in set PROVE e \in (Listed(lists) \cup {front}) \ {NoChunk}
    BY <1>2, <2>1
  <2>3. ASSUME NEW e \in (Listed(lists) \cup {front}) \ {NoChunk} PROVE e \in set
    <3>1. e \in Chunks
      BY <1>1, <2>1, <2>3
    <3> QED BY <2>1, <2>3, <3>1
  <2> QED BY <2>2, <2>3
<1> QED BY <1>1, <1>3, <1>4 DEF HoldsOnce

\* And back.
LEMMA HoldsMeans ==
  ASSUME NEW D, NEW lists \in Lists(D), NEW front \in Chunks \cup {NoChunk}, NEW set,
         HoldsOnce(lists, front, set)
  PROVE  Held(D, lists, front, set)
<1> USE DEF Lists
<1>1. DOMAIN lists = D /\ \A l \in D : ToSet(lists[l]) \subseteq Chunks
  BY ListMembers
<1>2. NoChunk \notin Chunks
  BY ChunkAssumption
<1>3. \A e : e \in Listed(lists) <=> \E l \in D : e \in ToSet(lists[l])
  BY <1>1 DEF Listed
<1>4. set = (Listed(lists) \cup {front}) \ {NoChunk}
  BY <1>1 DEF HoldsOnce
<1>5. set \subseteq Chunks
  BY <1>1, <1>3, <1>4
<1>6. \A e \in Chunks : e \in set <=> e = front \/ \E l \in D : e \in ToSet(lists[l])
  BY <1>2, <1>3, <1>4
<1>7. /\ \A l \in D : IsInjective(lists[l]) /\ front \notin ToSet(lists[l])
      /\ \A l, m \in D : l # m => ToSet(lists[l]) \cap ToSet(lists[m]) = {}
  BY <1>1 DEF HoldsOnce
<1> QED BY <1>5, <1>6, <1>7 DEF Held

\* An arena that is not in the bin is put into one of its lists.
LEMMA HoldsPush ==
  ASSUME NEW D, NEW lists \in Lists(D), NEW front \in Chunks \cup {NoChunk}, NEW set,
         HoldsOnce(lists, front, set),
         NEW c \in Chunks, c \notin set, NEW l \in D,
         NEW new, Pushed(D, lists, new, l, c)
  PROVE  HoldsOnce(new, front, set \cup {c})
<1> USE DEF Lists, Pushed
<1>1. /\ \A k \in D : IsInjective(lists[k]) /\ front \notin ToSet(lists[k])
      /\ \A k, m \in D, e \in Chunks : e \in ToSet(lists[k]) /\ e \in ToSet(lists[m]) => k = m
      /\ set \subseteq Chunks
      /\ \A e \in Chunks : e \in set <=> e = front \/ \E k \in D : e \in ToSet(lists[k])
  <2>1. Held(D, lists, front, set)
    BY HoldsMeans
  <2> QED BY <2>1 DEF Held
<1>2. c # front /\ \A k \in D : c \notin ToSet(lists[k])
  BY <1>1
<1>3. /\ new[l] \in Seq(Chunks) /\ IsInjective(new[l])
      /\ ToSet(new[l]) = ToSet(lists[l]) \cup {c}
  BY <1>1, <1>2, ListPush
<1>4. \A k \in D : k # l => new[k] = lists[k]
  OBVIOUS
<1>5. new \in [D -> Seq(Chunks)]
  BY <1>3, <1>4
<1>6. \A k \in D : IsInjective(new[k]) /\ front \notin ToSet(new[k])
  BY <1>1, <1>2, <1>3, <1>4
<1>7. \A k \in D, e \in Chunks : e \in ToSet(new[k]) <=> e \in ToSet(lists[k]) \/ (k = l /\ e = c)
  BY <1>3, <1>4
<1>8. \A k, m \in D, e \in Chunks : e \in ToSet(new[k]) /\ e \in ToSet(new[m]) => k = m
  <2> SUFFICES ASSUME NEW k \in D, NEW m \in D, NEW e \in Chunks,
                      e \in ToSet(new[k]), e \in ToSet(new[m])
               PROVE  k = m
    OBVIOUS
  <2>1. CASE e = c
    BY <1>2, <1>7, <2>1
  <2>2. CASE e # c
    <3>1. e \in ToSet(lists[k]) /\ e \in ToSet(lists[m])
      BY <1>7, <2>2
    <3> QED BY <1>1, <3>1
  <2> QED BY <2>1, <2>2
<1>9. \A e \in Chunks : e \in set \cup {c} <=> e = front \/ \E k \in D : e \in ToSet(new[k])
  BY <1>1, <1>2, <1>7
<1>10. set \cup {c} \subseteq Chunks
  BY <1>1
<1> QED BY <1>5, <1>6, <1>8, <1>9, <1>10, HoldsFrom DEF Held

\* The first arena of a list is taken out of the bin.
LEMMA HoldsPop ==
  ASSUME NEW D, NEW lists \in Lists(D), NEW front \in Chunks \cup {NoChunk}, NEW set,
         HoldsOnce(lists, front, set), NEW l \in D,
         NEW new, Popped(D, lists, new, l)
  PROVE  /\ Head(lists[l]) \in set /\ Head(lists[l]) # front
         /\ HoldsOnce(new, front, set \ {Head(lists[l])})
<1> USE DEF Lists, Popped
<1> DEFINE c == Head(lists[l])
<1>1. /\ \A k \in D : IsInjective(lists[k]) /\ front \notin ToSet(lists[k])
      /\ \A k, m \in D, e \in Chunks : e \in ToSet(lists[k]) /\ e \in ToSet(lists[m]) => k = m
      /\ set \subseteq Chunks
      /\ \A e \in Chunks : e \in set <=> e = front \/ \E k \in D : e \in ToSet(lists[k])
  <2>1. Held(D, lists, front, set)
    BY HoldsMeans
  <2> QED BY <2>1 DEF Held
<1>2. /\ c \in Chunks /\ c \in ToSet(lists[l])
      /\ new[l] \in Seq(Chunks) /\ IsInjective(new[l])
      /\ ToSet(new[l]) = ToSet(lists[l]) \ {c}
  BY <1>1, ListPop
<1> HIDE DEF c
<1>3. c # front /\ c \in set /\ \A k \in D : c \in ToSet(lists[k]) => k = l
  BY <1>1, <1>2
<1>4. \A k \in D : k # l => new[k] = lists[k]
  OBVIOUS
<1>5. new \in [D -> Seq(Chunks)]
  BY <1>2, <1>4
<1>6. \A k \in D, e \in Chunks : e \in ToSet(new[k]) <=> e \in ToSet(lists[k]) /\ e # c
  BY <1>2, <1>3, <1>4
<1>7. \A k \in D : IsInjective(new[k]) /\ front \notin ToSet(new[k])
  BY <1>1, <1>2, <1>4
<1>8. \A k, m \in D, e \in Chunks : e \in ToSet(new[k]) /\ e \in ToSet(new[m]) => k = m
  BY <1>1, <1>6
<1>9. \A e \in Chunks : e \in set \ {c} <=> e = front \/ \E k \in D : e \in ToSet(new[k])
  BY <1>1, <1>3, <1>6
<1>10. set \ {c} \subseteq Chunks
  BY <1>1
<1>11. HoldsOnce(new, front, set \ {c})
  BY <1>5, <1>7, <1>8, <1>9, <1>10, HoldsFrom DEF Held
<1> QED BY <1>3, <1>5, <1>11 DEF c

\* An arena that is not in front is taken out of whichever list it is in.
LEMMA HoldsErase ==
  ASSUME NEW D, NEW lists \in Lists(D), NEW front \in Chunks \cup {NoChunk}, NEW set,
         HoldsOnce(lists, front, set), NEW c \in Chunks, c # front,
         NEW new, Erased(D, lists, new, c)
  PROVE  /\ \A l \in D : ToSet(new[l]) = ToSet(lists[l]) \ {c}
         /\ \A l \in D : c \notin ToSet(lists[l]) => new[l] = lists[l]
         /\ HoldsOnce(new, front, set \ {c})
<1> USE DEF Lists, Erased
<1>1. /\ \A k \in D : IsInjective(lists[k]) /\ front \notin ToSet(lists[k])
      /\ \A k, m \in D, e \in Chunks : e \in ToSet(lists[k]) /\ e \in ToSet(lists[m]) => k = m
      /\ set \subseteq Chunks
      /\ \A e \in Chunks : e \in set <=> e = front \/ \E k \in D : e \in ToSet(lists[k])
  <2>1. Held(D, lists, front, set)
    BY HoldsMeans
  <2> QED BY <2>1 DEF Held
<1>2. ASSUME NEW l \in D
      PROVE  /\ new[l] \in Seq(Chunks) /\ IsInjective(new[l])
             /\ ToSet(new[l]) = ToSet(lists[l]) \ {c}
             /\ c \notin ToSet(lists[l]) => new[l] = lists[l]
  BY <1>1, ListErase
<1>3. new \in [D -> Seq(Chunks)]
  BY <1>2
<1>4. \A l \in D : IsInjective(new[l]) /\ front \notin ToSet(new[l])
  BY <1>1, <1>2
<1>5. \A k, m \in D, e \in Chunks : e \in ToSet(new[k]) /\ e \in ToSet(new[m]) => k = m
  BY <1>1, <1>2
<1>6. \A e \in Chunks : e \in set \ {c} <=> e = front \/ \E k \in D : e \in ToSet(new[k])
  BY <1>1, <1>2
<1>7. set \ {c} \subseteq Chunks
  BY <1>1
<1>8. HoldsOnce(new, front, set \ {c})
  BY <1>3, <1>4, <1>5, <1>6, <1>7, HoldsFrom DEF Held
<1> QED BY <1>2, <1>3, <1>8

-----------------------------------------------------------------------------
(* The bins of the small allocator.                                        *)

Rooms == [c \in Chunks |-> Remaining(c)]

Kinds == {"free", "cutoff", "recycled"}

SmallEntries == [current : Chunks \cup {NoChunk}, free : Seq(Chunks),
                 cutoff : Seq(Chunks), recycled : Seq(Chunks)]

\* A bin that holds the arenas of a set once each, filed by the rooms given.
SmallGood(bin, set, rooms) ==
  /\ bin \in SmallEntries
  /\ HoldsOnce(SmallLists(bin), bin.current, set)
  /\ \A c \in ToSet(bin.free) : rooms[c] >= SizeCutoff
  /\ \A c \in ToSet(bin.cutoff) \cup ToSet(bin.recycled) : rooms[c] < SizeCutoff

\* FastArenaSmallBinsConfig: the cutoff is aligned for every alignment.
LEMMA CutoffType == SizeCutoff \in Nat /\ IsAligned(SizeCutoff, IntPow2[MaxAlignmentLog2])
<1>1. IntPow2[MaxAlignmentLog2] \in Nat \ {0} /\ CutoffConfig \in Nat
  BY PowerType, AlignmentAssumption, CutoffAssumption
<1> QED BY <1>1, AlignFacts DEF SizeCutoff

\* The three lists of a bin, by name.
LEMMA SmallListsType ==
  ASSUME NEW bin \in SmallEntries
  PROVE  /\ SmallLists(bin) \in Lists(Kinds)
         /\ SmallLists(bin)["free"] = bin.free
         /\ SmallLists(bin)["cutoff"] = bin.cutoff
         /\ SmallLists(bin)["recycled"] = bin.recycled
<1>1. /\ bin.free \in Seq(Chunks) /\ bin.cutoff \in Seq(Chunks) /\ bin.recycled \in Seq(Chunks)
      /\ bin.current \in Chunks \cup {NoChunk}
  BY DEF SmallEntries
<1>2. /\ SmallLists(bin)["free"] = bin["free"] /\ SmallLists(bin)["cutoff"] = bin["cutoff"]
      /\ SmallLists(bin)["recycled"] = bin["recycled"]
  BY DEF SmallLists
<1>3. SmallLists(bin) = [l \in Kinds |-> SmallLists(bin)[l]]
  BY DEF SmallLists, Kinds
<1> QED BY <1>1, <1>2, <1>3 DEF Kinds, Lists

\* What it says of the parts of a bin.
LEMMA SmallGoodMeans ==
  ASSUME NEW bin, NEW set, NEW rooms, SmallGood(bin, set, rooms)
  PROVE  /\ bin \in SmallEntries /\ bin.current \in Chunks \cup {NoChunk}
         /\ bin.free \in Seq(Chunks) /\ bin.cutoff \in Seq(Chunks) /\ bin.recycled \in Seq(Chunks)
         /\ HoldsOnce(SmallLists(bin), bin.current, set)
         /\ Held(Kinds, SmallLists(bin), bin.current, set)
<1>1. bin \in SmallEntries /\ HoldsOnce(SmallLists(bin), bin.current, set)
  BY DEF SmallGood
<1>2. /\ bin.free \in Seq(Chunks) /\ bin.cutoff \in Seq(Chunks) /\ bin.recycled \in Seq(Chunks)
      /\ bin.current \in Chunks \cup {NoChunk}
  BY <1>1 DEF SmallEntries
<1>3. SmallLists(bin) \in Lists(Kinds)
  BY <1>1, SmallListsType
<1> QED BY <1>1, <1>2, <1>3, HoldsMeans

\* Only the rooms of the arenas in the bin matter.
LEMMA SmallGoodRooms ==
  ASSUME NEW bin, NEW set, NEW rooms, SmallGood(bin, set, rooms),
         NEW others, \A c \in set : others[c] = rooms[c]
  PROVE  SmallGood(bin, set, others)
<1>1. Held(Kinds, SmallLists(bin), bin.current, set) /\ bin \in SmallEntries
  BY SmallGoodMeans
<1>2. bin.free \in Seq(Chunks) /\ bin.cutoff \in Seq(Chunks) /\ bin.recycled \in Seq(Chunks)
  BY SmallGoodMeans
<1>3. \A c \in ToSet(bin.free) \cup ToSet(bin.cutoff) \cup ToSet(bin.recycled) : c \in set
  <2>1. ToSet(bin.free) \cup ToSet(bin.cutoff) \cup ToSet(bin.recycled) \subseteq Chunks
    BY <1>2, ListMembers
  <2>2. \A c \in Chunks, l \in Kinds : c \in ToSet(SmallLists(bin)[l]) => c \in set
    BY <1>1 DEF Held
  <2> QED BY <1>1, <2>1, <2>2, SmallListsType DEF Kinds
<1> QED BY <1>3 DEF SmallGood

\* The current arena is taken.
LEMMA SmallTakeFront ==
  ASSUME NEW bin, NEW set, NEW rooms, SmallGood(bin, set, rooms), bin.current # NoChunk
  PROVE  /\ bin.current \in set
         /\ SmallGood([bin EXCEPT !.current = NoChunk], set \ {bin.current}, rooms)
<1>1. bin \in SmallEntries /\ bin.current \in Chunks /\ SmallLists(bin) \in Lists(Kinds)
      /\ HoldsOnce(SmallLists(bin), bin.current, set)
  BY SmallGoodMeans, SmallListsType
<1> DEFINE new == [bin EXCEPT !.current = NoChunk]
<1>2. /\ new \in SmallEntries /\ new.current = NoChunk /\ new.free = bin.free
      /\ new.cutoff = bin.cutoff /\ new.recycled = bin.recycled
  BY <1>1 DEF SmallEntries
<1>3. SmallLists(new) = SmallLists(bin)
  BY <1>2 DEF SmallLists
<1> HIDE DEF new
<1>4. bin.current \in set /\ HoldsOnce(SmallLists(bin), NoChunk, set \ {bin.current})
  BY <1>1, HoldsTakeFront
<1>5. SmallGood(new, set \ {bin.current}, rooms)
  BY <1>2, <1>3, <1>4 DEF SmallGood
<1> QED BY <1>4, <1>5 DEF new

\* An arena becomes the current one.
LEMMA SmallSetFront ==
  ASSUME NEW bin, NEW set, NEW rooms, SmallGood(bin, set, rooms), bin.current = NoChunk,
         NEW c \in Chunks, c \notin set
  PROVE  SmallGood([bin EXCEPT !.current = c], set \cup {c}, rooms)
<1>1. bin \in SmallEntries /\ SmallLists(bin) \in Lists(Kinds)
      /\ HoldsOnce(SmallLists(bin), NoChunk, set)
  BY SmallGoodMeans, SmallListsType
<1> DEFINE new == [bin EXCEPT !.current = c]
<1>2. /\ new \in SmallEntries /\ new.current = c /\ new.free = bin.free
      /\ new.cutoff = bin.cutoff /\ new.recycled = bin.recycled
  BY <1>1 DEF SmallEntries
<1>3. SmallLists(new) = SmallLists(bin)
  BY <1>2 DEF SmallLists
<1> HIDE DEF new
<1>4. HoldsOnce(SmallLists(bin), c, set \cup {c})
  BY <1>1, HoldsSetFront
<1>5. SmallGood(new, set \cup {c}, rooms)
  BY <1>2, <1>3, <1>4 DEF SmallGood
<1> QED BY <1>5 DEF new

\* An arena is put into the list its room calls for.
LEMMA SmallPush ==
  ASSUME NEW bin, NEW set, NEW rooms, SmallGood(bin, set, rooms), NEW c \in Chunks, c \notin set
  PROVE  /\ rooms[c] >= SizeCutoff
              => SmallGood([bin EXCEPT !.free = <<c>> \o @], set \cup {c}, rooms)
         /\ rooms[c] < SizeCutoff
              => SmallGood([bin EXCEPT !.cutoff = <<c>> \o @], set \cup {c}, rooms)
         /\ rooms[c] < SizeCutoff
              => SmallGood([bin EXCEPT !.recycled = <<c>> \o @], set \cup {c}, rooms)
<1>1. /\ bin \in SmallEntries /\ bin.current \in Chunks \cup {NoChunk}
      /\ SmallLists(bin) \in Lists(Kinds)
      /\ HoldsOnce(SmallLists(bin), bin.current, set) /\ Held(Kinds, SmallLists(bin), bin.current, set)
      /\ SmallLists(bin)["free"] = bin.free /\ SmallLists(bin)["cutoff"] = bin.cutoff
      /\ SmallLists(bin)["recycled"] = bin.recycled
  BY SmallGoodMeans, SmallListsType
<1>2. ASSUME NEW l \in Kinds
      PROVE  LET s == SmallLists(bin)[l]
             IN  /\ <<c>> \o s \in Seq(Chunks) /\ ToSet(<<c>> \o s) = ToSet(s) \cup {c}
                 /\ HoldsOnce([SmallLists(bin) EXCEPT ![l] = <<c>> \o @], bin.current, set \cup {c})
  <2> DEFINE s == SmallLists(bin)[l]
  <2>1. s \in Seq(Chunks) /\ IsInjective(s) /\ c \notin ToSet(s)
    BY <1>1 DEF Held, Lists
  <2>2. <<c>> \o s \in Seq(Chunks) /\ ToSet(<<c>> \o s) = ToSet(s) \cup {c}
    BY <2>1, ListPush
  <2>3. PICK new : new = [SmallLists(bin) EXCEPT ![l] = <<c>> \o @]
    OBVIOUS
  <2>4. HoldsOnce(new, bin.current, set \cup {c})
    <3>1. PICK old, front : old = SmallLists(bin) /\ front = bin.current
      OBVIOUS
    <3>2. /\ old \in Lists(Kinds) /\ front \in Chunks \cup {NoChunk}
          /\ HoldsOnce(old, front, set) /\ Pushed(Kinds, old, new, l, c)
      BY <1>1, <2>2, <2>3, <3>1 DEF Pushed, Lists
    <3>3. HoldsOnce(new, front, set \cup {c})
      BY <3>2, HoldsPush
    <3> QED BY <3>1, <3>3
  <2> QED BY <2>2, <2>3, <2>4
<1>3. ASSUME rooms[c] >= SizeCutoff
      PROVE  SmallGood([bin EXCEPT !.free = <<c>> \o @], set \cup {c}, rooms)
  <2> DEFINE new == [bin EXCEPT !.free = <<c>> \o @]
  <2>1. <<c>> \o bin.free \in Seq(Chunks) /\ ToSet(<<c>> \o bin.free) = ToSet(bin.free) \cup {c}
        /\ HoldsOnce([SmallLists(bin) EXCEPT !["free"] = <<c>> \o @], bin.current, set \cup {c})
    BY <1>1, <1>2 DEF Kinds
  <2>2. /\ new \in SmallEntries /\ new.current = bin.current /\ new.free = <<c>> \o bin.free
        /\ new.cutoff = bin.cutoff /\ new.recycled = bin.recycled
    BY <1>1, <2>1 DEF SmallEntries
  <2>3. SmallLists(new) = [SmallLists(bin) EXCEPT !["free"] = <<c>> \o @]
    BY <1>1, <2>2 DEF SmallLists
  <2> HIDE DEF new
  <2>4. SmallGood(new, set \cup {c}, rooms)
    BY <1>3, <2>1, <2>2, <2>3 DEF SmallGood
  <2> QED BY <2>4 DEF new
<1>4. ASSUME rooms[c] < SizeCutoff
      PROVE  SmallGood([bin EXCEPT !.cutoff = <<c>> \o @], set \cup {c}, rooms)
  <2> DEFINE new == [bin EXCEPT !.cutoff = <<c>> \o @]
  <2>1. <<c>> \o bin.cutoff \in Seq(Chunks) /\ ToSet(<<c>> \o bin.cutoff) = ToSet(bin.cutoff) \cup {c}
        /\ HoldsOnce([SmallLists(bin) EXCEPT !["cutoff"] = <<c>> \o @], bin.current, set \cup {c})
    BY <1>1, <1>2 DEF Kinds
  <2>2. /\ new \in SmallEntries /\ new.current = bin.current /\ new.free = bin.free
        /\ new.cutoff = <<c>> \o bin.cutoff /\ new.recycled = bin.recycled
    BY <1>1, <2>1 DEF SmallEntries
  <2>3. SmallLists(new) = [SmallLists(bin) EXCEPT !["cutoff"] = <<c>> \o @]
    BY <1>1, <2>2 DEF SmallLists
  <2> HIDE DEF new
  <2>4. SmallGood(new, set \cup {c}, rooms)
    BY <1>4, <2>1, <2>2, <2>3 DEF SmallGood
  <2> QED BY <2>4 DEF new
<1>5. ASSUME rooms[c] < SizeCutoff
      PROVE  SmallGood([bin EXCEPT !.recycled = <<c>> \o @], set \cup {c}, rooms)
  <2> DEFINE new == [bin EXCEPT !.recycled = <<c>> \o @]
  <2>1. <<c>> \o bin.recycled \in Seq(Chunks) /\ ToSet(<<c>> \o bin.recycled) = ToSet(bin.recycled) \cup {c}
        /\ HoldsOnce([SmallLists(bin) EXCEPT !["recycled"] = <<c>> \o @], bin.current, set \cup {c})
    BY <1>1, <1>2 DEF Kinds
  <2>2. /\ new \in SmallEntries /\ new.current = bin.current /\ new.free = bin.free
        /\ new.cutoff = bin.cutoff /\ new.recycled = <<c>> \o bin.recycled
    BY <1>1, <2>1 DEF SmallEntries
  <2>3. SmallLists(new) = [SmallLists(bin) EXCEPT !["recycled"] = <<c>> \o @]
    BY <1>1, <2>2 DEF SmallLists
  <2> HIDE DEF new
  <2>4. SmallGood(new, set \cup {c}, rooms)
    BY <1>5, <2>1, <2>2, <2>3 DEF SmallGood
  <2> QED BY <2>4 DEF new
<1> QED BY <1>3, <1>4, <1>5

\* The first arena of a list is taken.
LEMMA SmallPop ==
  ASSUME NEW bin, NEW set, NEW rooms, SmallGood(bin, set, rooms)
  PROVE  /\ bin.free # <<>>
              => /\ Head(bin.free) \in set /\ rooms[Head(bin.free)] >= SizeCutoff
                 /\ SmallGood([bin EXCEPT !.free = Tail(@)], set \ {Head(bin.free)}, rooms)
         /\ bin.cutoff # <<>>
              => /\ Head(bin.cutoff) \in set /\ rooms[Head(bin.cutoff)] < SizeCutoff
                 /\ SmallGood([bin EXCEPT !.cutoff = Tail(@)], set \ {Head(bin.cutoff)}, rooms)
<1>1. /\ bin \in SmallEntries /\ bin.current \in Chunks \cup {NoChunk}
      /\ SmallLists(bin) \in Lists(Kinds)
      /\ HoldsOnce(SmallLists(bin), bin.current, set) /\ Held(Kinds, SmallLists(bin), bin.current, set)
      /\ SmallLists(bin)["free"] = bin.free /\ SmallLists(bin)["cutoff"] = bin.cutoff
      /\ SmallLists(bin)["recycled"] = bin.recycled
  BY SmallGoodMeans, SmallListsType
<1>2. ASSUME NEW l \in Kinds, SmallLists(bin)[l] # <<>>
      PROVE  LET s == SmallLists(bin)[l]
             IN  /\ Tail(s) \in Seq(Chunks) /\ ToSet(Tail(s)) = ToSet(s) \ {Head(s)}
                 /\ Head(s) \in ToSet(s) /\ Head(s) \in set
                 /\ HoldsOnce([SmallLists(bin) EXCEPT ![l] = Tail(@)], bin.current, set \ {Head(s)})
  <2> DEFINE s == SmallLists(bin)[l]
  <2>1. s \in Seq(Chunks) /\ IsInjective(s) /\ s # <<>>
    BY <1>1, <1>2 DEF Held, Lists
  <2>2. Tail(s) \in Seq(Chunks) /\ ToSet(Tail(s)) = ToSet(s) \ {Head(s)} /\ Head(s) \in ToSet(s)
    BY <2>1, ListPop
  <2>3. PICK new : new = [SmallLists(bin) EXCEPT ![l] = Tail(@)]
    OBVIOUS
  <2>4. HoldsOnce(new, bin.current, set \ {Head(SmallLists(bin)[l])}) /\ Head(SmallLists(bin)[l]) \in set
    <3>1. PICK old, front : old = SmallLists(bin) /\ front = bin.current
      OBVIOUS
    <3>2. /\ old \in Lists(Kinds) /\ front \in Chunks \cup {NoChunk}
          /\ HoldsOnce(old, front, set) /\ Popped(Kinds, old, new, l)
      BY <1>1, <1>2, <2>2, <2>3, <3>1 DEF Popped, Lists
    <3>3. HoldsOnce(new, front, set \ {Head(old[l])}) /\ Head(old[l]) \in set
      BY <3>2, HoldsPop
    <3> QED BY <3>1, <3>3
  <2> QED BY <2>2, <2>3, <2>4
<1>3. ASSUME bin.free # <<>>
      PROVE  /\ Head(bin.free) \in set /\ rooms[Head(bin.free)] >= SizeCutoff
             /\ SmallGood([bin EXCEPT !.free = Tail(@)], set \ {Head(bin.free)}, rooms)
  <2> DEFINE new == [bin EXCEPT !.free = Tail(@)]
  <2>1. /\ Tail(bin.free) \in Seq(Chunks) /\ ToSet(Tail(bin.free)) = ToSet(bin.free) \ {Head(bin.free)}
        /\ Head(bin.free) \in ToSet(bin.free) /\ Head(bin.free) \in set
        /\ HoldsOnce([SmallLists(bin) EXCEPT !["free"] = Tail(@)], bin.current, set \ {Head(bin.free)})
    BY <1>1, <1>2, <1>3 DEF Kinds
  <2>2. /\ new \in SmallEntries /\ new.current = bin.current /\ new.free = Tail(bin.free)
        /\ new.cutoff = bin.cutoff /\ new.recycled = bin.recycled
    BY <1>1, <2>1 DEF SmallEntries
  <2>3. SmallLists(new) = [SmallLists(bin) EXCEPT !["free"] = Tail(@)]
    BY <1>1, <2>2 DEF SmallLists
  <2>5. rooms[Head(bin.free)] >= SizeCutoff
    BY <2>1 DEF SmallGood
  <2> HIDE DEF new
  <2>4. SmallGood(new, set \ {Head(bin.free)}, rooms)
    BY <2>1, <2>2, <2>3 DEF SmallGood
  <2> QED BY <2>1, <2>4, <2>5 DEF new
<1>4. ASSUME bin.cutoff # <<>>
      PROVE  /\ Head(bin.cutoff) \in set /\ rooms[Head(bin.cutoff)] < SizeCutoff
             /\ SmallGood([bin EXCEPT !.cutoff = Tail(@)], set \ {Head(bin.cutoff)}, rooms)
  <2> DEFINE new == [bin EXCEPT !.cutoff = Tail(@)]
  <2>1. /\ Tail(bin.cutoff) \in Seq(Chunks) /\ ToSet(Tail(bin.cutoff)) = ToSet(bin.cutoff) \ {Head(bin.cutoff)}
        /\ Head(bin.cutoff) \in ToSet(bin.cutoff) /\ Head(bin.cutoff) \in set
        /\ HoldsOnce([SmallLists(bin) EXCEPT !["cutoff"] = Tail(@)], bin.current, set \ {Head(bin.cutoff)})
    BY <1>1, <1>2, <1>4 DEF Kinds
  <2>2. /\ new \in SmallEntries /\ new.current = bin.current /\ new.free = bin.free
        /\ new.cutoff = Tail(bin.cutoff) /\ new.recycled = bin.recycled
    BY <1>1, <2>1 DEF SmallEntries
  <2>3. SmallLists(new) = [SmallLists(bin) EXCEPT !["cutoff"] = Tail(@)]
    BY <1>1, <2>2 DEF SmallLists
  <2>5. rooms[Head(bin.cutoff)] < SizeCutoff
    BY <2>1 DEF SmallGood
  <2> HIDE DEF new
  <2>4. SmallGood(new, set \ {Head(bin.cutoff)}, rooms)
    BY <2>1, <2>2, <2>3 DEF SmallGood
  <2> QED BY <2>1, <2>4, <2>5 DEF new
<1> QED BY <1>3, <1>4

\* The first step of acquire() and the last one keep the bin in order.
LEMMA DropCurrentKeeps ==
  ASSUME NEW bin, NEW set, NEW rooms, SmallGood(bin, set, rooms),
         \A c \in set : rooms[c] = Remaining(c) /\ rooms[c] \in Nat,
         NEW size \in Nat, size <= SizeCutoff
  PROVE  /\ SmallGood(DropCurrent(bin, size), set, rooms)
         /\ DropCurrent(bin, size).free = bin.free
         /\ DropCurrent(bin, size).cutoff = bin.cutoff
<1>1. bin \in SmallEntries
  BY SmallGoodMeans
<1>2. CASE bin.current # NoChunk /\ ~WorthKeeping(bin.current, size)
  <2> DEFINE d == bin.current
             less == [bin EXCEPT !.current = NoChunk]
             new == [less EXCEPT !.recycled = <<d>> \o @]
  <2>1. d \in set /\ SmallGood(less, set \ {d}, rooms)
    BY <1>2, SmallTakeFront
  <2>2. d \in Chunks
    BY <1>2, SmallGoodMeans
  <2>3. rooms[d] < SizeCutoff
    BY <1>2, <2>1, CutoffType DEF WorthKeeping
  <2>4. SmallGood(new, (set \ {d}) \cup {d}, rooms)
    BY <2>1, <2>2, <2>3, SmallPush
  <2>5. (set \ {d}) \cup {d} = set
    BY <2>1
  <2>6. DropCurrent(bin, size) = new
    BY <1>1, <1>2 DEF DropCurrent, SmallEntries
  <2>7. new.free = bin.free /\ new.cutoff = bin.cutoff
    BY <1>1 DEF SmallEntries
  <2> HIDE DEF new, less, d
  <2> QED BY <2>4, <2>5, <2>6, <2>7
<1>3. CASE ~(bin.current # NoChunk /\ ~WorthKeeping(bin.current, size))
  BY <1>3 DEF DropCurrent
<1> QED BY <1>2, <1>3

\* The last step of acquire(): the head of the second list may be given up.
LEMMA DropCutoffHeadKeeps ==
  ASSUME NEW bin, NEW set, NEW rooms, SmallGood(bin, set, rooms), NEW size
  PROVE  SmallGood(DropCutoffHead(bin, size), set, rooms)
<1>1. bin \in SmallEntries
  BY SmallGoodMeans
<1>2. CASE bin.cutoff # <<>> /\ ~WorthKeeping(Head(bin.cutoff), size)
  <2> DEFINE d == Head(bin.cutoff)
             less == [bin EXCEPT !.cutoff = Tail(@)]
             new == [less EXCEPT !.recycled = <<d>> \o @]
  <2>1. d \in set /\ rooms[d] < SizeCutoff /\ SmallGood(less, set \ {d}, rooms)
    BY <1>2, SmallPop
  <2>2. d \in Chunks
    BY <2>1, SmallGoodMeans DEF Held
  <2>4. SmallGood(new, (set \ {d}) \cup {d}, rooms)
    BY <2>1, <2>2, SmallPush
  <2>5. (set \ {d}) \cup {d} = set
    BY <2>1
  <2>6. DropCutoffHead(bin, size) = new
    BY <1>1, <1>2 DEF DropCutoffHead, SmallEntries
  <2> HIDE DEF new, less, d
  <2> QED BY <2>4, <2>5, <2>6
<1>3. CASE ~(bin.cutoff # <<>> /\ ~WorthKeeping(Head(bin.cutoff), size))
  BY <1>3 DEF DropCutoffHead
<1> QED BY <1>2, <1>3

\* put_arena files an arena by its room.
LEMMA PutSmallKeeps ==
  ASSUME NEW bin, NEW set, NEW rooms, SmallGood(bin, set, rooms),
         NEW c \in Chunks, c \notin set, rooms[c] \in Int
  PROVE  SmallGood(PutSmall(bin, c, rooms[c]), set \cup {c}, rooms)
<1>1. CASE rooms[c] >= SizeCutoff
  BY <1>1, SmallPush DEF PutSmall
<1>2. CASE ~(rooms[c] >= SizeCutoff)
  <2>1. rooms[c] < SizeCutoff
    BY <1>2, CutoffType
  <2> QED BY <1>2, <2>1, SmallPush DEF PutSmall
<1> QED BY <1>1, <1>2

\* release: the arena joins the bin, filed by its room, and so is the one that makes way.
LEMMA SmallReleasedKeeps ==
  ASSUME NEW bin, NEW set, NEW rooms, SmallGood(bin, set, rooms),
         NEW c \in Chunks, c \notin set, rooms[c] \in Int,
         \A d \in set : rooms[d] = Remaining(d) /\ rooms[d] \in Int
  PROVE  SmallGood(SmallReleased(bin, c, rooms[c]), set \cup {c}, rooms)
<1>1. bin \in SmallEntries
  BY SmallGoodMeans
<1>2. CASE bin.current = NoChunk
  BY <1>2, SmallSetFront DEF SmallReleased
<1>3. CASE bin.current # NoChunk /\ rooms[c] > 2 * Remaining(bin.current)
  <2> DEFINE d == bin.current
             less == [bin EXCEPT !.current = NoChunk]
             other == [less EXCEPT !.current = c]
  <2>1. d \in set /\ d \in Chunks /\ SmallGood(less, set \ {d}, rooms)
    BY <1>3, SmallTakeFront, SmallGoodMeans
  <2>2. less.current = NoChunk /\ other = [bin EXCEPT !.current = c]
    BY <1>1 DEF SmallEntries
  <2> HIDE DEF d, less, other
  <2>3. SmallGood([less EXCEPT !.current = c], (set \ {d}) \cup {c}, rooms)
    BY <2>1, <2>2, SmallSetFront
  <2>4. SmallGood(PutSmall(other, d, rooms[d]), ((set \ {d}) \cup {c}) \cup {d}, rooms)
    <3>1. d \notin (set \ {d}) \cup {c} /\ rooms[d] \in Int
      BY <2>1
    <3> QED BY <2>1, <2>3, <3>1, PutSmallKeeps DEF other
  <2>5. ((set \ {d}) \cup {c}) \cup {d} = set \cup {c}
    BY <2>1
  <2>6. SmallReleased(bin, c, rooms[c]) = PutSmall(other, d, rooms[d])
    BY <1>3, <2>1, <2>2 DEF SmallReleased, d
  <2> QED BY <2>4, <2>5, <2>6
<1>4. CASE bin.current # NoChunk /\ ~(rooms[c] > 2 * Remaining(bin.current))
  BY <1>4, PutSmallKeeps DEF SmallReleased
<1> QED BY <1>2, <1>3, <1>4

\* extract: the arena leaves the bin, wherever it was.
LEMMA SmallExtractedKeeps ==
  ASSUME NEW bin, NEW set, NEW rooms, SmallGood(bin, set, rooms), NEW c \in Chunks
  PROVE  SmallGood(SmallExtracted(bin, c), set \ {c}, rooms)
<1>1. /\ bin \in SmallEntries /\ bin.current \in Chunks \cup {NoChunk}
      /\ SmallLists(bin) \in Lists(Kinds)
      /\ HoldsOnce(SmallLists(bin), bin.current, set)
      /\ SmallLists(bin)["free"] = bin.free /\ SmallLists(bin)["cutoff"] = bin.cutoff
      /\ SmallLists(bin)["recycled"] = bin.recycled
  BY SmallGoodMeans, SmallListsType
<1>2. CASE bin.current = c
  <2>1. bin.current # NoChunk
    BY <1>2, ChunkAssumption
  <2> QED BY <1>2, <2>1, SmallTakeFront DEF SmallExtracted
<1>3. CASE bin.current # c
  <2> DEFINE new == SmallExtracted(bin, c)
  <2>1. PICK lists : lists = [l \in Kinds |-> RemoveFirst(SmallLists(bin)[l], c)]
    OBVIOUS
  <2>2. /\ lists \in Lists(Kinds)
        /\ \A l \in Kinds : ToSet(lists[l]) = ToSet(SmallLists(bin)[l]) \ {c}
        /\ HoldsOnce(lists, bin.current, set \ {c})
    <3>1. PICK old, front : old = SmallLists(bin) /\ front = bin.current
      OBVIOUS
    <3>2. /\ old \in Lists(Kinds) /\ front \in Chunks \cup {NoChunk}
          /\ HoldsOnce(old, front, set) /\ Erased(Kinds, old, lists, c)
          /\ c # front
      <4>1. \A l \in Kinds : RemoveFirst(SmallLists(bin)[l], c) \in Seq(Chunks)
        <5>1. Held(Kinds, SmallLists(bin), bin.current, set)
          BY SmallGoodMeans
        <5>2. \A l \in Kinds : SmallLists(bin)[l] \in Seq(Chunks) /\ IsInjective(SmallLists(bin)[l])
          BY <1>1, <5>1 DEF Held, Lists
        <5> QED BY <5>2, ListErase
      <4> QED BY <1>1, <1>3, <2>1, <3>1, <4>1 DEF Erased, Lists
    <3>3. /\ lists \in Lists(Kinds)
          /\ \A l \in Kinds : ToSet(lists[l]) = ToSet(old[l]) \ {c}
          /\ HoldsOnce(lists, front, set \ {c})
      <4>1. lists \in Lists(Kinds)
        BY <3>2 DEF Erased
      <4>2. \A l \in Kinds : ToSet(lists[l]) = ToSet(old[l]) \ {c}
        <5>1. Held(Kinds, old, front, set)
          BY <3>2, HoldsMeans
        <5>2. \A l \in Kinds : old[l] \in Seq(Chunks) /\ IsInjective(old[l])
          BY <3>2, <5>1 DEF Held, Lists
        <5>3. \A l \in Kinds : lists[l] = RemoveFirst(old[l], c)
          BY <3>2 DEF Erased
        <5> QED BY <5>2, <5>3, ListErase
      <4>3. HoldsOnce(lists, front, set \ {c})
        BY <3>2, HoldsErase
      <4> QED BY <4>1, <4>2, <4>3
    <3> QED BY <3>1, <3>3
  <2>3. /\ lists["free"] = RemoveFirst(bin.free, c) /\ lists["cutoff"] = RemoveFirst(bin.cutoff, c)
        /\ lists["recycled"] = RemoveFirst(bin.recycled, c)
    BY <1>1, <2>1 DEF Kinds
  <2>4. /\ lists["free"] \in Seq(Chunks) /\ lists["cutoff"] \in Seq(Chunks)
        /\ lists["recycled"] \in Seq(Chunks)
    BY <2>2 DEF Kinds, Lists
  <2>5. new = [bin EXCEPT !.free = lists["free"], !.cutoff = lists["cutoff"],
                          !.recycled = lists["recycled"]]
    BY <1>1, <1>3, <2>3 DEF SmallExtracted, SmallEntries
  <2> HIDE DEF new
  <2>6. /\ new \in SmallEntries /\ new.current = bin.current /\ new.free = lists["free"]
        /\ new.cutoff = lists["cutoff"] /\ new.recycled = lists["recycled"]
    BY <1>1, <2>4, <2>5 DEF SmallEntries
  <2>7. SmallLists(new) = lists
    BY <2>2, <2>6, SmallListsType DEF Kinds, Lists
  <2>8. /\ ToSet(new.free) \subseteq ToSet(bin.free) /\ ToSet(new.cutoff) \subseteq ToSet(bin.cutoff)
        /\ ToSet(new.recycled) \subseteq ToSet(bin.recycled)
    BY <1>1, <2>2, <2>6 DEF Kinds
  <2>9. SmallGood(new, set \ {c}, rooms)
    BY <2>2, <2>6, <2>7, <2>8 DEF SmallGood
  <2> QED BY <2>9 DEF new
<1> QED BY <1>2, <1>3

-----------------------------------------------------------------------------
(* The bins of the step-split allocator.                                   *)

SplitEntries == [cached : Chunks \cup {NoChunk}, arenas : Lists(BinIds), present : SUBSET BinIds]

\* Every list holds the arenas of its bin, and the bits say which are not empty.
InOrder(arenas, present, id, rooms) ==
  \A bin \in BinIds :
    /\ \A c \in ToSet(arenas[bin]) : ArenaBinClamped(id, rooms[c]) = bin
    /\ bin \in present <=> arenas[bin] # <<>>

SplitGood(entry, id, set, rooms) ==
  /\ entry \in SplitEntries
  /\ HoldsOnce(entry.arenas, entry.cached, set)
  /\ InOrder(entry.arenas, entry.present, id, rooms)

\* What it says of the parts of an entry.
LEMMA SplitGoodMeans ==
  ASSUME NEW entry, NEW id, NEW set, NEW rooms, SplitGood(entry, id, set, rooms)
  PROVE  /\ entry \in SplitEntries /\ entry.cached \in Chunks \cup {NoChunk}
         /\ entry.arenas \in Lists(BinIds) /\ entry.present \in SUBSET BinIds
         /\ HoldsOnce(entry.arenas, entry.cached, set)
         /\ Held(BinIds, entry.arenas, entry.cached, set)
         /\ InOrder(entry.arenas, entry.present, id, rooms)
<1>1. /\ entry \in SplitEntries /\ HoldsOnce(entry.arenas, entry.cached, set)
      /\ InOrder(entry.arenas, entry.present, id, rooms)
  BY DEF SplitGood
<1>2. /\ entry.arenas \in Lists(BinIds) /\ entry.present \in SUBSET BinIds
      /\ entry.cached \in Chunks \cup {NoChunk}
  BY <1>1 DEF SplitEntries
<1> QED BY <1>1, <1>2, HoldsMeans

\* It does not depend on the room of other arenas.
LEMMA SplitGoodRooms ==
  ASSUME NEW entry, NEW id, NEW set, NEW rooms, SplitGood(entry, id, set, rooms),
         NEW others, \A c \in set : others[c] = rooms[c]
  PROVE  SplitGood(entry, id, set, others)
<1>1. /\ Held(BinIds, entry.arenas, entry.cached, set) /\ entry.arenas \in Lists(BinIds)
      /\ InOrder(entry.arenas, entry.present, id, rooms)
  BY SplitGoodMeans
<1>2. ASSUME NEW bin \in BinIds, NEW c \in ToSet(entry.arenas[bin]) PROVE c \in set
  <2>1. c \in Chunks
    BY <1>1, ListMembers DEF Lists
  <2> QED BY <1>1, <2>1 DEF Held
<1>3. InOrder(entry.arenas, entry.present, id, others)
  BY <1>1, <1>2 DEF InOrder
<1> QED BY <1>3 DEF SplitGood

\* The cached arena is taken.
LEMMA SplitTakeFront ==
  ASSUME NEW entry, NEW id, NEW set, NEW rooms, SplitGood(entry, id, set, rooms),
         entry.cached # NoChunk
  PROVE  /\ entry.cached \in set /\ entry.cached \in Chunks
         /\ SplitGood([entry EXCEPT !.cached = NoChunk], id, set \ {entry.cached}, rooms)
<1>1. /\ entry \in SplitEntries /\ entry.cached \in Chunks /\ entry.arenas \in Lists(BinIds)
      /\ HoldsOnce(entry.arenas, entry.cached, set)
      /\ InOrder(entry.arenas, entry.present, id, rooms)
  BY SplitGoodMeans
<1> DEFINE new == [entry EXCEPT !.cached = NoChunk]
<1>2. /\ new \in SplitEntries /\ new.cached = NoChunk /\ new.arenas = entry.arenas
      /\ new.present = entry.present
  BY <1>1 DEF SplitEntries
<1> HIDE DEF new
<1>3. entry.cached \in set /\ HoldsOnce(entry.arenas, NoChunk, set \ {entry.cached})
  BY <1>1, HoldsTakeFront
<1>4. SplitGood(new, id, set \ {entry.cached}, rooms)
  BY <1>1, <1>2, <1>3 DEF SplitGood
<1> QED BY <1>1, <1>3, <1>4 DEF new

\* An arena becomes the cached one.
LEMMA SplitSetFront ==
  ASSUME NEW entry, NEW id, NEW set, NEW rooms, SplitGood(entry, id, set, rooms),
         entry.cached = NoChunk, NEW c \in Chunks, c \notin set
  PROVE  SplitGood([entry EXCEPT !.cached = c], id, set \cup {c}, rooms)
<1>1. /\ entry \in SplitEntries /\ entry.arenas \in Lists(BinIds)
      /\ HoldsOnce(entry.arenas, NoChunk, set)
      /\ InOrder(entry.arenas, entry.present, id, rooms)
  BY SplitGoodMeans
<1> DEFINE new == [entry EXCEPT !.cached = c]
<1>2. /\ new \in SplitEntries /\ new.cached = c /\ new.arenas = entry.arenas
      /\ new.present = entry.present
  BY <1>1 DEF SplitEntries
<1> HIDE DEF new
<1>3. HoldsOnce(entry.arenas, c, set \cup {c})
  BY <1>1, HoldsSetFront
<1>4. SplitGood(new, id, set \cup {c}, rooms)
  BY <1>1, <1>2, <1>3 DEF SplitGood
<1> QED BY <1>4 DEF new

\* put_arena_ files an arena by its room and sets the bit.
LEMMA PutSplitKeeps ==
  ASSUME NEW entry, NEW id \in AlignmentIds, NEW set, NEW rooms, SplitGood(entry, id, set, rooms),
         NEW c \in Chunks, c \notin set, rooms[c] \in Nat
  PROVE  SplitGood(PutSplit(entry, id, c, rooms[c]), id, set \cup {c}, rooms)
<1> DEFINE bin == ArenaBinClamped(id, rooms[c])
           arenas == [entry.arenas EXCEPT ![bin] = <<c>> \o @]
           present == IF entry.arenas[bin] = <<>> THEN entry.present \cup {bin} ELSE entry.present
           new == PutSplit(entry, id, c, rooms[c])
<1>1. /\ entry \in SplitEntries /\ entry.cached \in Chunks \cup {NoChunk}
      /\ entry.arenas \in Lists(BinIds) /\ entry.present \in SUBSET BinIds
      /\ HoldsOnce(entry.arenas, entry.cached, set)
      /\ Held(BinIds, entry.arenas, entry.cached, set)
      /\ InOrder(entry.arenas, entry.present, id, rooms)
  BY SplitGoodMeans
<1>2. bin \in BinIds
  BY RoomBin
<1>3. new = [entry EXCEPT !.arenas = arenas, !.present = present]
  BY <1>1, <1>2 DEF PutSplit, SplitEntries, Lists
<1> HIDE DEF new, bin
<1>4. /\ <<c>> \o entry.arenas[bin] \in Seq(Chunks)
      /\ ToSet(<<c>> \o entry.arenas[bin]) = ToSet(entry.arenas[bin]) \cup {c}
  <2>1. entry.arenas[bin] \in Seq(Chunks) /\ IsInjective(entry.arenas[bin])
        /\ c \notin ToSet(entry.arenas[bin])
    BY <1>1, <1>2 DEF Held, Lists
  <2> QED BY <2>1, ListPush
<1>5. Pushed(BinIds, entry.arenas, arenas, bin, c)
  BY <1>1, <1>2, <1>4 DEF Pushed, Lists
<1> HIDE DEF arenas
<1>6. HoldsOnce(arenas, entry.cached, set \cup {c})
  BY <1>1, <1>2, <1>5, HoldsPush
<1>7. arenas[bin] # <<>>
  <2>1. c \in ToSet(arenas[bin]) /\ arenas[bin] \in Seq(Chunks)
    BY <1>4, <1>5 DEF Pushed
  <2> QED BY <2>1, ListMembers
<1>8. InOrder(arenas, present, id, rooms)
  <2>1. ASSUME NEW b \in BinIds, b = bin
        PROVE  /\ \A d \in ToSet(arenas[b]) : ArenaBinClamped(id, rooms[d]) = b
               /\ b \in present <=> arenas[b] # <<>>
    <3>1. ToSet(arenas[b]) = ToSet(entry.arenas[b]) \cup {c}
      BY <1>4, <1>5, <2>1 DEF Pushed
    <3>2. \A d \in ToSet(entry.arenas[b]) : ArenaBinClamped(id, rooms[d]) = b
      BY <1>1 DEF InOrder
    <3>3. ArenaBinClamped(id, rooms[c]) = b
      BY <2>1 DEF bin
    <3>4. b \in present
      BY <1>1, <2>1 DEF InOrder
    <3> QED BY <1>7, <2>1, <3>1, <3>2, <3>3, <3>4
  <2>2. ASSUME NEW b \in BinIds, b # bin
        PROVE  /\ \A d \in ToSet(arenas[b]) : ArenaBinClamped(id, rooms[d]) = b
               /\ b \in present <=> arenas[b] # <<>>
    <3>1. arenas[b] = entry.arenas[b]
      BY <1>5, <2>2 DEF Pushed
    <3>2. b \in present <=> b \in entry.present
      BY <2>2
    <3> HIDE DEF present
    <3> QED BY <1>1, <3>1, <3>2 DEF InOrder
  <2> HIDE DEF present
  <2> QED BY <2>1, <2>2 DEF InOrder
<1>9. present \in SUBSET BinIds /\ arenas \in Lists(BinIds)
  BY <1>1, <1>2, <1>5 DEF Pushed
<1> HIDE DEF present
<1>10. /\ new \in SplitEntries /\ new.cached = entry.cached /\ new.arenas = arenas
       /\ new.present = present
  BY <1>1, <1>3, <1>9 DEF SplitEntries
<1>11. SplitGood(new, id, set \cup {c}, rooms)
  BY <1>6, <1>8, <1>10 DEF SplitGood
<1> QED BY <1>11 DEF new

\* release_arena_
LEMMA SplitReleasedKeeps ==
  ASSUME NEW entry, NEW id \in AlignmentIds, NEW set, NEW rooms, SplitGood(entry, id, set, rooms),
         NEW c \in Chunks, c \notin set, rooms[c] \in Nat,
         \A d \in set : rooms[d] = Remaining(d) /\ rooms[d] \in Nat
  PROVE  SplitGood(SplitReleased(entry, id, c, rooms[c]), id, set \cup {c}, rooms)
<1>1. entry \in SplitEntries
  BY SplitGoodMeans
<1>2. CASE entry.cached = NoChunk
  BY <1>2, SplitSetFront DEF SplitReleased
<1>3. CASE entry.cached # NoChunk /\ rooms[c] >= 2 * Remaining(entry.cached)
  <2> DEFINE d == entry.cached
             less == [entry EXCEPT !.cached = NoChunk]
             other == [less EXCEPT !.cached = c]
  <2>1. d \in set /\ d \in Chunks /\ SplitGood(less, id, set \ {d}, rooms)
    BY <1>3, SplitTakeFront
  <2>2. less.cached = NoChunk /\ other = [entry EXCEPT !.cached = c]
    BY <1>1 DEF SplitEntries
  <2> HIDE DEF d, less, other
  <2>3. SplitGood([less EXCEPT !.cached = c], id, (set \ {d}) \cup {c}, rooms)
    BY <2>1, <2>2, SplitSetFront
  <2>4. SplitGood(PutSplit(other, id, d, rooms[d]), id, ((set \ {d}) \cup {c}) \cup {d}, rooms)
    <3>1. d \notin (set \ {d}) \cup {c} /\ rooms[d] \in Nat
      BY <2>1
    <3> QED BY <2>1, <2>3, <3>1, PutSplitKeeps DEF other
  <2>5. ((set \ {d}) \cup {c}) \cup {d} = set \cup {c}
    BY <2>1
  <2>6. SplitReleased(entry, id, c, rooms[c]) = PutSplit(other, id, d, rooms[d])
    BY <1>3, <2>1, <2>2 DEF SplitReleased, d
  <2> QED BY <2>4, <2>5, <2>6
<1>4. CASE entry.cached # NoChunk /\ ~(rooms[c] >= 2 * Remaining(entry.cached))
  BY <1>4, PutSplitKeeps DEF SplitReleased
<1> QED BY <1>2, <1>3, <1>4

\* acquire_bin_arena: the first arena of a bin that is not empty.
WithoutFirst(entry, bin) ==
  [entry EXCEPT !.arenas[bin] = Tail(entry.arenas[bin]),
                !.present = IF Len(entry.arenas[bin]) = 1 THEN @ \ {bin} ELSE @]

\* The first arena of a bin is taken, and the bit cleared if it was the last.
LEMMA SplitPop ==
  ASSUME NEW entry, NEW id, NEW set, NEW rooms, SplitGood(entry, id, set, rooms),
         NEW bin \in BinIds, bin \in entry.present
  PROVE  LET list == entry.arenas[bin]
         IN  /\ Head(list) \in set /\ Head(list) \in Chunks
             /\ ArenaBinClamped(id, rooms[Head(list)]) = bin
             /\ SplitGood(WithoutFirst(entry, bin), id, set \ {Head(list)}, rooms)
<1> DEFINE list == entry.arenas[bin]
           c == Head(list)
           arenas == [entry.arenas EXCEPT ![bin] = Tail(list)]
           present == IF Len(list) = 1 THEN entry.present \ {bin} ELSE entry.present
           new == [entry EXCEPT !.arenas[bin] = Tail(list),
                                !.present = IF Len(list) = 1 THEN @ \ {bin} ELSE @]
<1>1. /\ entry \in SplitEntries /\ entry.cached \in Chunks \cup {NoChunk}
      /\ entry.arenas \in Lists(BinIds) /\ entry.present \in SUBSET BinIds
      /\ HoldsOnce(entry.arenas, entry.cached, set)
      /\ Held(BinIds, entry.arenas, entry.cached, set)
      /\ InOrder(entry.arenas, entry.present, id, rooms)
  BY SplitGoodMeans
<1>2. list \in Seq(Chunks) /\ IsInjective(list) /\ list # <<>>
  BY <1>1 DEF Held, Lists, InOrder
<1>3. new = [entry EXCEPT !.arenas = arenas, !.present = present]
  BY <1>1 DEF SplitEntries, Lists
<1>4. /\ c \in Chunks /\ c \in ToSet(list) /\ Tail(list) \in Seq(Chunks)
      /\ ToSet(Tail(list)) = ToSet(list) \ {c} /\ Len(Tail(list)) = Len(list) - 1
      /\ Len(list) \in Nat
  BY <1>2, ListPop, LenProperties
<1>5. Popped(BinIds, entry.arenas, arenas, bin)
  BY <1>1, <1>2, <1>4 DEF Popped, Lists
<1> HIDE DEF new, arenas
<1>6. c \in set /\ HoldsOnce(arenas, entry.cached, set \ {c})
  BY <1>1, <1>5, HoldsPop
<1>7. ArenaBinClamped(id, rooms[c]) = bin
  BY <1>1, <1>4 DEF InOrder
<1>8. arenas[bin] = Tail(list) /\ (Tail(list) = <<>> <=> Len(list) = 1)
  <2>1. Tail(list) = <<>> <=> Len(Tail(list)) = 0
    BY <1>4, EmptySeq
  <2> QED BY <1>4, <1>5, <2>1 DEF Popped
<1>9. InOrder(arenas, present, id, rooms)
  <2>1. ASSUME NEW b \in BinIds, b = bin
        PROVE  /\ \A d \in ToSet(arenas[b]) : ArenaBinClamped(id, rooms[d]) = b
               /\ b \in present <=> arenas[b] # <<>>
    <3>1. \A d \in ToSet(arenas[b]) : d \in ToSet(list)
      BY <1>4, <1>8, <2>1
    <3>2. b \in present <=> Len(list) # 1
      BY <2>1
    <3> QED BY <1>1, <1>8, <2>1, <3>1, <3>2 DEF InOrder
  <2>2. ASSUME NEW b \in BinIds, b # bin
        PROVE  /\ \A d \in ToSet(arenas[b]) : ArenaBinClamped(id, rooms[d]) = b
               /\ b \in present <=> arenas[b] # <<>>
    <3>1. arenas[b] = entry.arenas[b]
      BY <1>5, <2>2 DEF Popped
    <3>2. b \in present <=> b \in entry.present
      BY <2>2
    <3> HIDE DEF present
    <3> QED BY <1>1, <3>1, <3>2 DEF InOrder
  <2> HIDE DEF present
  <2> QED BY <2>1, <2>2 DEF InOrder
<1>10. present \in SUBSET BinIds /\ arenas \in Lists(BinIds)
  BY <1>1, <1>5 DEF Popped
<1> HIDE DEF present
<1>11. /\ new \in SplitEntries /\ new.cached = entry.cached /\ new.arenas = arenas
       /\ new.present = present
  BY <1>1, <1>3, <1>10 DEF SplitEntries
<1>12. SplitGood(new, id, set \ {c}, rooms)
  BY <1>6, <1>9, <1>11 DEF SplitGood
<1> QED BY <1>4, <1>6, <1>7, <1>12 DEF new, WithoutFirst

\* extract_arena: it looks at the bit of the bin that the room of the arena points to.
LEMMA SplitExtractedKeeps ==
  ASSUME NEW entry, NEW id \in AlignmentIds, NEW set, NEW rooms, SplitGood(entry, id, set, rooms),
         NEW c \in Chunks, c \in set, rooms[c] = Remaining(c), rooms[c] \in Nat
  PROVE  SplitGood(SplitExtracted(entry, id, c), id, set \ {c}, rooms)
<1>1. /\ entry \in SplitEntries /\ entry.cached \in Chunks \cup {NoChunk}
      /\ entry.arenas \in Lists(BinIds) /\ entry.present \in SUBSET BinIds
      /\ HoldsOnce(entry.arenas, entry.cached, set)
      /\ Held(BinIds, entry.arenas, entry.cached, set)
      /\ InOrder(entry.arenas, entry.present, id, rooms)
  BY SplitGoodMeans
<1>2. CASE entry.cached = c
  <2>1. entry.cached # NoChunk
    BY <1>2, ChunkAssumption
  <2> QED BY <1>2, <2>1, SplitTakeFront DEF SplitExtracted
<1>3. CASE entry.cached # c
  <2> DEFINE bin == ArenaBinClamped(id, Remaining(c))
             arenas == [b \in BinIds |-> RemoveFirst(entry.arenas[b], c)]
             present == IF arenas[bin] = <<>> THEN entry.present \ {bin} ELSE entry.present
             new == SplitExtracted(entry, id, c)
  <2>1. bin \in BinIds
    BY RoomBin
  <2>2. new = [entry EXCEPT !.arenas = arenas, !.present = present]
    BY <1>1, <1>3 DEF SplitExtracted, SplitEntries
  <2>3. ASSUME NEW b \in BinIds
        PROVE  /\ entry.arenas[b] \in Seq(Chunks) /\ IsInjective(entry.arenas[b])
               /\ RemoveFirst(entry.arenas[b], c) \in Seq(Chunks)
               /\ ToSet(RemoveFirst(entry.arenas[b], c)) = ToSet(entry.arenas[b]) \ {c}
               /\ c \notin ToSet(entry.arenas[b]) => RemoveFirst(entry.arenas[b], c) = entry.arenas[b]
    <3>1. entry.arenas[b] \in Seq(Chunks) /\ IsInjective(entry.arenas[b])
      BY <1>1 DEF Held, Lists
    <3> QED BY <3>1, ListErase
  <2>4. Erased(BinIds, entry.arenas, arenas, c)
    BY <2>3 DEF Erased, Lists
  <2> HIDE DEF new, arenas, bin
  <2>5. HoldsOnce(arenas, entry.cached, set \ {c})
    BY <1>1, <1>3, <2>4, HoldsErase
  <2>6. ASSUME NEW b \in BinIds
        PROVE  /\ ToSet(arenas[b]) = ToSet(entry.arenas[b]) \ {c}
               /\ c \notin ToSet(entry.arenas[b]) => arenas[b] = entry.arenas[b]
    BY <2>3, <2>4 DEF Erased
  <2>7. \A b \in BinIds : c \in ToSet(entry.arenas[b]) <=> b = bin
    <3>1. PICK k \in BinIds : c \in ToSet(entry.arenas[k])
      BY <1>1, <1>3 DEF Held
    <3>2. \A b \in BinIds : c \in ToSet(entry.arenas[b]) => b = bin
      BY <1>1 DEF InOrder, bin
    <3> QED BY <3>1, <3>2
  <2>8. InOrder(arenas, present, id, rooms)
    <3>1. ASSUME NEW b \in BinIds, b = bin
          PROVE  /\ \A d \in ToSet(arenas[b]) : ArenaBinClamped(id, rooms[d]) = b
                 /\ b \in present <=> arenas[b] # <<>>
      <4>1. b \in entry.present
        <5>1. entry.arenas[b] # <<>>
          <6>1. c \in ToSet(entry.arenas[b]) /\ entry.arenas[b] \in Seq(Chunks)
            BY <2>3, <2>7, <3>1
          <6> QED BY <6>1, ListMembers
        <5> QED BY <1>1, <5>1 DEF InOrder
      <4>2. b \in present <=> arenas[b] # <<>>
        BY <3>1, <4>1
      <4> HIDE DEF present
      <4> QED BY <1>1, <2>6, <4>2 DEF InOrder
    <3>2. ASSUME NEW b \in BinIds, b # bin
          PROVE  /\ \A d \in ToSet(arenas[b]) : ArenaBinClamped(id, rooms[d]) = b
                 /\ b \in present <=> arenas[b] # <<>>
      <4>1. arenas[b] = entry.arenas[b]
        BY <2>6, <2>7, <3>2
      <4>2. b \in present <=> b \in entry.present
        BY <3>2
      <4> HIDE DEF present
      <4> QED BY <1>1, <4>1, <4>2 DEF InOrder
    <3> HIDE DEF present
    <3> QED BY <3>1, <3>2 DEF InOrder
  <2>9. present \in SUBSET BinIds /\ arenas \in Lists(BinIds)
    BY <1>1, <2>4 DEF Erased
  <2> HIDE DEF present
  <2>10. /\ new \in SplitEntries /\ new.cached = entry.cached /\ new.arenas = arenas
         /\ new.present = present
    BY <1>1, <2>2, <2>9 DEF SplitEntries
  <2>11. SplitGood(new, id, set \ {c}, rooms)
    BY <2>5, <2>8, <2>10 DEF SplitGood
  <2> QED BY <2>11 DEF new
<1> QED BY <1>2, <1>3

-----------------------------------------------------------------------------
(* The inductive invariant.                                                *)

Arenas == [type : ArenaTypes, alignment : Alignments \cup {0}, top : Nat, freed : Nat, retired : Nat]

ArenaInv ==
  /\ arena \in [Chunks -> Arenas]
  /\ live \in [Chunks -> [Sizes -> Nat]]
  /\ \A c \in Chunks :
       /\ arena[c].top <= MemorySize[c]
       /\ arena[c].type = "none" => arena[c] = NoArena
       /\ arena[c].type # "none" => arena[c].alignment \in Alignments

HandInv ==
  /\ hand \in Requests \cup {NoRequest}
  /\ hand.arena # NoChunk => arena[hand.arena].type # "none"

BinsInv ==
  /\ small \in [AlignmentIds -> SmallEntries] /\ split \in [AlignmentIds -> SplitEntries]
  /\ \A id \in AlignmentIds : /\ SmallGood(small[id], Filed("small", id), Rooms)
                              /\ SplitGood(split[id], id, Filed("split", id), Rooms)

PlaceInv ==
  /\ pool \in SUBSET Chunks /\ lost \in SUBSET Chunks
  /\ cache \in [Regions -> Chunks \cup {NoChunk}]
  /\ {c \in Chunks : arena[c].type = "none"} = pool \cup Cached \cup lost
  /\ pool \cap Cached = {} /\ pool \cap lost = {} /\ Cached \cap lost = {}
  /\ \A r \in Regions : cache[r] # NoChunk => RegionOf(cache[r]) = r

CountInv == smallTotal \in Nat /\ splitTotal \in Nat /\ TotalsCount

\* Where other threads free aligned sizes only, nothing is missing.
BytesInv ==
  \A c \in Chunks :
    /\ arena[c].freed + arena[c].retired + LiveBytes(c) <= arena[c].top
    /\ ~RetireUnaligned => arena[c].top = arena[c].freed + arena[c].retired + LiveBytes(c)

StorageInv == storage \in 0 .. StorageLimit /\ StorageCovers

IInv == /\ ArenaInv /\ HandInv /\ BinsInv /\ PlaceInv /\ CountInv
        /\ BytesInv /\ StorageInv /\ RequestFits /\ NothingMissed

-----------------------------------------------------------------------------
(* Sizes, alignments and regions.                                          *)

\* locate_alignment finds the alignment.
LEMMA AlignmentIdFacts ==
  ASSUME NEW a \in Alignments
  PROVE  AlignmentId(a) \in AlignmentIds /\ AlignmentOf(AlignmentId(a)) = a
BY DEF AlignmentId, Alignments

\* Aligned sizes are positive and not less than the size.
LEMMA SizeFacts ==
  ASSUME NEW size \in Sizes, NEW a \in Alignments
  PROVE  /\ size \in Nat \ {0} /\ AlignUp(size, a) \in Nat \ {0} /\ size <= AlignUp(size, a)
         /\ IsAligned(size, a) => AlignUp(size, a) = size
<1>1. size \in Nat \ {0} /\ a \in Nat \ {0}
  BY SizesAssumption, AlignmentType
<1>2. /\ AlignUp(size, a) \in Nat /\ size <= AlignUp(size, a) /\ AlignUp(size, a) # 0
      /\ \A w \in Nat : size <= w /\ IsAligned(w, a) => AlignUp(size, a) <= w
  BY <1>1, AlignFacts
<1>3. IsAligned(size, a) => AlignUp(size, a) <= size
  BY <1>1, <1>2
<1> QED BY <1>1, <1>2, <1>3

\* A small request is not larger than the cutoff, its alignment included.
LEMMA SmallSizeFits ==
  ASSUME NEW size \in Sizes, size <= SizeCutoff, NEW a \in Alignments
  PROVE  AlignUp(size, a) <= SizeCutoff
<1>1. size \in Nat /\ a \in Nat \ {0} /\ SizeCutoff \in Nat
  BY SizeFacts, AlignmentType, CutoffType
<1>2. PICK id \in AlignmentIds : a = AlignmentOf(id)
  BY DEF Alignments
<1>3. IsAligned(SizeCutoff, a)
  <2> DEFINE m == IntPow2[MaxAlignmentLog2]
  <2>0. m \in Nat \ {0} /\ m % a = 0
    BY <1>2, AlignmentAssumption, PowerType, PowerAligned DEF IsAligned
  <2> HIDE DEF m
  <2>1. PICK k \in Nat : SizeCutoff = k * m
    BY <1>1, <2>0, CutoffType, ModQuotient DEF IsAligned, m
  <2>2. PICK j \in Nat : m = j * a
    BY <1>1, <2>0, ModQuotient
  <2>3. SizeCutoff = (k * j) * a /\ k * j \in Nat
    BY <1>1, <2>1, <2>2
  <2>4. ((k * j) * a) % a = 0
    BY <1>1, <2>3, ModZero
  <2> QED BY <2>3, <2>4 DEF IsAligned
<1> QED BY <1>1, <1>3, AlignFacts

\* Each chunk has a region of its size.
LEMMA RegionFacts ==
  /\ Regions \subseteq Nat
  /\ \A r \in Regions : RegionSizes[r] \in Nat
  /\ \A c \in Chunks : RegionOf(c) \in Regions /\ RegionSizes[RegionOf(c)] = MemorySize[c]
  /\ \A c \in Chunks : MemorySize[c] \in Nat \ {0}
<1>1. RegionSizes \in Seq(Nat)
  BY RegionAssumption
<1>2. /\ Len(RegionSizes) \in Nat /\ \A r \in 1 .. Len(RegionSizes) : RegionSizes[r] \in Nat
  BY <1>1, LenProperties, ElementOfSeq
<1>3. \A c \in Chunks : \E r \in Regions : RegionSizes[r] = MemorySize[c]
  BY RegionAssumption
<1>4. \A c \in Chunks : RegionOf(c) \in Regions /\ RegionSizes[RegionOf(c)] = MemorySize[c]
  BY <1>3 DEF RegionOf
<1> QED BY <1>2, <1>4, ChunkAssumption DEF Regions

\* What the invariant says of one arena.
LEMMA ArenaFacts ==
  ASSUME ArenaInv, NEW c \in Chunks
  PROVE  /\ arena[c].type \in ArenaTypes /\ arena[c].top \in Nat /\ arena[c].freed \in Nat
         /\ arena[c].retired \in Nat /\ arena[c].top <= MemorySize[c]
         /\ Remaining(c) \in Nat /\ Rooms[c] = Remaining(c)
         /\ arena[c].type = "none" => arena[c] = NoArena
         /\ arena[c].type # "none"
              => /\ arena[c].alignment \in Alignments
                 /\ AlignmentId(arena[c].alignment) \in AlignmentIds
                 /\ AlignmentOf(AlignmentId(arena[c].alignment)) = arena[c].alignment
<1>1. arena[c] \in Arenas
  BY DEF ArenaInv
<1>2. /\ arena[c].type \in ArenaTypes /\ arena[c].top \in Nat /\ arena[c].freed \in Nat
      /\ arena[c].retired \in Nat /\ arena[c].top <= MemorySize[c]
      /\ arena[c].type = "none" => arena[c] = NoArena
      /\ arena[c].type # "none" => arena[c].alignment \in Alignments
  BY <1>1 DEF ArenaInv, Arenas
<1>3. Remaining(c) \in Nat /\ Rooms[c] = Remaining(c)
  BY <1>2, RegionFacts DEF Remaining, Rooms
<1> QED BY <1>2, <1>3, AlignmentIdFacts

\* What is filed are arenas of the allocator and the alignment.
LEMMA FiledFacts ==
  ASSUME ArenaInv, NEW type \in {"small", "split"}, NEW id, NEW c \in Filed(type, id)
  PROVE  /\ c \in Chunks /\ arena[c].type = type /\ id \in AlignmentIds
         /\ arena[c].alignment = AlignmentOf(id) /\ hand.arena # c
         /\ Remaining(c) \in Nat /\ Rooms[c] = Remaining(c)
<1>1. /\ c \in Chunks /\ arena[c].type = type /\ arena[c].type # "none"
      /\ AlignmentId(arena[c].alignment) = id /\ hand.arena # c
  BY DEF Filed
<1> QED BY <1>1, ArenaFacts

-----------------------------------------------------------------------------
(* The bytes of the blocks clients hold.                                   *)

Weights(alive, a) == [size \in Sizes |-> alive[size] * AlignUp(size, a)]

\* The aligned bytes of blocks are none only if there are no blocks.
LEMMA WeightFacts ==
  ASSUME NEW alive \in [Sizes -> Nat], NEW a \in Alignments
  PROVE  /\ SumFunctionOnSet(Weights(alive, a), Sizes) \in Nat
         /\ SumFunctionOnSet(Weights(alive, a), Sizes) = 0 <=> \A size \in Sizes : alive[size] = 0
<1> DEFINE f == Weights(alive, a)
<1>0. IsFiniteSet(Sizes)
  BY SizesAssumption
<1>1. ASSUME NEW size \in Sizes
      PROVE  /\ f[size] \in Nat /\ f[size] = alive[size] * AlignUp(size, a)
             /\ f[size] = 0 <=> alive[size] = 0
  <2>1. alive[size] \in Nat /\ AlignUp(size, a) \in Nat \ {0}
    BY SizeFacts
  <2>2. f[size] = alive[size] * AlignUp(size, a)
    BY DEF Weights
  <2> HIDE DEF f
  <2> QED BY <2>1, <2>2
<1> HIDE DEF f
<1>2. SumFunctionOnSet(f, Sizes) \in Nat
  BY <1>0, <1>1, SumType
<1>3. ASSUME SumFunctionOnSet(f, Sizes) = 0, NEW size \in Sizes PROVE alive[size] = 0
  <2>1. f[size] <= SumFunctionOnSet(f, Sizes)
    BY <1>0, <1>1, SumAtLeast
  <2> QED BY <1>1, <1>3, <2>1
<1>4. ASSUME \A size \in Sizes : alive[size] = 0 PROVE SumFunctionOnSet(f, Sizes) = 0
  BY <1>0, <1>1, <1>4, SumOfZeros
<1> QED BY <1>2, <1>3, <1>4 DEF f

\* So is the number of blocks.
LEMMA CountFacts ==
  ASSUME NEW alive \in [Sizes -> Nat]
  PROVE  /\ SumFunctionOnSet(alive, Sizes) \in Nat
         /\ SumFunctionOnSet(alive, Sizes) = 0 <=> \A size \in Sizes : alive[size] = 0
<1>0. IsFiniteSet(Sizes) /\ \A size \in Sizes : alive[size] \in Nat
  BY SizesAssumption
<1>1. SumFunctionOnSet(alive, Sizes) \in Nat
  BY <1>0, SumType
<1>2. ASSUME SumFunctionOnSet(alive, Sizes) = 0, NEW size \in Sizes PROVE alive[size] = 0
  <2>1. alive[size] <= SumFunctionOnSet(alive, Sizes)
    BY <1>0, SumAtLeast
  <2> QED BY <1>0, <1>2, <2>1
<1>3. ASSUME \A size \in Sizes : alive[size] = 0 PROVE SumFunctionOnSet(alive, Sizes) = 0
  BY <1>0, <1>3, SumOfZeros
<1> QED BY <1>1, <1>2, <1>3

\* A client comes by a block, or parts with one.
BlocksChange(alive, other, size, d) ==
  /\ other \in [Sizes -> Nat] /\ other[size] = alive[size] + d
  /\ \A s \in Sizes : s # size => other[s] = alive[s]

\* A block more or less adds or takes its aligned size.
LEMMA WeightChange ==
  ASSUME NEW alive \in [Sizes -> Nat], NEW a \in Alignments, NEW size \in Sizes,
         NEW other, NEW d \in {1, -1}, BlocksChange(alive, other, size, d)
  PROVE  SumFunctionOnSet(Weights(other, a), Sizes)
           = SumFunctionOnSet(Weights(alive, a), Sizes) + d * AlignUp(size, a)
<1> DEFINE f == Weights(alive, a)
           g == Weights(other, a)
<1>0. IsFiniteSet(Sizes) /\ other \in [Sizes -> Nat] /\ other[size] = alive[size] + d
  BY SizesAssumption DEF BlocksChange
<1>1. ASSUME NEW s \in Sizes
      PROVE  /\ f[s] = alive[s] * AlignUp(s, a) /\ f[s] \in Nat
             /\ g[s] = other[s] * AlignUp(s, a) /\ g[s] \in Nat
  <2>1. alive[s] \in Nat /\ other[s] \in Nat /\ AlignUp(s, a) \in Nat
    BY <1>0, SizeFacts
  <2>2. f[s] = alive[s] * AlignUp(s, a) /\ g[s] = other[s] * AlignUp(s, a)
    BY DEF Weights
  <2> HIDE DEF f, g
  <2> QED BY <2>1, <2>2
<1>2. \A s \in Sizes : s # size => f[s] = g[s]
  BY <1>1 DEF BlocksChange
<1> HIDE DEF f, g
<1>3. SumFunctionOnSet(g, Sizes) = SumFunctionOnSet(f, Sizes) - f[size] + g[size]
  BY <1>0, <1>1, <1>2, SumChange
<1>4. g[size] = f[size] + d * AlignUp(size, a)
  <2>1. alive[size] \in Nat /\ other[size] \in Nat /\ AlignUp(size, a) \in Nat
    BY <1>0, SizeFacts
  <2>2. g[size] = (alive[size] + d) * AlignUp(size, a)
    BY <1>0, <1>1
  <2> QED BY <1>1, <2>1, <2>2
<1>5. SumFunctionOnSet(f, Sizes) \in Nat /\ f[size] \in Nat /\ g[size] \in Nat
  BY <1>0, <1>1, SumType
<1>6. d * AlignUp(size, a) \in Int
  BY SizeFacts
<1> QED BY <1>3, <1>4, <1>5, <1>6 DEF f, g

\* The bytes in use, by the type of the arena.
LEMMA LiveBytesFacts ==
  ASSUME ArenaInv, NEW c \in Chunks
  PROVE  /\ live[c] \in [Sizes -> Nat] /\ LiveBytes(c) \in Nat
         /\ LiveBytes(c) = 0 <=> \A size \in Sizes : live[c][size] = 0
         /\ arena[c].type = "none" => LiveBytes(c) = SumFunctionOnSet(live[c], Sizes)
         /\ arena[c].type # "none"
              => LiveBytes(c) = SumFunctionOnSet(Weights(live[c], arena[c].alignment), Sizes)
<1>1. live[c] \in [Sizes -> Nat] /\ DOMAIN live[c] = Sizes
  BY DEF ArenaInv
<1>2. arena[c].type = "none" => LiveBytes(c) = SumFunctionOnSet(live[c], Sizes)
  BY <1>1 DEF LiveBytes, SumFunction
<1>3. arena[c].type # "none"
        => LiveBytes(c) = SumFunctionOnSet(Weights(live[c], arena[c].alignment), Sizes)
  BY DEF LiveBytes, SumFunction, Weights
<1>4. arena[c].type # "none" => arena[c].alignment \in Alignments
  BY ArenaFacts
<1> QED BY <1>1, <1>2, <1>3, <1>4, WeightFacts, CountFacts

\* What is in use of an arena when a block comes or goes.
LEMMA LiveBytesChange ==
  ASSUME ArenaInv, ArenaInv', NEW c \in Chunks, NEW size \in Sizes, NEW d \in {1, -1},
         arena[c].type # "none", arena'[c].type # "none",
         arena'[c].alignment = arena[c].alignment,
         BlocksChange(live[c], live'[c], size, d)
  PROVE  LiveBytes(c)' = LiveBytes(c) + d * AlignUp(size, arena[c].alignment)
<1>1. /\ live[c] \in [Sizes -> Nat] /\ arena[c].alignment \in Alignments
      /\ LiveBytes(c) = SumFunctionOnSet(Weights(live[c], arena[c].alignment), Sizes)
  BY LiveBytesFacts, ArenaFacts
<1>2. LiveBytes(c)' = SumFunctionOnSet(Weights(live'[c], arena[c].alignment), Sizes)
  BY DEF LiveBytes, SumFunction, Weights
<1> QED BY <1>1, <1>2, WeightChange

\* A client comes by one block of the size.
LEMMA HandedMeans ==
  ASSUME ArenaInv, NEW c \in Chunks, NEW size \in Sizes, Handed(c, size)
  PROVE  /\ live' \in [Chunks -> [Sizes -> Nat]]
         /\ BlocksChange(live[c], live'[c], size, 1)
         /\ \A b \in Chunks : b # c => live'[b] = live[b]
<1>1. live \in [Chunks -> [Sizes -> Nat]] /\ live[c] \in [Sizes -> Nat]
  BY DEF ArenaInv
<1>2. live' = [live EXCEPT ![c] = [live[c] EXCEPT ![size] = @ + 1]]
  BY <1>1 DEF Handed
<1>3. [live[c] EXCEPT ![size] = @ + 1] \in [Sizes -> Nat]
  BY <1>1
<1> QED BY <1>1, <1>2, <1>3 DEF BlocksChange

\* A client parts with one block of the size.
LEMMA TakenBackMeans ==
  ASSUME ArenaInv, NEW c \in Chunks, NEW size \in Sizes, TakenBack(c, size)
  PROVE  /\ live' \in [Chunks -> [Sizes -> Nat]] /\ live[c][size] > 0
         /\ BlocksChange(live[c], live'[c], size, -1)
         /\ \A b \in Chunks : b # c => live'[b] = live[b]
<1>1. live \in [Chunks -> [Sizes -> Nat]] /\ live[c] \in [Sizes -> Nat] /\ live[c][size] > 0
  BY DEF ArenaInv, TakenBack
<1>2. live' = [live EXCEPT ![c] = [live[c] EXCEPT ![size] = @ - 1]]
  BY <1>1 DEF TakenBack
<1>3. [live[c] EXCEPT ![size] = @ - 1] \in [Sizes -> Nat]
  BY <1>1
<1> QED BY <1>1, <1>2, <1>3 DEF BlocksChange

\* Blocks are held of arenas only.
LEMMA LiveIsInArena ==
  ASSUME ArenaInv, BytesInv, NEW c \in Chunks, NEW size \in Sizes, live[c][size] > 0
  PROVE  arena[c].type # "none"
<1>1. SUFFICES ASSUME arena[c].type = "none" PROVE FALSE
  OBVIOUS
<1>2. arena[c].top = 0 /\ arena[c].freed = 0 /\ arena[c].retired = 0
  BY <1>1, ArenaFacts DEF NoArena
<1>3. LiveBytes(c) \in Nat /\ (LiveBytes(c) = 0 <=> \A s \in Sizes : live[c][s] = 0)
  BY LiveBytesFacts
<1>4. arena[c].freed + arena[c].retired + LiveBytes(c) <= arena[c].top
  BY DEF BytesInv
<1>5. live[c][size] = 0
  BY <1>2, <1>3, <1>4
<1> QED BY <1>5

-----------------------------------------------------------------------------
(* Steps that change one arena, and what they do to the bins.              *)

OnlyAt(c) ==
  \A d \in Chunks \ {c} :
    /\ arena'[d].type = arena[d].type /\ arena'[d].alignment = arena[d].alignment
    /\ arena'[d].top = arena[d].top
    /\ hand'.arena = d <=> hand.arena = d

\* A step that concerns one arena changes what is filed by that arena at most.
LEMMA FiledChange ==
  ASSUME NEW c \in Chunks, OnlyAt(c), NEW type, NEW id
  PROVE  /\ (c \in Filed(type, id) <=> c \in Filed(type, id)') => Filed(type, id)' = Filed(type, id)
         /\ c \notin Filed(type, id) /\ c \in Filed(type, id)'
              => Filed(type, id)' = Filed(type, id) \cup {c}
         /\ c \in Filed(type, id) /\ c \notin Filed(type, id)'
              => Filed(type, id)' = Filed(type, id) \ {c}
<1>1. ASSUME NEW d \in Chunks, d # c PROVE d \in Filed(type, id)' <=> d \in Filed(type, id)
  BY <1>1 DEF OnlyAt, Filed
<1>2. Filed(type, id) \subseteq Chunks /\ Filed(type, id)' \subseteq Chunks
  BY DEF Filed
<1> QED BY <1>1, <1>2

\* The arenas of one allocator that are in its bins.
FiledAll(type) == {c \in Chunks : arena[c].type = type /\ hand.arena # c}

\* And so it changes the number of them by one at most.
LEMMA FiledCount ==
  ASSUME NEW c \in Chunks, OnlyAt(c), NEW type
  PROVE  /\ Cardinality(FiledAll(type)) \in Nat
         /\ (c \in FiledAll(type) <=> c \in FiledAll(type)')
              => Cardinality(FiledAll(type))' = Cardinality(FiledAll(type))
         /\ c \notin FiledAll(type) /\ c \in FiledAll(type)'
              => Cardinality(FiledAll(type))' = Cardinality(FiledAll(type)) + 1
         /\ c \in FiledAll(type) /\ c \notin FiledAll(type)'
              => /\ Cardinality(FiledAll(type))' = Cardinality(FiledAll(type)) - 1
                 /\ Cardinality(FiledAll(type)) # 0
<1>1. ASSUME NEW d \in Chunks, d # c PROVE d \in FiledAll(type)' <=> d \in FiledAll(type)
  BY <1>1 DEF OnlyAt, FiledAll
<1>2. FiledAll(type) \subseteq Chunks /\ FiledAll(type)' \subseteq Chunks
  BY DEF FiledAll
<1>3. PICK before, after : before = FiledAll(type) /\ after = FiledAll(type)'
  OBVIOUS
<1>4. IsFiniteSet(before) /\ Cardinality(before) \in Nat
  BY <1>2, <1>3, ChunkAssumption, FS_Subset, FS_CardinalityType
<1>5. (c \in before <=> c \in after) => after = before
  BY <1>1, <1>2, <1>3
<1>6. c \notin before /\ c \in after => after = before \cup {c}
  BY <1>1, <1>2, <1>3
<1>7. c \in before /\ c \notin after => after = before \ {c}
  BY <1>1, <1>2, <1>3
<1>8. c \notin before => Cardinality(before \cup {c}) = Cardinality(before) + 1
  BY <1>4, FS_AddElement
<1>9. c \in before => Cardinality(before \ {c}) = Cardinality(before) - 1
  BY <1>4, FS_RemoveElement
<1>10. c \in before => Cardinality(before) # 0
  BY <1>4, FS_EmptySet
<1>11. Cardinality(FiledAll(type))' = Cardinality(after)
  BY <1>3
<1> QED BY <1>3, <1>4, <1>5, <1>6, <1>7, <1>8, <1>9, <1>10, <1>11

\* No arena of these bins has come, gone, or changed its room.
Untouched(type, id) ==
  /\ Filed(type, id)' = Filed(type, id)
  /\ \A c \in Filed(type, id) : Rooms'[c] = Rooms[c]

\* Bins the arena is in neither before nor after are untouched.
LEMMA Elsewhere ==
  ASSUME NEW c \in Chunks, OnlyAt(c), NEW type, NEW id,
         c \notin Filed(type, id), c \notin Filed(type, id)'
  PROVE  Untouched(type, id)
<1>1. Filed(type, id)' = Filed(type, id)
  BY FiledChange
<1>2. ASSUME NEW d \in Filed(type, id) PROVE Rooms'[d] = Rooms[d]
  <2>1. d \in Chunks \ {c}
    BY DEF Filed
  <2>2. arena'[d].top = arena[d].top
    BY <2>1 DEF OnlyAt
  <2>3. Rooms[d] = MemorySize[d] - arena[d].top /\ Rooms'[d] = MemorySize[d] - arena'[d].top
    BY <2>1 DEF Rooms, Remaining
  <2> QED BY <2>2, <2>3
<1> QED BY <1>1, <1>2 DEF Untouched

\* The arenas of a bin other than the one that changes keep their room.
LEMMA RoomsElsewhere ==
  ASSUME NEW c \in Chunks, OnlyAt(c), NEW type, NEW id, NEW d \in Filed(type, id) \ {c}
  PROVE  Rooms'[d] = Rooms[d]
<1>1. d \in Chunks \ {c}
  BY DEF Filed
<1>2. arena'[d].top = arena[d].top
  BY <1>1 DEF OnlyAt
<1>3. Rooms[d] = MemorySize[d] - arena[d].top /\ Rooms'[d] = MemorySize[d] - arena'[d].top
  BY <1>1 DEF Rooms, Remaining
<1> QED BY <1>2, <1>3

\* Bins that are neither written nor touched stay in order.
LEMMA BinsKept ==
  ASSUME BinsInv, small' = small, split' = split,
         \A id \in AlignmentIds : Untouched("small", id) /\ Untouched("split", id)
  PROVE  BinsInv'
<1>1. ASSUME NEW id \in AlignmentIds
      PROVE  /\ SmallGood(small[id], Filed("small", id)', Rooms')
             /\ SplitGood(split[id], id, Filed("split", id)', Rooms')
  <2>1. /\ SmallGood(small[id], Filed("small", id), Rooms)
        /\ SplitGood(split[id], id, Filed("split", id), Rooms)
    BY DEF BinsInv
  <2>2. /\ Filed("small", id)' = Filed("small", id) /\ Filed("split", id)' = Filed("split", id)
        /\ \A c \in Filed("small", id) : Rooms'[c] = Rooms[c]
        /\ \A c \in Filed("split", id) : Rooms'[c] = Rooms[c]
    BY DEF Untouched
  <2>3. SmallGood(small[id], Filed("small", id), Rooms')
    BY <2>1, <2>2, SmallGoodRooms
  <2>4. SplitGood(split[id], id, Filed("split", id), Rooms')
    BY <2>1, <2>2, SplitGoodRooms
  <2> QED BY <2>2, <2>3, <2>4
<1> QED BY <1>1 DEF BinsInv

\* One bin of the small allocator is written, and is in order then.
LEMMA BinsSmall ==
  ASSUME BinsInv, NEW id \in AlignmentIds, NEW bin,
         small' = [small EXCEPT ![id] = bin], split' = split,
         SmallGood(bin, Filed("small", id)', Rooms'),
         \A k \in AlignmentIds : Untouched("split", k) /\ (k # id => Untouched("small", k))
  PROVE  BinsInv'
<1>0. bin \in SmallEntries
  BY SmallGoodMeans
<1>1. ASSUME NEW k \in AlignmentIds
      PROVE  /\ SmallGood(small'[k], Filed("small", k)', Rooms')
             /\ SplitGood(split[k], k, Filed("split", k)', Rooms')
  <2>1. /\ SmallGood(small[k], Filed("small", k), Rooms)
        /\ SplitGood(split[k], k, Filed("split", k), Rooms)
    BY DEF BinsInv
  <2>2. /\ Filed("split", k)' = Filed("split", k)
        /\ \A c \in Filed("split", k) : Rooms'[c] = Rooms[c]
    BY DEF Untouched
  <2>3. SplitGood(split[k], k, Filed("split", k), Rooms')
    BY <2>1, <2>2, SplitGoodRooms
  <2>4. SmallGood(small'[k], Filed("small", k)', Rooms')
    <3>1. CASE k = id
      BY <3>1 DEF BinsInv
    <3>2. CASE k # id
      <4>1. small'[k] = small[k]
        BY <3>2 DEF BinsInv
      <4>2. /\ Filed("small", k)' = Filed("small", k)
            /\ \A c \in Filed("small", k) : Rooms'[c] = Rooms[c]
        BY <3>2 DEF Untouched
      <4>3. SmallGood(small[k], Filed("small", k), Rooms')
        BY <2>1, <4>2, SmallGoodRooms
      <4> QED BY <4>1, <4>2, <4>3
    <3> QED BY <3>1, <3>2
  <2> QED BY <2>2, <2>3, <2>4
<1>2. small' \in [AlignmentIds -> SmallEntries]
  BY <1>0 DEF BinsInv
<1> QED BY <1>1, <1>2 DEF BinsInv

\* One entry of the step-split allocator is written, and is in order then.
LEMMA BinsSplit ==
  ASSUME BinsInv, NEW id \in AlignmentIds, NEW entry,
         split' = [split EXCEPT ![id] = entry], small' = small,
         SplitGood(entry, id, Filed("split", id)', Rooms'),
         \A k \in AlignmentIds : Untouched("small", k) /\ (k # id => Untouched("split", k))
  PROVE  BinsInv'
<1>0. entry \in SplitEntries
  BY SplitGoodMeans
<1>1. ASSUME NEW k \in AlignmentIds
      PROVE  /\ SmallGood(small[k], Filed("small", k)', Rooms')
             /\ SplitGood(split'[k], k, Filed("split", k)', Rooms')
  <2>1. /\ SmallGood(small[k], Filed("small", k), Rooms)
        /\ SplitGood(split[k], k, Filed("split", k), Rooms)
    BY DEF BinsInv
  <2>2. /\ Filed("small", k)' = Filed("small", k)
        /\ \A c \in Filed("small", k) : Rooms'[c] = Rooms[c]
    BY DEF Untouched
  <2>3. SmallGood(small[k], Filed("small", k), Rooms')
    BY <2>1, <2>2, SmallGoodRooms
  <2>4. SplitGood(split'[k], k, Filed("split", k)', Rooms')
    <3>1. CASE k = id
      BY <3>1 DEF BinsInv
    <3>2. CASE k # id
      <4>1. split'[k] = split[k]
        BY <3>2 DEF BinsInv
      <4>2. /\ Filed("split", k)' = Filed("split", k)
            /\ \A c \in Filed("split", k) : Rooms'[c] = Rooms[c]
        BY <3>2 DEF Untouched
      <4>3. SplitGood(split[k], k, Filed("split", k), Rooms')
        BY <2>1, <4>2, SplitGoodRooms
      <4> QED BY <4>1, <4>2, <4>3
    <3> QED BY <3>1, <3>2
  <2> QED BY <2>2, <2>3, <2>4
<1>2. split' \in [AlignmentIds -> SplitEntries]
  BY <1>0 DEF BinsInv
<1> QED BY <1>1, <1>2 DEF BinsInv

-----------------------------------------------------------------------------
(* What acquire() of the allocators takes out of the bins.                 *)

\* acquire() of the small allocator: an arena that can serve the request.
LEMMA SmallAcquireTakes ==
  ASSUME ArenaInv, BinsInv, NEW id \in AlignmentIds, NEW size \in Sizes, size <= SizeCutoff,
         NEW c, SmallAcquire(size, id, c)
  PROVE  /\ c \in Filed("small", id) /\ CanAllocate(c, size)
         /\ small' = [small EXCEPT ![id] = small'[id]]
         /\ SmallGood(small'[id], Filed("small", id) \ {c}, Rooms)
<1> DEFINE bin == small[id]
           set == Filed("small", id)
<1>1. SmallGood(bin, set, Rooms) /\ bin \in SmallEntries /\ id \in DOMAIN small
  BY SmallGoodMeans DEF BinsInv
<1>2. \A d \in set : /\ Rooms[d] = Remaining(d) /\ Rooms[d] \in Nat /\ d \in Chunks
                     /\ arena[d].alignment \in Alignments
  BY FiledFacts DEF Alignments
<1>3. size \in Nat /\ SizeCutoff \in Nat
  BY SizesAssumption, CutoffType
<1> HIDE DEF bin, set
<1>4. SmallGood(DropCurrent(bin, size), set, Rooms)
      /\ DropCurrent(bin, size).free = bin.free /\ DropCurrent(bin, size).cutoff = bin.cutoff
  BY <1>1, <1>2, <1>3, DropCurrentKeeps
<1>5. CASE AcquireCurrent(size, id, c)
  <2>1. c = bin.current /\ bin.current # NoChunk /\ CanAllocate(c, size)
        /\ small' = [small EXCEPT ![id].current = NoChunk]
    BY <1>5 DEF AcquireCurrent, CurrentServes, bin
  <2>2. c \in set /\ SmallGood([bin EXCEPT !.current = NoChunk], set \ {c}, Rooms)
    BY <1>1, <2>1, SmallTakeFront
  <2>3. small'[id] = [bin EXCEPT !.current = NoChunk] /\ small' = [small EXCEPT ![id] = small'[id]]
    BY <1>1, <2>1 DEF bin
  <2> QED BY <2>1, <2>2, <2>3 DEF set
<1>6. CASE AcquireFree(size, id, c)
  <2> DEFINE less == DropCurrent(bin, size)
  <2>1. c = Head(bin.free) /\ bin.free # <<>>
        /\ small' = [small EXCEPT ![id] = [less EXCEPT !.free = Tail(bin.free)]]
    BY <1>6 DEF AcquireFree, bin
  <2>2. c \in set /\ Rooms[c] >= SizeCutoff /\ SmallGood([less EXCEPT !.free = Tail(@)], set \ {c}, Rooms)
    BY <1>4, <2>1, SmallPop
  <2>3. small'[id] = [less EXCEPT !.free = Tail(@)] /\ small' = [small EXCEPT ![id] = small'[id]]
    <3>1. PICK new : new = [less EXCEPT !.free = Tail(bin.free)]
      OBVIOUS
    <3>2. small' = [small EXCEPT ![id] = new]
      BY <2>1, <3>1
    <3>3. less.free = bin.free /\ less.cutoff = bin.cutoff
      BY <1>4
    <3> HIDE DEF less
    <3> QED BY <1>1, <3>1, <3>2, <3>3
  <2>4. CanAllocate(c, size)
    <3>1. AlignUp(size, arena[c].alignment) <= SizeCutoff
      BY <1>2, <2>2, SmallSizeFits
    <3>2. AlignUp(size, arena[c].alignment) \in Nat
      BY <1>2, <2>2, SizeFacts
    <3> QED BY <1>2, <1>3, <2>2, <3>1, <3>2 DEF CanAllocate
  <2> HIDE DEF less
  <2> QED BY <2>2, <2>3, <2>4 DEF set
<1>7. CASE AcquireCutoff(size, id, c)
  <2> DEFINE less == DropCurrent(bin, size)
  <2>1. c = Head(bin.cutoff) /\ bin.cutoff # <<>> /\ CanAllocate(c, size)
        /\ small' = [small EXCEPT ![id] = [less EXCEPT !.cutoff = Tail(bin.cutoff)]]
    BY <1>7 DEF AcquireCutoff, CutoffServes, bin
  <2>2. c \in set /\ SmallGood([less EXCEPT !.cutoff = Tail(@)], set \ {c}, Rooms)
    BY <1>4, <2>1, SmallPop
  <2>3. small'[id] = [less EXCEPT !.cutoff = Tail(@)] /\ small' = [small EXCEPT ![id] = small'[id]]
    <3>1. PICK new : new = [less EXCEPT !.cutoff = Tail(bin.cutoff)]
      OBVIOUS
    <3>2. small' = [small EXCEPT ![id] = new]
      BY <2>1, <3>1
    <3>3. less.free = bin.free /\ less.cutoff = bin.cutoff
      BY <1>4
    <3> HIDE DEF less
    <3> QED BY <1>1, <3>1, <3>2, <3>3
  <2> HIDE DEF less
  <2> QED BY <2>1, <2>2, <2>3 DEF set
<1> QED BY <1>5, <1>6, <1>7 DEF SmallAcquire

\* NoResource: no arena of the alignment has the room of the cutoff.
LEMMA SmallMissKeeps ==
  ASSUME ArenaInv, BinsInv, NEW id \in AlignmentIds, NEW size \in Sizes, size <= SizeCutoff,
         SmallMiss(size, id)
  PROVE  /\ small' = [small EXCEPT ![id] = small'[id]]
         /\ SmallGood(small'[id], Filed("small", id), Rooms)
         /\ \A c \in Filed("small", id) : Remaining(c) < SizeCutoff
<1> DEFINE bin == small[id]
           set == Filed("small", id)
<1>1. SmallGood(bin, set, Rooms) /\ bin \in SmallEntries /\ id \in DOMAIN small
  BY SmallGoodMeans DEF BinsInv
<1>2. \A d \in set : /\ Rooms[d] = Remaining(d) /\ Rooms[d] \in Nat /\ d \in Chunks
                     /\ arena[d].alignment \in Alignments
  BY FiledFacts DEF Alignments
<1>3. size \in Nat /\ SizeCutoff \in Nat
  BY SizesAssumption, CutoffType
<1>4. /\ ~CurrentServes(bin, size) /\ bin.free = <<>>
      /\ small' = [small EXCEPT ![id] = DropCutoffHead(DropCurrent(@, size), size)]
  BY DEF SmallMiss
<1> HIDE DEF bin, set
<1>5. SmallGood(DropCutoffHead(DropCurrent(bin, size), size), set, Rooms)
  <2>1. SmallGood(DropCurrent(bin, size), set, Rooms)
    BY <1>1, <1>2, <1>3, DropCurrentKeeps
  <2> QED BY <2>1, DropCutoffHeadKeeps
<1>6. small'[id] = DropCutoffHead(DropCurrent(bin, size), size)
      /\ small' = [small EXCEPT ![id] = small'[id]]
  BY <1>1, <1>4 DEF bin
<1>7. ASSUME NEW c \in set PROVE Remaining(c) < SizeCutoff
  <2>1. c = bin.current \/ c \in ToSet(bin.free) \/ c \in ToSet(bin.cutoff) \/ c \in ToSet(bin.recycled)
    <3>1. c = bin.current \/ \E l \in Kinds : c \in ToSet(SmallLists(bin)[l])
      BY <1>1, <1>2, SmallGoodMeans DEF Held
    <3> QED BY <1>1, <3>1, SmallListsType DEF Kinds
  <2>2. CASE c = bin.current
    <3>1. ~CanAllocate(c, size)
      BY <1>2, <1>4, <2>2, ChunkAssumption DEF CurrentServes
    <3>2. AlignUp(size, arena[c].alignment) <= SizeCutoff /\ AlignUp(size, arena[c].alignment) \in Nat
      BY <1>2, SmallSizeFits, SizeFacts
    <3>3. Remaining(c) \in Nat
      BY <1>2
    <3> QED BY <1>3, <3>1, <3>2, <3>3 DEF CanAllocate
  <2>3. CASE c \in ToSet(bin.free)
    <3>1. ToSet(bin.free) = {}
      BY <1>1, <1>4, SmallGoodMeans, ListMembers
    <3> QED BY <2>3, <3>1
  <2>4. CASE c \in ToSet(bin.cutoff) \/ c \in ToSet(bin.recycled)
    BY <1>1, <1>2, <2>4 DEF SmallGood
  <2> QED BY <2>1, <2>2, <2>3, <2>4
<1> QED BY <1>5, <1>6, <1>7 DEF set

\* The least of a set of numbers is in it.
LEMMA LeastIsMember ==
  ASSUME NEW S \in SUBSET Nat, S # {}
  PROVE  Min(S) \in S /\ \A n \in S : Min(S) <= n
<1>1. \E n \in S : \A m \in S : n <= m
  BY LeastNumber
<1> QED BY <1>1 DEF Min

\* The sizes of requests, aligned, as far as the bins go.
LEMMA SplitSize1 ==
  ASSUME NEW id \in AlignmentIds, NEW size \in Sizes, AlignUp(size, AlignmentOf(id)) <= MaxAllocSize
  PROVE  AlignUp(size, AlignmentOf(id)) \in 1 .. MaxAllocSize
<1>1. AlignmentOf(id) \in Alignments
  BY DEF Alignments
<1>2. AlignUp(size, AlignmentOf(id)) \in Nat \ {0}
  BY <1>1, SizeFacts
<1>3. MaxAllocSize \in Nat
  BY Parameters, PowerType DEF MaxAllocSize
<1> QED BY <1>2, <1>3

\* acquire_arena: an arena that can serve the request.
LEMMA SplitAcquireTakes ==
  ASSUME ArenaInv, BinsInv, NEW id \in AlignmentIds, NEW size \in Sizes,
         NEW c, SplitAcquire(size, id, c)
  PROVE  /\ c \in Filed("split", id) /\ CanAllocate(c, size)
         /\ split' = [split EXCEPT ![id] = split'[id]]
         /\ SplitGood(split'[id], id, Filed("split", id) \ {c}, Rooms)
<1> DEFINE entry == split[id]
           set == Filed("split", id)
           need == AlignUp(size, AlignmentOf(id))
<1>1. SplitGood(entry, id, set, Rooms) /\ entry \in SplitEntries /\ id \in DOMAIN split
  BY SplitGoodMeans DEF BinsInv
<1>2. \A d \in set : /\ Rooms[d] = Remaining(d) /\ Rooms[d] \in Nat /\ d \in Chunks
                     /\ arena[d].alignment = AlignmentOf(id)
  BY FiledFacts
<1>3. need \in 1 .. MaxAllocSize
  BY SplitSize1 DEF SplitAcquire
<1> HIDE DEF entry, set
<1>4. ASSUME c \in set, need <= Rooms[c] PROVE CanAllocate(c, size)
  BY <1>2, <1>4 DEF CanAllocate
<1>5. CASE AcquireCached(need, id, c)
  <2>1. c = entry.cached /\ entry.cached # NoChunk /\ need <= Remaining(c)
        /\ split' = [split EXCEPT ![id].cached = NoChunk]
    BY <1>5 DEF AcquireCached, CachedServes, entry
  <2>2. c \in set /\ SplitGood([entry EXCEPT !.cached = NoChunk], id, set \ {c}, Rooms)
    BY <1>1, <2>1, SplitTakeFront
  <2>3. split'[id] = [entry EXCEPT !.cached = NoChunk] /\ split' = [split EXCEPT ![id] = split'[id]]
    BY <1>1, <2>1 DEF entry
  <2>4. CanAllocate(c, size)
    BY <1>2, <1>4, <2>1, <2>2
  <2> QED BY <2>2, <2>3, <2>4 DEF set
<1>6. CASE AcquireBin(need, id, c)
  <2> DEFINE bins == BinsFrom(id, SizeBinClamped(id, need))
             bin == Min(bins)
             list == entry.arenas[bin]
  <2>1. /\ bins # {} /\ c = Head(list)
        /\ split' = [split EXCEPT ![id].arenas[bin] = Tail(list),
                                  ![id].present = IF Len(list) = 1 THEN @ \ {bin} ELSE @]
    BY <1>6 DEF AcquireBin, entry
  <2>2. bin \in entry.present /\ bin >= SizeBinClamped(id, need) /\ bin \in BinIds
    <3>1. entry.present \subseteq BinIds /\ BinIds \subseteq Nat
      BY <1>1, SplitGoodMeans DEF BinIds
    <3>2. \A b \in bins : b \in entry.present /\ b >= SizeBinClamped(id, need)
      BY DEF BinsFrom, entry
    <3>3. bins \in SUBSET Nat
      BY <3>1, <3>2
    <3> HIDE DEF bins
    <3>4. bin \in bins
      BY <2>1, <3>3, LeastIsMember
    <3> QED BY <3>1, <3>2, <3>4
  <2> HIDE DEF bin, bins
  <2>3. /\ c \in set /\ ArenaBinClamped(id, Rooms[c]) = bin
        /\ SplitGood(WithoutFirst(entry, bin), id, set \ {c}, Rooms)
    BY <1>1, <2>1, <2>2, SplitPop
  <2>4. split'[id] = WithoutFirst(entry, bin)
    BY <1>1, <2>1 DEF entry, WithoutFirst
  <2>5. split' = [split EXCEPT ![id] = split'[id]]
    BY <1>1, <2>1
  <2>6. CanAllocate(c, size)
    BY <1>2, <1>3, <1>4, <2>2, <2>3, BinsServe
  <2> QED BY <2>3, <2>4, <2>5, <2>6 DEF set
<1> QED BY <1>5, <1>6 DEF SplitAcquire

\* Nothing in the bins has the room of a whole class.
LEMMA SplitMissFacts ==
  ASSUME ArenaInv, BinsInv, NEW id \in AlignmentIds, NEW size \in Sizes,
         TypeFor(size) = "split", SplitMiss(size, id), NEW c \in Filed("split", id)
  PROVE  Remaining(c) < RoomFor(size, id)
<1> DEFINE entry == split[id]
           set == Filed("split", id)
           need == AlignUp(size, AlignmentOf(id))
           Serving == {b \in BinIds : BinBase(b) >= need /\ BinBase(b) >= MinAllocOf(id)}
           bases == {BinBase(b) : b \in Serving}
           room == Remaining(c)
<1>1. /\ need <= MaxAllocSize /\ ~CachedServes(id, need)
      /\ BinsFrom(id, SizeBinClamped(id, need)) = {}
  BY DEF SplitMiss
<1>2. SplitGood(entry, id, set, Rooms) /\ entry \in SplitEntries
  BY SplitGoodMeans DEF BinsInv
<1>3. c \in Chunks /\ room \in Nat /\ Rooms[c] = room
  BY FiledFacts
<1>4. need \in 1 .. MaxAllocSize /\ need \in 0 .. MaxAllocSize /\ need \in Nat
  <2>1. need \in 1 .. MaxAllocSize /\ MaxAllocSize \in Nat
    BY <1>1, SplitSize1, Parameters, PowerType DEF MaxAllocSize
  <2> QED BY <2>1
<1> DEFINE s == SizeBinClamped(id, need)
<1>5. /\ s \in BinIds /\ s \in Nat /\ BinBase(s) >= need /\ BinBase(s) >= MinAllocOf(id)
      /\ \A b \in Nat : b < s => BinBase(b) < need \/ BinBase(b) < MinAllocOf(id)
  BY <1>4, RequestBin
<1>6. bases \in SUBSET Nat /\ bases # {}
  <2>1. BinIds \subseteq Nat
    BY DEF BinIds
  <2>2. \A b \in BinIds : BinBase(b) \in Nat
    BY <2>1, BinBaseNext
  <2> QED BY <1>5, <2>2
<1>7. RoomFor(size, id) = Min(bases)
  BY DEF RoomFor
<1> HIDE DEF bases
<1>8. PICK b \in Serving : Min(bases) = BinBase(b)
  <2>1. Min(bases) \in bases
    BY <1>6, LeastIsMember
  <2> QED BY <2>1 DEF bases
<1>9. /\ b \in BinIds /\ b \in Nat /\ BinBase(b) >= need /\ BinBase(b) >= MinAllocOf(id)
      /\ BinBase(b) \in Nat
  <2>1. b \in BinIds /\ b \in Nat
    BY DEF BinIds
  <2> QED BY <2>1, BinBaseNext
<1>10. MinAllocOf(id) \in Nat
  BY MinBinFacts
<1> HIDE DEF Serving, need, s
<1>11. s <= b
  BY <1>4, <1>5, <1>9, <1>10
<1>12. SUFFICES ASSUME BinBase(b) <= room PROVE FALSE
  BY <1>3, <1>7, <1>8, <1>9
<1>13. CASE c = entry.cached
  <2>1. need > room
    BY <1>1, <1>3, <1>4, <1>13, ChunkAssumption DEF CachedServes
  <2> QED BY <1>3, <1>4, <1>9, <1>12, <2>1
<1>14. CASE c # entry.cached
  <2>1. PICK k \in BinIds : c \in ToSet(entry.arenas[k])
    BY <1>2, <1>3, <1>14, SplitGoodMeans DEF Held
  <2>2. k = ArenaBinClamped(id, room) /\ k \in entry.present
    <3>1. InOrder(entry.arenas, entry.present, id, Rooms)
      BY <1>2, SplitGoodMeans
    <3>2. entry.arenas[k] \in Seq(Chunks)
      BY <1>2, SplitGoodMeans DEF Lists
    <3>3. entry.arenas[k] # <<>>
      BY <2>1, <3>2, ListMembers
    <3> QED BY <1>3, <2>1, <3>1, <3>3 DEF InOrder
  <2>3. k \in Nat
    BY DEF BinIds
  <2>4. k < s
    BY <1>1, <1>5, <2>2, <2>3 DEF BinsFrom, s
  <2>5. room >= MinAllocOf(id)
    BY <1>3, <1>9, <1>10, <1>12
  <2>6. room < BinBase(b)
    <3>1. b > k
      BY <1>5, <1>9, <1>11, <2>3, <2>4
    <3> QED BY <1>3, <1>9, <2>2, <2>5, <3>1, RoomBin
  <2> QED BY <1>3, <1>9, <1>12, <2>6
<1> QED BY <1>13, <1>14

-----------------------------------------------------------------------------
(* An arena leaves the bins, comes back, or is filed anew.                 *)

\* Arenas that should be in no bin: the one in hand, and chunks without an arena.
Out(c) == hand.arena = c \/ arena[c].type = "none"

\* Such an arena is filed nowhere, before a step and after it; any other arena is filed
\* with one allocator and one alignment.
LEMMA WhereFiled ==
  ASSUME NEW c \in Chunks
  PROVE  /\ Out(c) => \A type \in {"small", "split"}, id \in AlignmentIds :
                        c \notin Filed(type, id) /\ c \notin FiledAll(type)
         /\ Out(c)' => \A type \in {"small", "split"}, id \in AlignmentIds :
                        c \notin Filed(type, id)' /\ c \notin FiledAll(type)'
         /\ \A type \in {"small", "split"}, id \in AlignmentIds : c \in Filed(type, id) =>
              /\ c \in FiledAll(type)
              /\ \A t \in {"small", "split"} : t # type => c \notin FiledAll(t)
              /\ \A t \in {"small", "split"}, k \in AlignmentIds :
                   t # type \/ k # id => c \notin Filed(t, k)
         /\ \A type \in {"small", "split"}, id \in AlignmentIds : c \in Filed(type, id)' =>
              /\ c \in FiledAll(type)'
              /\ \A t \in {"small", "split"} : t # type => c \notin FiledAll(t)'
              /\ \A t \in {"small", "split"}, k \in AlignmentIds :
                   t # type \/ k # id => c \notin Filed(t, k)'
BY DEF Out, Filed, FiledAll

\* The counts follow the arenas that are filed.
LEMMA CountsFollow ==
  ASSUME CountInv, NEW c \in Chunks, OnlyAt(c), NEW d \in {-1, 0, 1}, NEW e \in {-1, 0, 1},
         smallTotal' = smallTotal + d, splitTotal' = splitTotal + e,
         d = 0 => (c \in FiledAll("small") <=> c \in FiledAll("small")'),
         e = 0 => (c \in FiledAll("split") <=> c \in FiledAll("split")'),
         d = 1 => c \notin FiledAll("small") /\ c \in FiledAll("small")',
         e = 1 => c \notin FiledAll("split") /\ c \in FiledAll("split")',
         d = -1 => c \in FiledAll("small") /\ c \notin FiledAll("small")',
         e = -1 => c \in FiledAll("split") /\ c \notin FiledAll("split")'
  PROVE  CountInv'
<1>1. /\ smallTotal = Cardinality(FiledAll("small")) /\ splitTotal = Cardinality(FiledAll("split"))
      /\ (smallTotal' = Cardinality(FiledAll("small"))' /\ splitTotal' = Cardinality(FiledAll("split"))'
            /\ smallTotal' \in Nat /\ splitTotal' \in Nat => CountInv')
  BY DEF CountInv, TotalsCount, FiledAll
<1>2. PICK a, b : a = Cardinality(FiledAll("small"))' /\ b = Cardinality(FiledAll("split"))'
  OBVIOUS
<1>3. smallTotal' = a /\ smallTotal' \in Nat
  <2>1. /\ smallTotal \in Nat
        /\ d = 0 => a = smallTotal
        /\ d = 1 => a = smallTotal + 1
        /\ d = -1 => a = smallTotal - 1 /\ smallTotal # 0
    BY <1>1, <1>2, FiledCount
  <2> QED BY <2>1
<1>4. splitTotal' = b /\ splitTotal' \in Nat
  <2>1. /\ splitTotal \in Nat
        /\ e = 0 => b = splitTotal
        /\ e = 1 => b = splitTotal + 1
        /\ e = -1 => b = splitTotal - 1 /\ splitTotal # 0
    BY <1>1, <1>2, FiledCount
  <2> QED BY <2>1
<1> QED BY <1>1, <1>2, <1>3, <1>4

\* Nothing else is filed otherwise than before.
LEMMA OthersUntouched ==
  ASSUME NEW c \in Chunks, OnlyAt(c), NEW type \in {"small", "split"}, NEW id \in AlignmentIds,
         Out(c) \/ c \in Filed(type, id), Out(c)' \/ c \in Filed(type, id)',
         NEW t \in {"small", "split"}, NEW k \in AlignmentIds, t # type \/ k # id
  PROVE  Untouched(t, k)
<1>1. c \notin Filed(t, k) /\ c \notin Filed(t, k)'
  BY WhereFiled
<1> QED BY <1>1, Elsewhere

\* An arena is taken out of the bins of the small allocator and counted off.
LEMMA LeavesSmall ==
  ASSUME BinsInv, CountInv, NEW c \in Chunks, OnlyAt(c), NEW id \in AlignmentIds,
         c \in Filed("small", id), Out(c)',
         small' = [small EXCEPT ![id] = small'[id]],
         SmallGood(small'[id], Filed("small", id) \ {c}, Rooms),
         smallTotal' = smallTotal - 1, UNCHANGED splitVars
  PROVE  BinsInv' /\ CountInv'
<1>1. Filed("small", id)' = Filed("small", id) \ {c}
  <2>1. c \notin Filed("small", id)'
    BY WhereFiled
  <2> QED BY <2>1, FiledChange
<1>2. SmallGood(small'[id], Filed("small", id)', Rooms')
  <2>1. \A d \in Filed("small", id) \ {c} : Rooms'[d] = Rooms[d]
    BY RoomsElsewhere
  <2> QED BY <1>1, <2>1, SmallGoodRooms
<1>3. \A k \in AlignmentIds : Untouched("split", k) /\ (k # id => Untouched("small", k))
  BY OthersUntouched
<1>4. BinsInv'
  BY <1>2, <1>3, BinsSmall DEF splitVars
<1>5. CountInv'
  <2>1. /\ c \in FiledAll("small") /\ c \notin FiledAll("small")'
        /\ c \notin FiledAll("split") /\ c \notin FiledAll("split")'
    BY WhereFiled
  <2>2. smallTotal' = smallTotal + (-1) /\ splitTotal' = splitTotal + 0
    BY DEF splitVars, CountInv
  <2> QED BY <2>1, <2>2, CountsFollow
<1> QED BY <1>4, <1>5

\* So it is with the step-split allocator.
LEMMA LeavesSplit ==
  ASSUME BinsInv, CountInv, NEW c \in Chunks, OnlyAt(c), NEW id \in AlignmentIds,
         c \in Filed("split", id), Out(c)',
         split' = [split EXCEPT ![id] = split'[id]],
         SplitGood(split'[id], id, Filed("split", id) \ {c}, Rooms),
         splitTotal' = splitTotal - 1, UNCHANGED smallVars
  PROVE  BinsInv' /\ CountInv'
<1>1. Filed("split", id)' = Filed("split", id) \ {c}
  <2>1. c \notin Filed("split", id)'
    BY WhereFiled
  <2> QED BY <2>1, FiledChange
<1>2. SplitGood(split'[id], id, Filed("split", id)', Rooms')
  <2>1. \A d \in Filed("split", id) \ {c} : Rooms'[d] = Rooms[d]
    BY RoomsElsewhere
  <2> QED BY <1>1, <2>1, SplitGoodRooms
<1>3. \A k \in AlignmentIds : Untouched("small", k) /\ (k # id => Untouched("split", k))
  BY OthersUntouched
<1>4. BinsInv'
  BY <1>2, <1>3, BinsSplit DEF smallVars
<1>5. CountInv'
  <2>1. /\ c \in FiledAll("split") /\ c \notin FiledAll("split")'
        /\ c \notin FiledAll("small") /\ c \notin FiledAll("small")'
    BY WhereFiled
  <2>2. splitTotal' = splitTotal + (-1) /\ smallTotal' = smallTotal + 0
    BY DEF smallVars, CountInv
  <2> QED BY <2>1, <2>2, CountsFollow
<1> QED BY <1>4, <1>5

\* An arena that was out is filed by the room it has then.
LEMMA EntersSmall ==
  ASSUME ArenaInv, ArenaInv', BinsInv, CountInv, NEW c \in Chunks, OnlyAt(c), NEW id \in AlignmentIds,
         Out(c), c \in Filed("small", id)',
         small' = [small EXCEPT ![id] = small'[id]],
         small'[id] = SmallReleased(small[id], c, Rooms'[c]),
         smallTotal' = smallTotal + 1, UNCHANGED splitVars
  PROVE  BinsInv' /\ CountInv'
<1> DEFINE set == Filed("small", id)
<1>1. c \notin set /\ Filed("small", id)' = set \cup {c}
  <2>1. c \notin set
    BY WhereFiled
  <2> QED BY <2>1, FiledChange
<1>2. SmallGood(small'[id], Filed("small", id)', Rooms')
  <2>1. ASSUME NEW d \in set
        PROVE  Rooms'[d] = Rooms[d] /\ Rooms'[d] = Remaining(d) /\ Rooms'[d] \in Int
    <3>1. Rooms'[d] = Rooms[d]
      BY <1>1, RoomsElsewhere
    <3> QED BY <3>1, FiledFacts
  <2>2. SmallGood(small[id], set, Rooms')
    <3>1. SmallGood(small[id], set, Rooms)
      BY DEF BinsInv
    <3> QED BY <2>1, <3>1, SmallGoodRooms
  <2>3. Rooms'[c] \in Int
    <3>1. arena'[c] \in Arenas
      BY DEF ArenaInv
    <3> QED BY <3>1, RegionFacts DEF Rooms, Remaining, Arenas
  <2> HIDE DEF set
  <2>4. SmallGood(SmallReleased(small[id], c, Rooms'[c]), set \cup {c}, Rooms')
    BY <1>1, <2>1, <2>2, <2>3, SmallReleasedKeeps
  <2> QED BY <1>1, <2>4
<1>3. \A k \in AlignmentIds : Untouched("split", k) /\ (k # id => Untouched("small", k))
  BY OthersUntouched
<1>4. BinsInv'
  BY <1>2, <1>3, BinsSmall DEF splitVars
<1>5. CountInv'
  <2>1. /\ c \notin FiledAll("small") /\ c \in FiledAll("small")'
        /\ c \notin FiledAll("split") /\ c \notin FiledAll("split")'
    BY WhereFiled
  <2>2. splitTotal' = splitTotal + 0
    BY DEF splitVars, CountInv
  <2> QED BY <2>1, <2>2, CountsFollow
<1> QED BY <1>4, <1>5

\* So it is with the step-split allocator.
LEMMA EntersSplit ==
  ASSUME ArenaInv, ArenaInv', BinsInv, CountInv, NEW c \in Chunks, OnlyAt(c), NEW id \in AlignmentIds,
         Out(c), c \in Filed("split", id)',
         split' = [split EXCEPT ![id] = split'[id]],
         split'[id] = SplitReleased(split[id], id, c, Rooms'[c]),
         splitTotal' = splitTotal + 1, UNCHANGED smallVars
  PROVE  BinsInv' /\ CountInv'
<1> DEFINE set == Filed("split", id)
<1>1. c \notin set /\ Filed("split", id)' = set \cup {c}
  <2>1. c \notin set
    BY WhereFiled
  <2> QED BY <2>1, FiledChange
<1>2. SplitGood(split'[id], id, Filed("split", id)', Rooms')
  <2>1. ASSUME NEW d \in set
        PROVE  Rooms'[d] = Rooms[d] /\ Rooms'[d] = Remaining(d) /\ Rooms'[d] \in Nat
    <3>1. Rooms'[d] = Rooms[d]
      BY <1>1, RoomsElsewhere
    <3> QED BY <3>1, FiledFacts
  <2>2. SplitGood(split[id], id, set, Rooms')
    <3>1. SplitGood(split[id], id, set, Rooms)
      BY DEF BinsInv
    <3> QED BY <2>1, <3>1, SplitGoodRooms
  <2>3. Rooms'[c] \in Nat
    <3>1. arena'[c] \in Arenas /\ arena'[c].top <= MemorySize[c]
      BY DEF ArenaInv
    <3> QED BY <3>1, RegionFacts DEF Rooms, Remaining, Arenas
  <2> HIDE DEF set
  <2>4. SplitGood(SplitReleased(split[id], id, c, Rooms'[c]), id, set \cup {c}, Rooms')
    BY <1>1, <2>1, <2>2, <2>3, SplitReleasedKeeps
  <2> QED BY <1>1, <2>4
<1>3. \A k \in AlignmentIds : Untouched("small", k) /\ (k # id => Untouched("split", k))
  BY OthersUntouched
<1>4. BinsInv'
  BY <1>2, <1>3, BinsSplit DEF smallVars
<1>5. CountInv'
  <2>1. /\ c \notin FiledAll("split") /\ c \in FiledAll("split")'
        /\ c \notin FiledAll("small") /\ c \notin FiledAll("small")'
    BY WhereFiled
  <2>2. smallTotal' = smallTotal + 0
    BY DEF smallVars, CountInv
  <2> QED BY <2>1, <2>2, CountsFollow
<1> QED BY <1>4, <1>5

-----------------------------------------------------------------------------
(* What a step leaves alone.                                               *)

\* A step that writes no arena and no block leaves both in order.
LEMMA ArenasKept ==
  ASSUME ArenaInv, BytesInv, UNCHANGED arenaVars
  PROVE  ArenaInv' /\ BytesInv' /\ Rooms' = Rooms
<1>1. arena' = arena /\ live' = live
  BY DEF arenaVars
<1>2. ArenaInv'
  BY <1>1 DEF ArenaInv
<1>3. ASSUME NEW c \in Chunks PROVE LiveBytes(c)' = LiveBytes(c)
  BY <1>1 DEF LiveBytes
<1>4. BytesInv'
  BY <1>1, <1>3 DEF BytesInv
<1> QED BY <1>1, <1>2, <1>4 DEF Rooms, Remaining

\* No chunk has moved.
LEMMA PlacesKept ==
  ASSUME PlaceInv, \A c \in Chunks : arena'[c].type = arena[c].type,
         UNCHANGED <<pool, cache, lost>>
  PROVE  PlaceInv'
<1>1. {c \in Chunks : arena'[c].type = "none"} = {c \in Chunks : arena[c].type = "none"}
  OBVIOUS
<1>2. Cached' = Cached
  BY DEF Cached
<1> QED BY <1>1, <1>2 DEF PlaceInv

\* The count covers the same chunks.
LEMMA StorageKept ==
  ASSUME StorageInv, UNCHANGED <<pool, storage>>
  PROVE  StorageInv'
BY DEF StorageInv, StorageCovers, HeldBytes

\* Without a request there is no arena in hand.
LEMMA NoRequestFacts ==
  NoRequest.arena = NoChunk /\ NoChunk \notin Chunks /\ (\A r \in Requests : r # NoRequest)
<1>1. \A r \in Requests : r.size \in Nat \ {0}
  BY SizesAssumption DEF Requests
<1> QED BY <1>1, ChunkAssumption DEF NoRequest

\* The arena in hand stays as it was, or there is none.
LEMMA HandIsEmpty ==
  ASSUME hand' = NoRequest
  PROVE  HandInv' /\ RequestFits' /\ NothingMissed'
BY NoRequestFacts DEF HandInv, RequestFits, NothingMissed, NeedsArena

-----------------------------------------------------------------------------
(* Every step keeps the invariant.                                         *)

\* acquire() keeps the invariant, whether it finds an arena or not.
LEMMA AcquireKeeps ==
  ASSUME IInv, NEW size \in Sizes, NEW alignment \in Alignments, NEW c \in Chunks \cup {NoChunk},
         Acquire(size, alignment, c)
  PROVE  IInv'
<1> DEFINE id == AlignmentId(alignment)
<1>1. /\ ArenaInv /\ HandInv /\ BinsInv /\ PlaceInv /\ CountInv
      /\ BytesInv /\ StorageInv
  BY DEF IInv
<1>2. /\ hand.arena = NoChunk /\ hand' = [size |-> size, alignment |-> alignment, arena |-> c]
      /\ UNCHANGED arenaVars /\ UNCHANGED chunkVars
  BY NoRequestFacts DEF Acquire
<1>3. hand'.arena = c /\ hand'.size = size /\ hand'.alignment = alignment /\ hand' \in Requests
  BY <1>2 DEF Requests
<1>4. arena' = arena /\ pool' = pool /\ cache' = cache /\ lost' = lost /\ storage' = storage
  BY <1>2 DEF arenaVars, chunkVars
<1>5. ArenaInv' /\ BytesInv' /\ Rooms' = Rooms /\ PlaceInv' /\ StorageInv'
  BY <1>1, <1>2, <1>4, ArenasKept, PlacesKept, StorageKept
<1>6. id \in AlignmentIds /\ AlignmentOf(id) = alignment
  BY AlignmentIdFacts
<1>7. size \in Nat /\ SizeCutoff \in Nat /\ TypeFor(size) \in {"small", "split"}
      /\ (TypeFor(size) = "small" <=> size <= SizeCutoff)
  BY SizeFacts, SizesAssumption, CutoffType DEF TypeFor
<1> DEFINE SmallHit == TypeFor(size) = "small" /\ SmallAcquire(size, id, c) /\ UNCHANGED splitVars
           SmallNone == /\ TypeFor(size) = "small" /\ c = NoChunk
                        /\ SmallMiss(size, id) /\ UNCHANGED splitVars
           SplitHit == TypeFor(size) = "split" /\ SplitAcquire(size, id, c) /\ UNCHANGED smallVars
           SplitNone == /\ TypeFor(size) = "split" /\ c = NoChunk
                        /\ SplitMiss(size, id) /\ UNCHANGED smallVars
<1>8. SmallHit \/ SmallNone \/ SplitHit \/ SplitNone
  BY DEF Acquire
<1> HIDE DEF id
\* An arena is taken out of the bins.
<1>9. ASSUME NEW type \in {"small", "split"}, TypeFor(size) = type,
             c \in Filed(type, id), CanAllocate(c, size)
      PROVE  /\ c \in Chunks /\ OnlyAt(c) /\ Out(c)'
             /\ HandInv' /\ RequestFits' /\ NothingMissed'
  <2>1. c \in Chunks /\ arena[c].type = type /\ arena[c].alignment = alignment /\ c # NoChunk
    BY <1>1, <1>6, <1>9, FiledFacts, NoRequestFacts
  <2>2. OnlyAt(c) /\ Out(c)'
    BY <1>2, <1>3, <1>4, <2>1, NoRequestFacts DEF OnlyAt, Out
  <2>3. HandInv'
    BY <1>3, <1>4, <1>9, <2>1 DEF HandInv
  <2>4. RequestFits'
    BY <1>3, <1>4, <1>9, <2>1 DEF RequestFits, CanAllocate, Remaining
  <2>5. NothingMissed'
    BY <1>3, <2>1 DEF NothingMissed, NeedsArena
  <2> QED BY <2>1, <2>2, <2>3, <2>4, <2>5
<1>10. CASE SmallHit
  <2>1. /\ c \in Filed("small", id) /\ CanAllocate(c, size)
        /\ small' = [small EXCEPT ![id] = small'[id]]
        /\ SmallGood(small'[id], Filed("small", id) \ {c}, Rooms)
    BY <1>1, <1>6, <1>7, <1>10, SmallAcquireTakes
  <2>2. BinsInv' /\ CountInv'
    <3>1. smallTotal' = smallTotal - 1 /\ UNCHANGED splitVars
      BY <1>10 DEF SmallAcquire
    <3>2. c \in Chunks /\ OnlyAt(c) /\ Out(c)'
      BY <1>9, <1>10, <2>1
    <3> QED BY <1>1, <1>6, <2>1, <3>1, <3>2, LeavesSmall
  <2> QED BY <1>5, <1>9, <1>10, <2>1, <2>2 DEF IInv
<1>11. CASE SplitHit
  <2>1. /\ c \in Filed("split", id) /\ CanAllocate(c, size)
        /\ split' = [split EXCEPT ![id] = split'[id]]
        /\ SplitGood(split'[id], id, Filed("split", id) \ {c}, Rooms)
    BY <1>1, <1>6, <1>7, <1>11, SplitAcquireTakes
  <2>2. BinsInv' /\ CountInv'
    <3>1. splitTotal' = splitTotal - 1 /\ UNCHANGED smallVars
      BY <1>11 DEF SplitAcquire
    <3>2. c \in Chunks /\ OnlyAt(c) /\ Out(c)'
      BY <1>9, <1>11, <2>1
    <3> QED BY <1>1, <1>6, <2>1, <3>1, <3>2, LeavesSplit
  <2> QED BY <1>5, <1>9, <1>11, <2>1, <2>2 DEF IInv
\* None is found.
<1>12. ASSUME c = NoChunk
       PROVE  /\ \A type \in {"small", "split"}, k \in AlignmentIds : Untouched(type, k)
              /\ \A type \in {"small", "split"} : FiledAll(type)' = FiledAll(type)
              /\ HandInv' /\ RequestFits'
              /\ (\A d \in Filed(TypeFor(size), id) : Remaining(d) < RoomFor(size, id)) => NothingMissed'
  <2>1. hand'.arena = hand.arena
    BY <1>2, <1>3, <1>12
  <2>2. \A type \in {"small", "split"}, k \in AlignmentIds : Untouched(type, k)
    BY <1>4, <1>5, <2>1 DEF Untouched, Filed
  <2>3. \A type \in {"small", "split"} : FiledAll(type)' = FiledAll(type)
    BY <1>4, <2>1 DEF FiledAll
  <2>4. HandInv' /\ RequestFits'
    BY <1>3, <1>12 DEF HandInv, RequestFits
  <2>5. ASSUME \A d \in Filed(TypeFor(size), id) : Remaining(d) < RoomFor(size, id)
        PROVE  NothingMissed'
    <3>1. ASSUME NEW d \in Chunks, arena[d].type = TypeFor(size), arena[d].alignment = alignment
          PROVE  Remaining(d) < RoomFor(size, id)
      <4>1. d \in Filed(TypeFor(size), id)
        BY <1>2, <3>1, NoRequestFacts DEF Filed, id
      <4> QED BY <2>5, <4>1
    <3>2. \A d \in Chunks : Remaining(d)' = Remaining(d)
      BY <1>4 DEF Remaining
    <3> QED BY <1>3, <1>4, <3>1, <3>2 DEF NothingMissed, id
  <2> QED BY <2>2, <2>3, <2>4, <2>5
<1>13. CASE SmallNone
  <2>1. /\ small' = [small EXCEPT ![id] = small'[id]]
        /\ SmallGood(small'[id], Filed("small", id), Rooms)
        /\ \A d \in Filed("small", id) : Remaining(d) < SizeCutoff
    BY <1>1, <1>6, <1>7, <1>13, SmallMissKeeps
  <2>2. BinsInv'
    <3>1. SmallGood(small'[id], Filed("small", id)', Rooms')
      BY <1>5, <1>6, <1>12, <1>13, <2>1 DEF Untouched
    <3>2. split' = split
      BY <1>13 DEF splitVars
    <3> QED BY <1>1, <1>6, <1>12, <1>13, <2>1, <3>1, <3>2, BinsSmall
  <2>3. CountInv'
    BY <1>1, <1>12, <1>13 DEF CountInv, TotalsCount, FiledAll, SmallMiss, splitVars
  <2>4. NothingMissed'
    BY <1>12, <1>13, <2>1 DEF RoomFor
  <2> QED BY <1>5, <1>12, <1>13, <2>2, <2>3, <2>4 DEF IInv
<1>14. CASE SplitNone
  <2>1. small' = small /\ split' = split /\ smallTotal' = smallTotal /\ splitTotal' = splitTotal
    BY <1>14 DEF SplitMiss, splitVars, smallVars
  <2>2. BinsInv'
    BY <1>1, <1>12, <1>14, <2>1, BinsKept
  <2>3. CountInv'
    BY <1>1, <1>12, <1>14, <2>1 DEF CountInv, TotalsCount, FiledAll
  <2>4. NothingMissed'
    BY <1>1, <1>6, <1>12, <1>14, SplitMissFacts
  <2> QED BY <1>5, <1>12, <1>14, <2>2, <2>3, <2>4 DEF IInv
<1> QED BY <1>8, <1>10, <1>11, <1>13, <1>14

\* No arena has come, gone, or been refiled, and none has changed its room.
LEMMA NothingRefiled ==
  ASSUME BinsInv, CountInv, UNCHANGED smallVars, UNCHANGED splitVars,
         \A d \in Chunks :
           /\ arena'[d].type = arena[d].type /\ arena'[d].alignment = arena[d].alignment
           /\ arena'[d].top = arena[d].top
           /\ hand'.arena = d <=> hand.arena = d
  PROVE  BinsInv' /\ CountInv'
<1>1. /\ small' = small /\ split' = split
      /\ smallTotal' = smallTotal /\ splitTotal' = splitTotal
  BY DEF smallVars, splitVars
<1>2. Rooms' = Rooms
  BY DEF Rooms, Remaining
<1>3. \A type \in {"small", "split"}, k \in AlignmentIds : Untouched(type, k)
  BY <1>2 DEF Untouched, Filed
<1>4. \A type \in {"small", "split"} : FiledAll(type)' = FiledAll(type)
  BY DEF FiledAll
<1>5. BinsInv'
  BY <1>1, <1>3, BinsKept
<1>6. CountInv'
  BY <1>1, <1>4 DEF CountInv, TotalsCount, FiledAll
<1> QED BY <1>5, <1>6

\* The request under way asks for chunks that are large enough for it.
LEMMA DemandFacts ==
  ASSUME HandInv, StorageInv, NeedsArena
  PROVE  /\ hand \in Requests /\ hand.size \in Sizes /\ hand.alignment \in Alignments
         /\ hand.arena = NoChunk
         /\ Demand \in Nat /\ AlignUp(hand.size, hand.alignment) \in Nat
         /\ AlignUp(hand.size, hand.alignment) <= Demand
<1>1. hand \in Requests /\ hand.arena = NoChunk
  BY DEF HandInv, NeedsArena
<1>2. hand.size \in Sizes /\ hand.alignment \in Alignments
  BY <1>1 DEF Requests
<1>3. AlignUp(hand.size, hand.alignment) \in Nat
  BY <1>2, SizeFacts
<1>4. RegionSizes[Len(RegionSizes)] \in Nat /\ storage \in Nat
  <2>1. Len(RegionSizes) \in Regions
    <3>1. Len(RegionSizes) \in Nat /\ Len(RegionSizes) # 0
      BY RegionAssumption, LenProperties, EmptySeq
    <3> QED BY <3>1 DEF Regions
  <2> QED BY <2>1, RegionFacts DEF StorageInv
<1>5. PICK m \in Nat : m = Min({RegionSizes[Len(RegionSizes)], storage})
  BY <1>4, MinMaxPair
<1>6. PICK n \in Nat : n = AlignUp(hand.size, hand.alignment)
  BY <1>3
<1>7. Demand = Max({n, m})
  BY <1>5, <1>6 DEF Demand
<1>8. Demand \in Nat /\ n <= Demand
  <2>1. Max({n, m}) = IF n <= m THEN m ELSE n
    BY MinMaxPair
  <2> QED BY <1>7, <2>1
<1> QED BY <1>1, <1>2, <1>6, <1>8

\* A chunk that is large enough becomes the arena for the request.
LEMMA ConstructKeeps ==
  ASSUME IInv, NEW c \in Chunks, NeedsArena, Construct(c), Demand <= MemorySize[c],
         arena[c].type = "none", PlaceInv', StorageInv'
  PROVE  IInv'
<1> DEFINE type == TypeFor(hand.size)
           new == NewArena(type, hand.alignment)
<1>1. /\ ArenaInv /\ HandInv /\ BinsInv /\ CountInv /\ BytesInv /\ StorageInv
  BY DEF IInv
<1>2. /\ hand \in Requests /\ hand.size \in Sizes /\ hand.alignment \in Alignments
      /\ hand.arena = NoChunk
      /\ Demand \in Nat /\ AlignUp(hand.size, hand.alignment) \in Nat
      /\ AlignUp(hand.size, hand.alignment) <= Demand
  BY <1>1, DemandFacts
<1>3. /\ arena' = [arena EXCEPT ![c] = new] /\ hand' = [hand EXCEPT !.arena = c]
      /\ live' = live /\ UNCHANGED smallVars /\ UNCHANGED splitVars
  BY DEF Construct
<1>4. type \in {"small", "split"}
  BY DEF TypeFor
<1> HIDE DEF type
<1>5. /\ new \in Arenas /\ new.type = type /\ new.alignment = hand.alignment
      /\ new.top = 0 /\ new.freed = 0 /\ new.retired = 0
  BY <1>2, <1>4 DEF NewArena, Arenas, ArenaTypes
<1> HIDE DEF new
<1>6. arena'[c] = new /\ \A d \in Chunks : d # c => arena'[d] = arena[d]
  BY <1>1, <1>3 DEF ArenaInv
<1>7. /\ hand' \in Requests /\ hand'.arena = c /\ hand'.size = hand.size
      /\ hand'.alignment = hand.alignment /\ c # NoChunk
  BY <1>2, <1>3, NoRequestFacts DEF Requests
<1>8. ArenaInv'
  <2>1. arena' \in [Chunks -> Arenas]
    BY <1>1, <1>3, <1>5 DEF ArenaInv
  <2>2. ASSUME NEW d \in Chunks
        PROVE  /\ arena'[d].top <= MemorySize[d]
               /\ arena'[d].type = "none" => arena'[d] = NoArena
               /\ arena'[d].type # "none" => arena'[d].alignment \in Alignments
    <3>1. CASE d = c
      BY <1>2, <1>4, <1>5, <1>6, <3>1, RegionFacts
    <3>2. CASE d # c
      BY <1>1, <1>6, <3>2 DEF ArenaInv
    <3> QED BY <3>1, <3>2
  <2>3. live' \in [Chunks -> [Sizes -> Nat]]
    BY <1>1, <1>3 DEF ArenaInv
  <2> QED BY <2>1, <2>2, <2>3 DEF ArenaInv
<1>9. OnlyAt(c)
  BY <1>2, <1>6, <1>7, NoRequestFacts DEF OnlyAt
<1>10. Out(c) /\ Out(c)'
  BY <1>7 DEF Out
<1>11. BinsInv'
  <2>1. \A t \in {"small", "split"}, k \in AlignmentIds : Untouched(t, k)
    <3>1. \A t \in {"small", "split"}, k \in AlignmentIds : c \notin Filed(t, k) /\ c \notin Filed(t, k)'
      BY <1>10, WhereFiled
    <3> QED BY <1>9, <3>1, Elsewhere
  <2> QED BY <1>1, <1>3, <2>1, BinsKept DEF smallVars, splitVars
<1>12. CountInv'
  <2>1. /\ c \notin FiledAll("small") /\ c \notin FiledAll("small")'
        /\ c \notin FiledAll("split") /\ c \notin FiledAll("split")'
    <3>1. c \notin FiledAll("small") /\ c \notin FiledAll("split")
      BY <1>10 DEF Out, FiledAll
    <3>2. c \notin FiledAll("small")' /\ c \notin FiledAll("split")'
      BY <1>7 DEF FiledAll
    <3> QED BY <3>1, <3>2
  <2>2. smallTotal' = smallTotal + 0 /\ splitTotal' = splitTotal + 0
    BY <1>1, <1>3 DEF smallVars, splitVars, CountInv
  <2> QED BY <1>1, <1>9, <2>1, <2>2, CountsFollow
<1>13. BytesInv'
  <2>1. LiveBytes(c)' = 0
    <3>1. arena[c].top = 0 /\ arena[c].freed = 0 /\ arena[c].retired = 0
      BY <1>1, ArenaFacts DEF NoArena
    <3>2. live[c] \in [Sizes -> Nat] /\ LiveBytes(c) \in Nat
          /\ (LiveBytes(c) = 0 <=> \A size \in Sizes : live[c][size] = 0)
      BY <1>1, LiveBytesFacts
    <3>3. arena[c].freed + arena[c].retired + LiveBytes(c) <= arena[c].top
      BY <1>1 DEF BytesInv
    <3>4. \A size \in Sizes : live[c][size] = 0
      BY <3>1, <3>2, <3>3
    <3>5. LiveBytes(c)' = SumFunctionOnSet(Weights(live[c], hand.alignment), Sizes)
      BY <1>3, <1>4, <1>5, <1>6 DEF LiveBytes, SumFunction, Weights
    <3> QED BY <1>2, <3>2, <3>4, <3>5, WeightFacts
  <2>2. ASSUME NEW d \in Chunks, d # c PROVE LiveBytes(d)' = LiveBytes(d)
    BY <1>3, <1>6, <2>2 DEF LiveBytes
  <2>3. \A d \in Chunks : d # c => arena'[d] = arena[d]
    BY <1>6
  <2> QED BY <1>1, <1>5, <1>6, <2>1, <2>2, <2>3 DEF BytesInv
<1>14. HandInv'
  BY <1>4, <1>5, <1>6, <1>7 DEF HandInv
<1>15. RequestFits'
  <2>1. AlignUp(hand.size, hand.alignment) <= MemorySize[c] /\ MemorySize[c] \in Nat
    BY <1>2, RegionFacts
  <2>2. CanAllocate(c, hand.size)'
    <3>1. AlignUp(hand.size, arena'[c].alignment) <= MemorySize[c] - arena'[c].top
      BY <1>5, <1>6, <2>1
    <3> QED BY <1>7, <3>1 DEF CanAllocate, Remaining
  <2>3. CanAllocate(hand.arena, hand.size)'
    BY <1>7, <2>2
  <2> QED BY <1>5, <1>6, <1>7, <2>3 DEF RequestFits, type
<1>16. NothingMissed'
  BY <1>7 DEF NothingMissed, NeedsArena
<1> QED BY <1>8, <1>11, <1>12, <1>13, <1>14, <1>15, <1>16 DEF IInv

\* A chunk of the cache becomes an arena.
LEMMA TakeCachedChunkKeeps ==
  ASSUME IInv, TakeCachedChunk
  PROVE  IInv'
<1>1. HandInv /\ StorageInv /\ PlaceInv /\ ArenaInv
  BY DEF IInv
<1>2. NeedsArena /\ CachedRegions # {} /\ UNCHANGED <<pool, storage>>
  BY DEF TakeCachedChunk
<1>3. PICK r : r = Min(CachedRegions)
  OBVIOUS
<1>4. r \in Regions /\ Demand <= RegionSizes[r] /\ cache[r] # NoChunk
  <2>1. CachedRegions \in SUBSET Nat
    BY RegionFacts DEF CachedRegions, SuitableRegions
  <2>2. r \in CachedRegions
    BY <1>2, <1>3, <2>1, LeastIsMember
  <2> QED BY <2>2 DEF CachedRegions, SuitableRegions
<1>5. PICK c \in Chunks : c = cache[r]
  BY <1>1, <1>4 DEF PlaceInv
<1>6. Construct(c) /\ cache' = [cache EXCEPT ![r] = NoChunk]
  BY <1>3, <1>5 DEF TakeCachedChunk
<1>7. RegionOf(c) = r /\ RegionSizes[r] = MemorySize[c]
  BY <1>1, <1>4, <1>5, RegionFacts DEF PlaceInv
<1>8. arena[c].type = "none" /\ c \notin pool /\ c \notin lost
  BY <1>1, <1>4, <1>5 DEF PlaceInv, Cached
<1>9. PlaceInv'
  <2>1. cache' \in [Regions -> Chunks \cup {NoChunk}] /\ cache'[r] = NoChunk
        /\ \A s \in Regions : s # r => cache'[s] = cache[s]
    BY <1>1, <1>4, <1>6 DEF PlaceInv
  <2>2. \A s \in Regions : s # r => cache[s] # c
    BY <1>1, <1>7, NoRequestFacts DEF PlaceInv
  <2>3. Cached' = Cached \ {c}
    BY <1>4, <1>5, <2>1, <2>2 DEF Cached
  <2>4. {d \in Chunks : arena'[d].type = "none"} = {d \in Chunks : arena[d].type = "none"} \ {c}
    <3>1. arena'[c].type # "none" /\ \A d \in Chunks : d # c => arena'[d] = arena[d]
      BY <1>1, <1>6 DEF Construct, NewArena, TypeFor, ArenaInv
    <3> QED BY <3>1
  <2>5. pool' = pool /\ lost' = lost
    BY <1>2, <1>6 DEF Construct
  <2>6. /\ pool \in SUBSET Chunks /\ lost \in SUBSET Chunks
        /\ {d \in Chunks : arena[d].type = "none"} = pool \cup Cached \cup lost
        /\ pool \cap Cached = {} /\ pool \cap lost = {} /\ Cached \cap lost = {}
        /\ \A s \in Regions : cache[s] # NoChunk => RegionOf(cache[s]) = s
    BY <1>1 DEF PlaceInv
  <2>7. {d \in Chunks : arena'[d].type = "none"} = pool \cup (Cached \ {c}) \cup lost
    BY <1>8, <2>4, <2>6
  <2>8. \A s \in Regions : cache'[s] # NoChunk => RegionOf(cache'[s]) = s
    BY <2>1, <2>6
  <2> QED BY <2>1, <2>3, <2>5, <2>6, <2>7, <2>8 DEF PlaceInv
<1>10. StorageInv'
  BY <1>1, <1>2, StorageKept
<1> QED BY <1>2, <1>4, <1>6, <1>7, <1>8, <1>9, <1>10, ConstructKeeps

\* What a chunk from the pools adds to what the thread has.
LEMMA HeldBytesGrow ==
  ASSUME NEW p \in SUBSET Chunks, NEW c \in p
  PROVE  /\ SumFunctionOnSet(MemorySize, Chunks \ p) \in Nat
         /\ SumFunctionOnSet(MemorySize, Chunks \ (p \ {c}))
              = SumFunctionOnSet(MemorySize, Chunks \ p) + MemorySize[c]
<1> DEFINE S == Chunks \ (p \ {c})
           R == Chunks \ p
<1>1. c \in S /\ S \ {c} = R /\ \A x \in S : x \in Chunks
  OBVIOUS
<1>2. IsFiniteSet(S) /\ IsFiniteSet(R)
  BY ChunkAssumption, FS_Subset
<1>3. \A x \in Chunks : MemorySize[x] \in Nat
  BY RegionFacts
<1>4. SumFunctionOnSet(MemorySize, R) \in Nat
  BY <1>2, <1>3, SumType
<1> HIDE DEF S
<1>5. SumFunctionOnSet(MemorySize, S) = MemorySize[c] + SumFunctionOnSet(MemorySize, S \ {c})
  BY <1>1, <1>2, <1>3, SumApart
<1>6. SumFunctionOnSet(MemorySize, S) = MemorySize[c] + SumFunctionOnSet(MemorySize, R)
  BY <1>1, <1>5
<1>7. MemorySize[c] \in Nat
  BY <1>1, <1>3
<1> HIDE DEF R
<1>8. SumFunctionOnSet(MemorySize, S) = SumFunctionOnSet(MemorySize, R) + MemorySize[c]
  BY <1>4, <1>6, <1>7
<1> QED BY <1>4, <1>8 DEF S, R

\* A chunk of the pools becomes an arena, and is counted.
LEMMA TakeFreshChunkKeeps ==
  ASSUME IInv, NEW c \in Chunks, TakeFreshChunk(c)
  PROVE  IInv'
<1>1. HandInv /\ StorageInv /\ PlaceInv /\ ArenaInv
  BY DEF IInv
<1>2. /\ NeedsArena /\ c \in pool /\ RegionOf(c) \in SuitableRegions
      /\ storage + MemorySize[c] <= StorageLimit
      /\ pool' = pool \ {c} /\ storage' = storage + MemorySize[c]
      /\ Construct(c) /\ cache' = cache
  BY DEF TakeFreshChunk, CanTakeFresh
<1>3. Demand <= MemorySize[c]
  BY <1>2, RegionFacts DEF SuitableRegions
<1>4. arena[c].type = "none" /\ c \notin Cached /\ c \notin lost
  BY <1>1, <1>2 DEF PlaceInv
<1>5. PlaceInv'
  <2>1. {d \in Chunks : arena'[d].type = "none"} = {d \in Chunks : arena[d].type = "none"} \ {c}
    <3>1. arena'[c].type # "none" /\ \A d \in Chunks : d # c => arena'[d] = arena[d]
      BY <1>1, <1>2 DEF Construct, NewArena, TypeFor, ArenaInv
    <3> QED BY <3>1
  <2>2. Cached' = Cached /\ lost' = lost
    BY <1>2 DEF Construct, Cached
  <2> QED BY <1>1, <1>2, <1>4, <2>1, <2>2 DEF PlaceInv
<1>6. StorageInv'
  <2>1. PICK held \in Nat : held = SumFunctionOnSet(MemorySize, Chunks \ pool)
    BY <1>1, <1>2, HeldBytesGrow DEF PlaceInv
  <2>2. SumFunctionOnSet(MemorySize, Chunks \ pool') = held + MemorySize[c]
    BY <1>1, <1>2, <2>1, HeldBytesGrow DEF PlaceInv
  <2>3. storage \in Nat /\ storage >= held /\ MemorySize[c] \in Nat /\ StorageLimit \in Nat
    BY <1>1, <2>1, RegionFacts, BoundAssumption DEF StorageInv, StorageCovers, HeldBytes
  <2>4. storage' \in 0 .. StorageLimit /\ storage' >= held + MemorySize[c]
    BY <1>2, <2>3
  <2> QED BY <2>2, <2>4 DEF StorageInv, StorageCovers, HeldBytes
<1> QED BY <1>2, <1>3, <1>4, <1>5, <1>6, ConstructKeeps

\* Without an arena the request ends; nothing else has changed but perhaps the count.
LEMMA RequestEnds ==
  ASSUME IInv, NeedsArena, hand' = NoRequest, StorageInv',
         UNCHANGED <<arenaVars, smallVars, splitVars, pool, cache, lost>>
  PROVE  IInv'
<1>1. ArenaInv /\ BinsInv /\ PlaceInv /\ CountInv /\ BytesInv
  BY DEF IInv
<1>2. /\ UNCHANGED arenaVars /\ UNCHANGED smallVars /\ UNCHANGED splitVars
      /\ arena' = arena /\ UNCHANGED <<pool, cache, lost>>
  BY DEF arenaVars
<1>3. hand.arena = NoChunk /\ hand'.arena = NoChunk
  BY NoRequestFacts DEF NeedsArena
<1>4. ArenaInv' /\ BytesInv'
  BY <1>1, <1>2, ArenasKept
<1>5. BinsInv' /\ CountInv'
  BY <1>1, <1>2, <1>3, NothingRefiled
<1>6. PlaceInv'
  BY <1>1, <1>2, PlacesKept
<1> QED BY <1>4, <1>5, <1>6, HandIsEmpty DEF IInv

\* The count goes up with no chunk: it covers what there is all the more.
LEMMA CommitFailsKeeps ==
  ASSUME IInv, NEW c \in Chunks, CommitFails(c)
  PROVE  IInv'
<1>1. /\ NeedsArena /\ storage + MemorySize[c] <= StorageLimit
      /\ storage' = storage + MemorySize[c] /\ hand' = NoRequest
      /\ UNCHANGED <<arenaVars, smallVars, splitVars, pool, cache, lost>>
  BY DEF CommitFails, CanTakeFresh
<1>2. StorageInv'
  <2>1. pool \in SUBSET Chunks /\ IsFiniteSet(Chunks \ pool)
    BY ChunkAssumption, FS_Subset DEF IInv, PlaceInv
  <2>2. HeldBytes \in Nat
    BY <2>1, RegionFacts, SumType DEF HeldBytes
  <2>3. storage \in Nat /\ storage >= HeldBytes /\ MemorySize[c] \in Nat /\ StorageLimit \in Nat
    BY RegionFacts, BoundAssumption DEF IInv, StorageInv, StorageCovers
  <2>4. HeldBytes' = HeldBytes
    BY <1>1 DEF HeldBytes
  <2>5. storage' \in 0 .. StorageLimit /\ storage' >= HeldBytes
    BY <1>1, <2>2, <2>3
  <2> QED BY <2>4, <2>5 DEF StorageInv, StorageCovers
<1> QED BY <1>1, <1>2, RequestEnds

\* The request ends without memory.
LEMMA OutOfMemoryKeeps ==
  ASSUME IInv, OutOfMemory
  PROVE  IInv'
<1>1. /\ NeedsArena /\ hand' = NoRequest /\ UNCHANGED <<arenaVars, smallVars, splitVars>>
      /\ UNCHANGED <<pool, cache, lost>> /\ UNCHANGED <<pool, storage>>
  BY DEF OutOfMemory, chunkVars
<1>2. StorageInv'
  BY <1>1, StorageKept DEF IInv
<1> QED BY <1>1, <1>2, RequestEnds

\* The chunks of the cache go to the pools; the count, which stays, covers the rest.
LEMMA FreeTlaResourcesKeeps ==
  ASSUME IInv, FreeTlaResources
  PROVE  IInv'
<1>1. ArenaInv /\ BinsInv /\ PlaceInv /\ CountInv /\ BytesInv /\ StorageInv
  BY DEF IInv
<1>2. /\ hand = NoRequest /\ hand' = NoRequest
      /\ UNCHANGED arenaVars /\ UNCHANGED smallVars /\ UNCHANGED splitVars
      /\ arena' = arena /\ storage' = storage /\ lost' = lost
  BY DEF FreeTlaResources, arenaVars
<1>3. pool' = pool \cup Cached /\ cache' = [r \in Regions |-> NoChunk]
  <2>1. {cache[r] : r \in {r \in Regions : cache[r] # NoChunk}} = Cached
    BY DEF Cached
  <2> QED BY <2>1 DEF FreeTlaResources
<1>4. ArenaInv' /\ BytesInv'
  BY <1>1, <1>2, ArenasKept
<1>5. BinsInv' /\ CountInv'
  BY <1>1, <1>2, NothingRefiled
<1>6. PlaceInv'
  <2>1. Cached' = {} /\ Cached \subseteq Chunks
    BY <1>1, <1>3 DEF Cached, PlaceInv
  <2>2. \A r \in Regions : cache'[r] = NoChunk
    BY <1>3
  <2>3. cache' \in [Regions -> Chunks \cup {NoChunk}]
    BY <1>3
  <2> QED BY <1>1, <1>2, <1>3, <2>1, <2>2, <2>3 DEF PlaceInv
<1>7. StorageInv'
  <2> DEFINE S == Chunks \ pool
             R == Chunks \ pool'
  <2>1. R \in SUBSET S /\ IsFiniteSet(S) /\ IsFiniteSet(R)
    BY <1>3, ChunkAssumption, FS_Subset
  <2>2. \A x \in Chunks : MemorySize[x] \in Nat
    BY RegionFacts
  <2>3. SumFunctionOnSet(MemorySize, S) \in Nat /\ SumFunctionOnSet(MemorySize, R) \in Nat
    BY <2>1, <2>2, SumType
  <2>4. SumFunctionOnSet(MemorySize, R) <= SumFunctionOnSet(MemorySize, S)
    BY <2>1, <2>2, SumOfFewer
  <2>5. storage \in 0 .. StorageLimit /\ storage \in Nat /\ storage >= SumFunctionOnSet(MemorySize, S)
    BY <1>1, BoundAssumption DEF StorageInv, StorageCovers, HeldBytes
  <2>6. storage >= SumFunctionOnSet(MemorySize, R)
    BY <2>3, <2>4, <2>5
  <2> QED BY <1>2, <2>5, <2>6 DEF StorageInv, StorageCovers, HeldBytes
<1> QED BY <1>2, <1>4, <1>5, <1>6, <1>7, HandIsEmpty DEF IInv

\* An arena is given new words.
LEMMA ArenaBecomes ==
  ASSUME ArenaInv, NEW c \in Chunks, NEW new \in Arenas, arena' = [arena EXCEPT ![c] = new],
         new.top <= MemorySize[c], new.type = "none" => new = NoArena,
         new.type # "none" => new.alignment \in Alignments,
         live' \in [Chunks -> [Sizes -> Nat]]
  PROVE  /\ ArenaInv' /\ arena'[c] = new
         /\ \A d \in Chunks : d # c => arena'[d] = arena[d]
<1>1. arena'[c] = new /\ \A d \in Chunks : d # c => arena'[d] = arena[d]
  BY DEF ArenaInv
<1>2. arena' \in [Chunks -> Arenas]
  BY DEF ArenaInv
<1>3. ASSUME NEW d \in Chunks
      PROVE  /\ arena'[d].top <= MemorySize[d]
             /\ arena'[d].type = "none" => arena'[d] = NoArena
             /\ arena'[d].type # "none" => arena'[d].alignment \in Alignments
  <2>1. CASE d = c
    BY <1>1, <2>1
  <2>2. CASE d # c
    BY <1>1, <2>2 DEF ArenaInv
  <2> QED BY <2>1, <2>2
<1> QED BY <1>1, <1>2, <1>3 DEF ArenaInv

\* The bytes of the other arenas are accounted as before.
LEMMA BytesAtOne ==
  ASSUME BytesInv, NEW c \in Chunks,
         \A d \in Chunks : d # c => arena'[d] = arena[d] /\ live'[d] = live[d],
         arena'[c].freed + arena'[c].retired + LiveBytes(c)' <= arena'[c].top,
         ~RetireUnaligned => arena'[c].top = arena'[c].freed + arena'[c].retired + LiveBytes(c)'
  PROVE  BytesInv'
<1>1. ASSUME NEW d \in Chunks, d # c PROVE LiveBytes(d)' = LiveBytes(d)
  BY <1>1 DEF LiveBytes
<1> QED BY <1>1 DEF BytesInv

\* The block is cut off and the arena is filed by the room that is left.
LEMMA AllocateKeeps ==
  ASSUME IInv, Allocate
  PROVE  IInv'
<1>1. ArenaInv /\ HandInv /\ BinsInv /\ PlaceInv /\ CountInv /\ BytesInv /\ StorageInv
  BY DEF IInv
<1>2. PICK c \in Chunks, size \in Sizes : c = hand.arena /\ size = hand.size /\ arena[c].type # "none"
  <2>1. hand.arena # NoChunk
    BY DEF Allocate
  <2>2. hand \in Requests
    BY <1>1, <2>1, NoRequestFacts DEF HandInv
  <2> QED BY <1>1, <2>1, <2>2 DEF HandInv, Requests
<1>0. PICK id, type : id = AlignmentId(arena[c].alignment) /\ type = arena[c].type
  OBVIOUS
<1> DEFINE need == AlignUp(size, arena[c].alignment)
           now == Acquired(arena[c], size)
           room == MemorySize[c] - now.top
<1>3. /\ CanAllocate(c, size) /\ arena' = [arena EXCEPT ![c] = now] /\ Handed(c, size)
      /\ SmallPut(c, id, room) \/ SplitPut(c, id, room)
      /\ hand' = NoRequest /\ UNCHANGED chunkVars
  BY <1>0, <1>2 DEF Allocate
<1>4. /\ arena[c] \in Arenas /\ arena[c].alignment \in Alignments /\ id \in AlignmentIds
      /\ arena[c].top \in Nat /\ arena[c].freed \in Nat /\ arena[c].retired \in Nat
      /\ arena[c].top <= MemorySize[c] /\ MemorySize[c] \in Nat
  BY <1>0, <1>1, <1>2, ArenaFacts, RegionFacts DEF ArenaInv
<1>5. need \in Nat /\ need <= MemorySize[c] - arena[c].top
  BY <1>3, <1>4, SizeFacts DEF CanAllocate, Remaining
<1> HIDE DEF need
<1>6. /\ now \in Arenas /\ now.type = arena[c].type /\ now.alignment = arena[c].alignment
      /\ now.top = arena[c].top + need /\ now.freed = arena[c].freed
      /\ now.retired = arena[c].retired
  BY <1>4, <1>5 DEF Acquired, Arenas, need
<1> HIDE DEF now
<1>7. /\ live' \in [Chunks -> [Sizes -> Nat]] /\ BlocksChange(live[c], live'[c], size, 1)
      /\ \A b \in Chunks : b # c => live'[b] = live[b]
  BY <1>1, <1>3, HandedMeans
<1>8. /\ ArenaInv' /\ arena'[c] = now
      /\ \A d \in Chunks : d # c => arena'[d] = arena[d]
  <2>1. now.top <= MemorySize[c] /\ now.type # "none" /\ now.alignment \in Alignments
    BY <1>2, <1>4, <1>5, <1>6
  <2> QED BY <1>1, <1>3, <1>6, <1>7, <2>1, ArenaBecomes
<1>9. OnlyAt(c) /\ Out(c)
  BY <1>2, <1>3, <1>8, NoRequestFacts DEF OnlyAt, Out
<1>10. type \in {"small", "split"} /\ c \in Filed(type, id)'
  <2>1. type \in {"small", "split"}
    BY <1>0, <1>2, <1>4 DEF Arenas, ArenaTypes
  <2> QED BY <1>0, <1>3, <1>6, <1>8, <2>1, NoRequestFacts DEF Filed
<1>11. Rooms'[c] = room
  BY <1>8 DEF Rooms, Remaining
<1>12. BinsInv' /\ CountInv'
  <2>1. CASE SmallPut(c, id, room)
    <3>1. /\ type = "small" /\ smallTotal' = smallTotal + 1 /\ UNCHANGED splitVars
          /\ small' = [small EXCEPT ![id] = SmallReleased(small[id], c, room)]
      BY <1>0, <2>1 DEF SmallPut
    <3>2. small'[id] = SmallReleased(small[id], c, Rooms'[c]) /\ small' = [small EXCEPT ![id] = small'[id]]
      BY <1>1, <1>4, <1>11, <3>1 DEF BinsInv
    <3> QED BY <1>1, <1>4, <1>8, <1>9, <1>10, <3>1, <3>2, EntersSmall
  <2>2. CASE SplitPut(c, id, room)
    <3>1. /\ type = "split" /\ splitTotal' = splitTotal + 1 /\ UNCHANGED smallVars
          /\ split' = [split EXCEPT ![id] = SplitReleased(split[id], id, c, room)]
      BY <1>0, <2>2 DEF SplitPut
    <3>2. split'[id] = SplitReleased(split[id], id, c, Rooms'[c]) /\ split' = [split EXCEPT ![id] = split'[id]]
      BY <1>1, <1>4, <1>11, <3>1 DEF BinsInv
    <3> QED BY <1>1, <1>4, <1>8, <1>9, <1>10, <3>1, <3>2, EntersSplit
  <2> QED BY <1>3, <2>1, <2>2
<1>13. PlaceInv' /\ StorageInv'
  <2>1. \A d \in Chunks : arena'[d].type = arena[d].type
    BY <1>6, <1>8
  <2>2. UNCHANGED <<pool, cache, lost>> /\ UNCHANGED <<pool, storage>>
    BY <1>3 DEF chunkVars
  <2> QED BY <1>1, <2>1, <2>2, PlacesKept, StorageKept
<1>14. BytesInv'
  <2>1. LiveBytes(c)' = LiveBytes(c) + 1 * need
    BY <1>1, <1>2, <1>6, <1>7, <1>8, LiveBytesChange DEF need
  <2>2. LiveBytes(c) \in Nat
    BY <1>1, LiveBytesFacts
  <2>3. /\ arena[c].freed + arena[c].retired + LiveBytes(c) <= arena[c].top
        /\ ~RetireUnaligned => arena[c].top = arena[c].freed + arena[c].retired + LiveBytes(c)
    BY <1>1 DEF BytesInv
  <2>4. /\ arena'[c].freed + arena'[c].retired + LiveBytes(c)' <= arena'[c].top
        /\ ~RetireUnaligned => arena'[c].top = arena'[c].freed + arena'[c].retired + LiveBytes(c)'
    BY <1>4, <1>5, <1>6, <1>8, <2>1, <2>2, <2>3
  <2> QED BY <1>1, <1>7, <1>8, <2>4, BytesAtOne
<1> QED BY <1>3, <1>8, <1>12, <1>13, <1>14, HandIsEmpty DEF IInv

\* Another thread frees a block at any time, while an arena is in hand as well.
LEMMA RetireKeeps ==
  ASSUME IInv, NEW c \in Chunks, NEW size \in Sizes, Retire(c, size)
  PROVE  IInv'
<1>1. /\ ArenaInv /\ HandInv /\ BinsInv /\ PlaceInv /\ CountInv /\ BytesInv /\ StorageInv
      /\ RequestFits /\ NothingMissed
  BY DEF IInv
<1> DEFINE need == AlignUp(size, arena[c].alignment)
           now == Retired(arena[c], size)
<1>2. /\ TakenBack(c, size) /\ (RetireUnaligned \/ IsAligned(size, arena[c].alignment))
      /\ arena' = [arena EXCEPT ![c] = now]
      /\ UNCHANGED smallVars /\ UNCHANGED splitVars /\ hand' = hand /\ UNCHANGED chunkVars
  BY DEF Retire
<1>3. /\ live' \in [Chunks -> [Sizes -> Nat]] /\ live[c][size] > 0
      /\ BlocksChange(live[c], live'[c], size, -1)
      /\ \A b \in Chunks : b # c => live'[b] = live[b]
  BY <1>1, <1>2, TakenBackMeans
<1>4. arena[c].type # "none"
  BY <1>1, <1>3, LiveIsInArena
<1>5. /\ arena[c] \in Arenas /\ arena[c].alignment \in Alignments
      /\ arena[c].top \in Nat /\ arena[c].freed \in Nat /\ arena[c].retired \in Nat
      /\ arena[c].top <= MemorySize[c]
  BY <1>1, <1>4, ArenaFacts DEF ArenaInv
<1>6. /\ need \in Nat /\ size \in Nat /\ size <= need
      /\ IsAligned(size, arena[c].alignment) => need = size
  BY <1>5, SizeFacts
<1> HIDE DEF need
<1>7. /\ now \in Arenas /\ now.type = arena[c].type /\ now.alignment = arena[c].alignment
      /\ now.top = arena[c].top /\ now.freed = arena[c].freed
      /\ now.retired = arena[c].retired + size
  BY <1>5, <1>6 DEF Retired, Arenas
<1> HIDE DEF now
<1>8. /\ ArenaInv' /\ arena'[c] = now
      /\ \A d \in Chunks : d # c => arena'[d] = arena[d]
  BY <1>1, <1>2, <1>3, <1>4, <1>5, <1>7, ArenaBecomes
<1>9. \A d \in Chunks :
        /\ arena'[d].type = arena[d].type /\ arena'[d].alignment = arena[d].alignment
        /\ arena'[d].top = arena[d].top /\ Remaining(d)' = Remaining(d)
  BY <1>7, <1>8 DEF Remaining
<1>10. BinsInv' /\ CountInv'
  BY <1>1, <1>2, <1>9, NothingRefiled
<1>11. PlaceInv' /\ StorageInv'
  <2>1. UNCHANGED <<pool, cache, lost>> /\ UNCHANGED <<pool, storage>>
    BY <1>2 DEF chunkVars
  <2> QED BY <1>1, <1>9, <2>1, PlacesKept, StorageKept
<1>12. BytesInv'
  <2>1. LiveBytes(c)' = LiveBytes(c) + (-1) * need
    BY <1>1, <1>3, <1>4, <1>7, <1>8, LiveBytesChange DEF need
  <2>2. LiveBytes(c) \in Nat
    BY <1>1, LiveBytesFacts
  <2>3. /\ arena[c].freed + arena[c].retired + LiveBytes(c) <= arena[c].top
        /\ ~RetireUnaligned => arena[c].top = arena[c].freed + arena[c].retired + LiveBytes(c)
    BY <1>1 DEF BytesInv
  <2>4. /\ arena'[c].freed + arena'[c].retired + LiveBytes(c)' <= arena'[c].top
        /\ ~RetireUnaligned => arena'[c].top = arena'[c].freed + arena'[c].retired + LiveBytes(c)'
    BY <1>2, <1>5, <1>6, <1>7, <1>8, <2>1, <2>2, <2>3
  <2> QED BY <1>1, <1>3, <1>8, <2>4, BytesAtOne
<1>13. hand.arena # NoChunk => hand.arena \in Chunks
  BY <1>1, NoRequestFacts DEF HandInv, Requests
<1>14. HandInv'
  BY <1>1, <1>2, <1>9, <1>13 DEF HandInv
<1>15. RequestFits'
  BY <1>1, <1>2, <1>9, <1>13 DEF RequestFits, CanAllocate
<1>16. NothingMissed'
  BY <1>1, <1>2, <1>9 DEF NothingMissed, NeedsArena
<1> QED BY <1>8, <1>10, <1>11, <1>12, <1>14, <1>15, <1>16 DEF IInv

\* An arena that is to be reset leaves the bins.
LEMMA ExtractKeeps ==
  ASSUME ArenaInv, BinsInv, CountInv, NEW c \in Chunks, hand.arena = NoChunk,
         OnlyAt(c), Out(c)', arena[c].type # "none", Extract(c)
  PROVE  BinsInv' /\ CountInv'
<1>1. PICK id, type : id = AlignmentId(arena[c].alignment) /\ type = arena[c].type
  OBVIOUS
<1>2. id \in AlignmentIds /\ Remaining(c) \in Nat /\ Rooms[c] = Remaining(c)
  BY <1>1, ArenaFacts
<1>3. c \in Filed(type, id)
  BY <1>1, NoRequestFacts DEF Filed
<1>4. CASE SmallExtract(c, id)
  <2>1. /\ type = "small" /\ smallTotal' = smallTotal - 1 /\ UNCHANGED splitVars
        /\ small' = [small EXCEPT ![id] = SmallExtracted(small[id], c)]
    BY <1>1, <1>4 DEF SmallExtract
  <2>2. small'[id] = SmallExtracted(small[id], c) /\ small' = [small EXCEPT ![id] = small'[id]]
    BY <1>2, <2>1 DEF BinsInv
  <2>3. SmallGood(small'[id], Filed("small", id) \ {c}, Rooms)
    <3>1. SmallGood(small[id], Filed("small", id), Rooms)
      BY <1>2 DEF BinsInv
    <3> QED BY <2>2, <3>1, SmallExtractedKeeps
  <2> QED BY <1>2, <1>3, <2>1, <2>2, <2>3, LeavesSmall
<1>5. CASE SplitExtract(c, id)
  <2>1. /\ type = "split" /\ splitTotal' = splitTotal - 1 /\ UNCHANGED smallVars
        /\ split' = [split EXCEPT ![id] = SplitExtracted(split[id], id, c)]
    BY <1>1, <1>5 DEF SplitExtract
  <2>2. split'[id] = SplitExtracted(split[id], id, c) /\ split' = [split EXCEPT ![id] = split'[id]]
    BY <1>2, <2>1 DEF BinsInv
  <2>3. SplitGood(split'[id], id, Filed("split", id) \ {c}, Rooms)
    <3>1. SplitGood(split[id], id, Filed("split", id), Rooms)
      BY <1>2 DEF BinsInv
    <3> QED BY <1>2, <1>3, <2>1, <2>2, <3>1, SplitExtractedKeeps
  <2> QED BY <1>2, <1>3, <2>1, <2>2, <2>3, LeavesSplit
<1> QED BY <1>1, <1>4, <1>5 DEF Extract

\* An arena that is reset leaves nothing behind.
LEMMA ResetKeeps ==
  ASSUME ArenaInv, BinsInv, CountInv, BytesInv, NEW c \in Chunks, hand = NoRequest, hand' = NoRequest,
         arena[c].type # "none", Extract(c),
         arena' = [arena EXCEPT ![c] = NoArena],
         live' \in [Chunks -> [Sizes -> Nat]],
         \A d \in Chunks : d # c => live'[d] = live[d],
         \A size \in Sizes : live'[c][size] = 0
  PROVE  /\ ArenaInv' /\ BinsInv' /\ CountInv' /\ BytesInv'
         /\ {d \in Chunks : arena'[d].type = "none"}
              = {d \in Chunks : arena[d].type = "none"} \cup {c}
<1>1. NoArena \in Arenas /\ NoArena.top = 0 /\ NoArena.freed = 0 /\ NoArena.retired = 0
      /\ NoArena.type = "none"
  BY DEF NoArena, Arenas, ArenaTypes
<1>2. /\ ArenaInv' /\ arena'[c] = NoArena
      /\ \A d \in Chunks : d # c => arena'[d] = arena[d]
  <2>1. PICK new \in Arenas : new = NoArena
    BY <1>1
  <2>2. new.top <= MemorySize[c] /\ new.type = "none"
    BY <1>1, <2>1, RegionFacts
  <2> QED BY <2>1, <2>2, ArenaBecomes
<1>3. OnlyAt(c) /\ Out(c)'
  BY <1>1, <1>2 DEF OnlyAt, Out
<1>4. BinsInv' /\ CountInv'
  BY <1>3, NoRequestFacts, ExtractKeeps
<1>5. LiveBytes(c)' = 0
  <2>1. live'[c] \in [Sizes -> Nat] /\ DOMAIN live'[c] = Sizes
    OBVIOUS
  <2>2. LiveBytes(c)' = SumFunctionOnSet(live'[c], Sizes)
    BY <1>1, <1>2, <2>1 DEF LiveBytes, SumFunction
  <2> QED BY <2>1, <2>2, CountFacts
<1>6. BytesInv'
  BY <1>1, <1>2, <1>5, BytesAtOne
<1> QED BY <1>1, <1>2, <1>4, <1>6

\* deallocate_chunk_: the chunk of an arena that was reset is kept or given back.
LEMMA CacheOrReturnKeeps ==
  ASSUME PlaceInv, StorageInv, NEW c \in Chunks, arena[c].type # "none", CacheOrReturn(c), lost' = lost,
         {d \in Chunks : arena'[d].type = "none"} = {d \in Chunks : arena[d].type = "none"} \cup {c}
  PROVE  PlaceInv' /\ StorageInv'
<1>1. PICK r \in Regions : r = RegionOf(c)
  BY RegionFacts
<1>2. c \notin pool /\ c \notin Cached /\ c \notin lost
  BY DEF PlaceInv
<1>3. /\ pool \in SUBSET Chunks /\ lost \in SUBSET Chunks
      /\ cache \in [Regions -> Chunks \cup {NoChunk}]
      /\ {d \in Chunks : arena[d].type = "none"} = pool \cup Cached \cup lost
      /\ pool \cap Cached = {} /\ pool \cap lost = {} /\ Cached \cap lost = {}
      /\ \A s \in Regions : cache[s] # NoChunk => RegionOf(cache[s]) = s
  BY DEF PlaceInv
<1>4. CASE cache[r] = NoChunk /\ cache' = [cache EXCEPT ![r] = c] /\ UNCHANGED <<pool, storage>>
  <2>1. cache' \in [Regions -> Chunks \cup {NoChunk}] /\ cache'[r] = c
        /\ \A s \in Regions : s # r => cache'[s] = cache[s]
    BY <1>3, <1>4
  <2>2. Cached' = Cached \cup {c}
    BY <1>4, <2>1, NoRequestFacts DEF Cached
  <2>3. \A s \in Regions : cache'[s] # NoChunk => RegionOf(cache'[s]) = s
    BY <1>1, <1>3, <2>1
  <2>4. {d \in Chunks : arena'[d].type = "none"} = pool \cup (Cached \cup {c}) \cup lost
    BY <1>3
  <2>5. PlaceInv'
    BY <1>2, <1>3, <1>4, <2>1, <2>2, <2>3, <2>4 DEF PlaceInv
  <2> QED BY <1>4, <2>5, StorageKept
<1>5. CASE pool' = pool \cup {c} /\ storage' = storage - MemorySize[c] /\ cache' = cache
  <2>1. Cached' = Cached
    BY <1>5 DEF Cached
  <2>2. {d \in Chunks : arena'[d].type = "none"} = (pool \cup {c}) \cup Cached \cup lost
    BY <1>3
  <2>3. PlaceInv'
    BY <1>2, <1>3, <1>5, <2>1, <2>2 DEF PlaceInv
  <2>4. StorageInv'
    <3>1. pool' \in SUBSET Chunks /\ c \in pool' /\ pool' \ {c} = pool
      BY <1>2, <1>3, <1>5
    <3>2. PICK held \in Nat : held = SumFunctionOnSet(MemorySize, Chunks \ pool')
      BY <3>1, HeldBytesGrow
    <3>3. SumFunctionOnSet(MemorySize, Chunks \ (pool' \ {c})) = held + MemorySize[c]
      BY <3>1, <3>2, HeldBytesGrow
    <3>4. HeldBytes = held + MemorySize[c]
      BY <3>1, <3>3 DEF HeldBytes
    <3>5. MemorySize[c] \in Nat /\ storage \in 0 .. StorageLimit /\ StorageLimit \in Nat
          /\ storage >= held + MemorySize[c]
      BY <3>4, RegionFacts, BoundAssumption DEF StorageInv, StorageCovers
    <3>6. storage' \in 0 .. StorageLimit /\ storage' >= held
      BY <1>5, <3>5
    <3> QED BY <3>2, <3>6 DEF StorageInv, StorageCovers, HeldBytes
  <2> QED BY <2>3, <2>4
<1> QED BY <1>1, <1>4, <1>5 DEF CacheOrReturn

\* The owner frees a block; the last one takes the arena out of the bins.
LEMMA FreeKeeps ==
  ASSUME IInv, NEW c \in Chunks, NEW size \in Sizes, Free(c, size)
  PROVE  IInv'
<1>1. /\ ArenaInv /\ HandInv /\ BinsInv /\ PlaceInv /\ CountInv /\ BytesInv /\ StorageInv
  BY DEF IInv
<1> DEFINE need == AlignUp(size, arena[c].alignment)
           now == Released(arena[c], size)
<1>2. TakenBack(c, size) /\ hand = NoRequest /\ hand' = NoRequest /\ lost' = lost
  BY DEF Free
<1>3. /\ live' \in [Chunks -> [Sizes -> Nat]] /\ live[c][size] > 0
      /\ BlocksChange(live[c], live'[c], size, -1)
      /\ \A b \in Chunks : b # c => live'[b] = live[b]
  BY <1>1, <1>2, TakenBackMeans
<1>4. arena[c].type # "none"
  BY <1>1, <1>3, LiveIsInArena
<1>5. /\ arena[c] \in Arenas /\ arena[c].alignment \in Alignments
      /\ arena[c].top \in Nat /\ arena[c].freed \in Nat /\ arena[c].retired \in Nat
      /\ arena[c].top <= MemorySize[c]
  BY <1>1, <1>4, ArenaFacts DEF ArenaInv
<1>6. need \in Nat /\ LiveBytes(c) \in Nat
  BY <1>1, <1>5, SizeFacts, LiveBytesFacts
<1>7. /\ arena[c].freed + arena[c].retired + LiveBytes(c) <= arena[c].top
      /\ ~RetireUnaligned => arena[c].top = arena[c].freed + arena[c].retired + LiveBytes(c)
  BY <1>1 DEF BytesInv
<1> DEFINE Stays == /\ ~Resettable(now) /\ arena' = [arena EXCEPT ![c] = now]
                    /\ UNCHANGED <<smallVars, splitVars, pool, cache, storage>>
           Goes == /\ Resettable(now) /\ Extract(c) /\ arena' = [arena EXCEPT ![c] = NoArena]
                   /\ CacheOrReturn(c)
<1>8. Stays \/ Goes
  BY DEF Free
<1> HIDE DEF need
<1>9. /\ now \in Arenas /\ now.type = arena[c].type /\ now.alignment = arena[c].alignment
      /\ now.top = arena[c].top /\ now.freed = arena[c].freed + need
      /\ now.retired = arena[c].retired
  BY <1>5, <1>6 DEF Released, Arenas, need
<1> HIDE DEF now
<1>10. CASE Stays
  <2>1. /\ ArenaInv' /\ arena'[c] = now
        /\ \A d \in Chunks : d # c => arena'[d] = arena[d]
    BY <1>1, <1>3, <1>4, <1>5, <1>9, <1>10, ArenaBecomes
  <2>2. \A d \in Chunks :
          /\ arena'[d].type = arena[d].type /\ arena'[d].alignment = arena[d].alignment
          /\ arena'[d].top = arena[d].top
    BY <1>9, <2>1
  <2>3. BinsInv' /\ CountInv'
    BY <1>1, <1>2, <1>10, <2>2, NothingRefiled
  <2>4. PlaceInv' /\ StorageInv'
    BY <1>1, <1>2, <1>10, <2>2, PlacesKept, StorageKept
  <2>5. BytesInv'
    <3>1. LiveBytes(c)' = LiveBytes(c) + (-1) * need
      BY <1>1, <1>3, <1>4, <1>9, <2>1, LiveBytesChange DEF need
    <3>2. /\ arena'[c].freed + arena'[c].retired + LiveBytes(c)' <= arena'[c].top
          /\ ~RetireUnaligned => arena'[c].top = arena'[c].freed + arena'[c].retired + LiveBytes(c)'
      BY <1>5, <1>6, <1>7, <1>9, <2>1, <3>1
    <3> QED BY <1>1, <1>3, <2>1, <3>2, BytesAtOne
  <2> QED BY <1>2, <2>1, <2>3, <2>4, <2>5, HandIsEmpty DEF IInv
<1>11. CASE Goes
  <2>1. arena[c].freed + need = arena[c].top
    BY <1>9, <1>11 DEF Resettable
  <2>2. \A s \in Sizes : live'[c][s] = 0
    <3>1. /\ live[c] \in [Sizes -> Nat]
          /\ LiveBytes(c) = SumFunctionOnSet(Weights(live[c], arena[c].alignment), Sizes)
      BY <1>1, <1>4, LiveBytesFacts
    <3>2. PICK other \in [Sizes -> Nat] : other = live'[c]
      BY <1>3
    <3>3. SumFunctionOnSet(Weights(other, arena[c].alignment), Sizes) = LiveBytes(c) + (-1) * need
      BY <1>3, <1>5, <3>1, <3>2, WeightChange DEF need
    <3>4. PICK left \in Nat : left = SumFunctionOnSet(Weights(other, arena[c].alignment), Sizes)
      BY <1>5, WeightFacts
    <3>5. left = 0
      BY <1>5, <1>6, <1>7, <2>1, <3>3, <3>4
    <3>6. \A s \in Sizes : other[s] = 0
      BY <1>5, <3>4, <3>5, WeightFacts
    <3> QED BY <3>2, <3>6
  <2>3. /\ ArenaInv' /\ BinsInv' /\ CountInv' /\ BytesInv'
        /\ {d \in Chunks : arena'[d].type = "none"}
             = {d \in Chunks : arena[d].type = "none"} \cup {c}
    BY <1>1, <1>2, <1>3, <1>4, <1>11, <2>2, ResetKeeps
  <2>4. PlaceInv' /\ StorageInv'
    BY <1>1, <1>2, <1>4, <1>11, <2>3, CacheOrReturnKeeps
  <2> QED BY <1>2, <2>3, <2>4, HandIsEmpty DEF IInv
<1> QED BY <1>8, <1>10, <1>11

\* An arena is reclaimed: it is filed anew, or reset if nothing of it is in use.
LEMMA ReclaimKeeps ==
  ASSUME IInv, NEW c \in Chunks, Reclaim(c)
  PROVE  IInv'
<1>1. /\ ArenaInv /\ HandInv /\ BinsInv /\ PlaceInv /\ CountInv /\ BytesInv /\ StorageInv
  BY DEF IInv
<1>0. PICK id, type : id = AlignmentId(arena[c].alignment) /\ type = arena[c].type
  OBVIOUS
<1> DEFINE now == Reclaimed(arena[c])
           Goes == /\ Resettable(now) /\ Extract(c) /\ arena' = [arena EXCEPT ![c] = NoArena]
                   /\ lost' = lost \cup {c}
           Stays == /\ SmallRefile(c, id) \/ SplitRefile(c, id)
                    /\ arena' = [arena EXCEPT ![c] = now] /\ lost' = lost
<1>2. /\ hand = NoRequest /\ hand' = NoRequest /\ arena[c].retired > 0
      /\ live' = live /\ pool' = pool /\ cache' = cache /\ storage' = storage
      /\ Goes \/ Stays
  BY <1>0 DEF Reclaim
<1>3. arena[c].type # "none"
  <2>1. NoArena.retired = 0
    BY DEF NoArena
  <2> QED BY <1>1, <1>2, <2>1, ArenaFacts
<1>4. /\ arena[c] \in Arenas /\ arena[c].alignment \in Alignments /\ id \in AlignmentIds
      /\ arena[c].top \in Nat /\ arena[c].freed \in Nat /\ arena[c].retired \in Nat
      /\ arena[c].top <= MemorySize[c] /\ Remaining(c) \in Nat /\ Rooms[c] = Remaining(c)
  BY <1>0, <1>1, <1>3, ArenaFacts DEF ArenaInv
<1>5. /\ LiveBytes(c) \in Nat /\ (LiveBytes(c) = 0 <=> \A size \in Sizes : live[c][size] = 0)
      /\ arena[c].freed + arena[c].retired + LiveBytes(c) <= arena[c].top
      /\ ~RetireUnaligned => arena[c].top = arena[c].freed + arena[c].retired + LiveBytes(c)
  BY <1>1, LiveBytesFacts DEF BytesInv
<1>6. /\ now \in Arenas /\ now.type = arena[c].type /\ now.alignment = arena[c].alignment
      /\ now.top = arena[c].top /\ now.freed = arena[c].freed + arena[c].retired
      /\ now.retired = 0
  <2>1. arena[c].freed + arena[c].retired \in Nat
    BY <1>4
  <2>2. now = [arena[c] EXCEPT !.freed = arena[c].freed + arena[c].retired, !.retired = 0]
    BY <1>4 DEF Reclaimed, Arenas
  <2> HIDE DEF now
  <2> QED BY <1>4, <2>1, <2>2 DEF Arenas
<1>7. live' \in [Chunks -> [Sizes -> Nat]] /\ \A d \in Chunks : live'[d] = live[d]
  BY <1>1, <1>2 DEF ArenaInv
<1> HIDE DEF now
<1>8. StorageInv'
  BY <1>1, <1>2, StorageKept
<1>9. CASE Goes
  <2>1. \A size \in Sizes : live'[c][size] = 0
    <3>1. LiveBytes(c) = 0
      BY <1>4, <1>5, <1>6, <1>9 DEF Resettable
    <3> QED BY <1>5, <1>7, <3>1
  <2>2. /\ ArenaInv' /\ BinsInv' /\ CountInv' /\ BytesInv'
        /\ {d \in Chunks : arena'[d].type = "none"}
             = {d \in Chunks : arena[d].type = "none"} \cup {c}
    BY <1>1, <1>2, <1>3, <1>7, <1>9, <2>1, ResetKeeps
  <2>3. PlaceInv'
    <3>1. c \notin pool /\ c \notin Cached
      BY <1>1, <1>3 DEF PlaceInv
    <3>2. Cached' = Cached
      BY <1>2 DEF Cached
    <3> QED BY <1>1, <1>2, <1>9, <2>2, <3>1, <3>2 DEF PlaceInv
  <2> QED BY <1>2, <1>8, <2>2, <2>3, HandIsEmpty DEF IInv
<1>10. CASE Stays
  <2>1. /\ ArenaInv' /\ arena'[c] = now
        /\ \A d \in Chunks : d # c => arena'[d] = arena[d]
    BY <1>1, <1>3, <1>4, <1>6, <1>7, <1>10, ArenaBecomes
  <2>2. \A d \in Chunks :
          /\ arena'[d].type = arena[d].type /\ arena'[d].alignment = arena[d].alignment
          /\ arena'[d].top = arena[d].top
    BY <1>6, <2>1
  <2>3. Rooms' = Rooms /\ \A t \in {"small", "split"}, k \in AlignmentIds : Untouched(t, k)
    <3>1. Rooms' = Rooms
      BY <2>2 DEF Rooms, Remaining
    <3> QED BY <1>2, <2>2, <3>1 DEF Untouched, Filed
  <2>4. \A t \in {"small", "split"} : FiledAll(t)' = FiledAll(t)
    BY <1>2, <2>2 DEF FiledAll
  <2>5. c \in Filed(type, id)
    BY <1>0, <1>2, NoRequestFacts DEF Filed
  <2>6. ASSUME SmallRefile(c, id) PROVE BinsInv' /\ CountInv'
    <3>1. /\ type = "small" /\ smallTotal' = smallTotal /\ split' = split /\ splitTotal' = splitTotal
          /\ small' = [small EXCEPT ![id] = SmallReleased(SmallExtracted(small[id], c), c, Rooms[c])]
      BY <1>0, <1>4, <2>6 DEF SmallRefile, splitVars
    <3> DEFINE set == Filed("small", id)
    <3>2. SmallGood(SmallExtracted(small[id], c), set \ {c}, Rooms)
      <4>1. SmallGood(small[id], set, Rooms)
        BY <1>1, <1>4 DEF BinsInv
      <4> QED BY <4>1, SmallExtractedKeeps
    <3>3. \A d \in set \ {c} : Rooms[d] = Remaining(d) /\ Rooms[d] \in Int
      BY <1>1, FiledFacts
    <3>4. (set \ {c}) \cup {c} = set
      BY <2>5, <3>1
    <3> HIDE DEF set
    <3>5. SmallGood(SmallReleased(SmallExtracted(small[id], c), c, Rooms[c]), set, Rooms)
      <4>1. PICK bin : bin = SmallExtracted(small[id], c)
        OBVIOUS
      <4>2. SmallGood(SmallReleased(bin, c, Rooms[c]), (set \ {c}) \cup {c}, Rooms)
        BY <1>4, <3>2, <3>3, <4>1, SmallReleasedKeeps
      <4> QED BY <3>4, <4>1, <4>2
    <3>6. small' = [small EXCEPT ![id] = small'[id]]
          /\ small'[id] = SmallReleased(SmallExtracted(small[id], c), c, Rooms[c])
      BY <1>1, <1>4, <3>1 DEF BinsInv
    <3>7. SmallGood(small'[id], Filed("small", id)', Rooms')
      BY <1>4, <2>3, <3>5, <3>6 DEF Untouched, set
    <3>8. BinsInv'
      BY <1>1, <1>4, <2>3, <3>1, <3>6, <3>7, BinsSmall
    <3>9. CountInv'
      BY <1>1, <2>4, <3>1 DEF CountInv, TotalsCount, FiledAll
    <3> QED BY <3>8, <3>9
  <2>7. ASSUME SplitRefile(c, id) PROVE BinsInv' /\ CountInv'
    <3>1. /\ type = "split" /\ splitTotal' = splitTotal /\ small' = small /\ smallTotal' = smallTotal
          /\ split' = [split EXCEPT ![id] =
                         SplitReleased(SplitExtracted(split[id], id, c), id, c, Rooms[c])]
      BY <1>0, <1>4, <2>7 DEF SplitRefile, smallVars
    <3> DEFINE set == Filed("split", id)
    <3>2. SplitGood(SplitExtracted(split[id], id, c), id, set \ {c}, Rooms)
      <4>1. SplitGood(split[id], id, set, Rooms)
        BY <1>1, <1>4 DEF BinsInv
      <4> QED BY <1>4, <2>5, <3>1, <4>1, SplitExtractedKeeps
    <3>3. \A d \in set \ {c} : Rooms[d] = Remaining(d) /\ Rooms[d] \in Nat
      BY <1>1, FiledFacts
    <3>4. (set \ {c}) \cup {c} = set
      BY <2>5, <3>1
    <3> HIDE DEF set
    <3>5. SplitGood(SplitReleased(SplitExtracted(split[id], id, c), id, c, Rooms[c]), id, set, Rooms)
      <4>1. PICK entry : entry = SplitExtracted(split[id], id, c)
        OBVIOUS
      <4>2. SplitGood(SplitReleased(entry, id, c, Rooms[c]), id, (set \ {c}) \cup {c}, Rooms)
        BY <1>4, <3>2, <3>3, <4>1, SplitReleasedKeeps
      <4> QED BY <3>4, <4>1, <4>2
    <3>6. split' = [split EXCEPT ![id] = split'[id]]
          /\ split'[id] = SplitReleased(SplitExtracted(split[id], id, c), id, c, Rooms[c])
      BY <1>1, <1>4, <3>1 DEF BinsInv
    <3>7. SplitGood(split'[id], id, Filed("split", id)', Rooms')
      BY <1>4, <2>3, <3>5, <3>6 DEF Untouched, set
    <3>8. BinsInv'
      BY <1>1, <1>4, <2>3, <3>1, <3>6, <3>7, BinsSplit
    <3>9. CountInv'
      BY <1>1, <2>4, <3>1 DEF CountInv, TotalsCount, FiledAll
    <3> QED BY <3>8, <3>9
  <2>8. PlaceInv'
    BY <1>1, <1>2, <1>10, <2>2, PlacesKept
  <2>9. BytesInv'
    <3>1. LiveBytes(c)' = LiveBytes(c)
      BY <1>2, <1>3, <1>6, <2>1 DEF LiveBytes
    <3>2. /\ arena'[c].freed + arena'[c].retired + LiveBytes(c)' <= arena'[c].top
          /\ ~RetireUnaligned => arena'[c].top = arena'[c].freed + arena'[c].retired + LiveBytes(c)'
      BY <1>4, <1>5, <1>6, <2>1, <3>1
    <3> QED BY <1>1, <1>7, <2>1, <3>2, BytesAtOne
  <2> QED BY <1>2, <1>8, <1>10, <2>1, <2>6, <2>7, <2>8, <2>9, HandIsEmpty DEF IInv
<1> QED BY <1>2, <1>9, <1>10

-----------------------------------------------------------------------------
(* The start, and the steps taken together.                                *)

\* Before the first call all chunks are in the pools and the bins are empty.
LEMMA InitIInv ==
  Init => IInv
<1> SUFFICES ASSUME Init PROVE IInv
  OBVIOUS
<1>1. /\ arena = [c \in Chunks |-> NoArena] /\ live = [c \in Chunks |-> [size \in Sizes |-> 0]]
      /\ small = [id \in AlignmentIds |-> EmptySmallBin] /\ smallTotal = 0
      /\ split = [id \in AlignmentIds |-> EmptySplitEntry] /\ splitTotal = 0
      /\ hand = NoRequest /\ pool = Chunks /\ cache = [r \in Regions |-> NoChunk]
      /\ storage = 0 /\ lost = {}
  BY DEF Init, SmallInit, SplitInit
<1>2. /\ NoArena \in Arenas /\ NoArena.type = "none" /\ NoArena.top = 0
      /\ NoArena.freed = 0 /\ NoArena.retired = 0
  BY DEF NoArena, Arenas, ArenaTypes
<1>3. ArenaInv
  BY <1>1, <1>2, RegionFacts DEF ArenaInv
<1>4. HandInv /\ RequestFits /\ NothingMissed
  BY <1>1, NoRequestFacts DEF HandInv, RequestFits, NothingMissed, NeedsArena
<1>5. \A type \in {"small", "split"} : FiledAll(type) = {} /\ \A id \in AlignmentIds : Filed(type, id) = {}
  BY <1>1, <1>2 DEF FiledAll, Filed
<1>6. <<>> \in Seq(Chunks) /\ ToSet(<<>>) = {} /\ IsInjective(<<>>)
  BY EmptySeq DEF ToSet, IsInjective
<1>7. BinsInv
  <2>1. ASSUME NEW id \in AlignmentIds PROVE SmallGood(EmptySmallBin, {}, Rooms)
    <3>1. PICK bin : bin = EmptySmallBin
      OBVIOUS
    <3>2. /\ bin \in SmallEntries /\ bin.current = NoChunk
          /\ bin.free = <<>> /\ bin.cutoff = <<>> /\ bin.recycled = <<>>
      BY <1>6, <3>1 DEF EmptySmallBin, SmallEntries
    <3>3. SmallLists(bin) \in Lists(Kinds) /\ \A l \in Kinds : ToSet(SmallLists(bin)[l]) = {}
                                                               /\ IsInjective(SmallLists(bin)[l])
      BY <1>6, <3>2, SmallListsType DEF Kinds
    <3>4. Held(Kinds, SmallLists(bin), NoChunk, {})
      BY <3>3, NoRequestFacts DEF Held
    <3>5. HoldsOnce(SmallLists(bin), NoChunk, {})
      BY <3>3, <3>4, HoldsFrom
    <3>6. SmallGood(bin, {}, Rooms)
      BY <1>6, <3>2, <3>5 DEF SmallGood
    <3> QED BY <3>1, <3>6
  <2>2. ASSUME NEW id \in AlignmentIds PROVE SplitGood(EmptySplitEntry, id, {}, Rooms)
    <3>1. PICK entry : entry = EmptySplitEntry
      OBVIOUS
    <3>2. PICK arenas : arenas = [bin \in BinIds |-> <<>>]
      OBVIOUS
    <3>3. /\ entry \in SplitEntries /\ entry.cached = NoChunk /\ entry.arenas = arenas
          /\ entry.present = {}
      BY <1>6, <3>1, <3>2 DEF EmptySplitEntry, SplitEntries, Lists
    <3>4. arenas \in Lists(BinIds) /\ \A l \in BinIds : /\ ToSet(arenas[l]) = {} /\ IsInjective(arenas[l])
                                                        /\ arenas[l] = <<>>
      BY <1>6, <3>2 DEF Lists
    <3>5. Held(BinIds, arenas, NoChunk, {})
      BY <3>4, NoRequestFacts DEF Held
    <3>6. HoldsOnce(arenas, NoChunk, {})
      BY <3>4, <3>5, HoldsFrom
    <3>7. InOrder(arenas, {}, id, Rooms)
      BY <3>4 DEF InOrder
    <3>8. SplitGood(entry, id, {}, Rooms)
      BY <3>3, <3>6, <3>7 DEF SplitGood
    <3> QED BY <3>1, <3>8
  <2>3. ASSUME NEW id \in AlignmentIds
        PROVE  small[id] \in SmallEntries /\ split[id] \in SplitEntries
    BY <1>1, <2>1, <2>2, SmallGoodMeans, SplitGoodMeans
  <2> QED BY <1>1, <1>5, <2>1, <2>2, <2>3 DEF BinsInv
<1>8. PlaceInv
  <2>1. {c \in Chunks : arena[c].type = "none"} = Chunks
    BY <1>1, <1>2
  <2>2. Cached = {}
    BY <1>1 DEF Cached
  <2> QED BY <1>1, <2>1, <2>2 DEF PlaceInv
<1>9. CountInv
  <2>1. Cardinality({}) = 0
    BY FS_EmptySet
  <2> QED BY <1>1, <1>5, <2>1 DEF CountInv, TotalsCount, FiledAll
<1>10. BytesInv
  <2>1. ASSUME NEW c \in Chunks PROVE LiveBytes(c) = 0
    BY <1>1, <1>3, LiveBytesFacts
  <2> QED BY <1>1, <1>2, <2>1 DEF BytesInv
<1>11. StorageInv
  <2>1. HeldBytes = 0
    BY <1>1, SumOfNone DEF HeldBytes
  <2> QED BY <1>1, <2>1, BoundAssumption DEF StorageInv, StorageCovers
<1> QED BY <1>3, <1>4, <1>7, <1>8, <1>9, <1>10, <1>11 DEF IInv

\* Where nothing happens the invariant stays.
LEMMA StutterKeeps ==
  ASSUME IInv, UNCHANGED vars
  PROVE  IInv'
<1>1. /\ ArenaInv /\ HandInv /\ BinsInv /\ PlaceInv /\ CountInv /\ BytesInv /\ StorageInv
      /\ RequestFits /\ NothingMissed
  BY DEF IInv
<1>2. /\ UNCHANGED arenaVars /\ UNCHANGED smallVars /\ UNCHANGED splitVars /\ hand' = hand
      /\ arena' = arena /\ UNCHANGED <<pool, cache, lost>> /\ UNCHANGED <<pool, storage>>
  BY DEF vars, chunkVars, arenaVars
<1>3. ArenaInv' /\ BytesInv'
  BY <1>1, <1>2, ArenasKept
<1>4. BinsInv' /\ CountInv'
  BY <1>1, <1>2, NothingRefiled
<1>5. PlaceInv' /\ StorageInv'
  BY <1>1, <1>2, PlacesKept, StorageKept
<1>6. HandInv'
  BY <1>1, <1>2 DEF HandInv
<1>7. \A c : Remaining(c)' = Remaining(c)
  BY <1>2 DEF Remaining
<1>8. RequestFits'
  BY <1>1, <1>2, <1>7 DEF RequestFits, CanAllocate
<1>9. NothingMissed'
  BY <1>1, <1>2, <1>7 DEF NothingMissed, NeedsArena
<1> QED BY <1>3, <1>4, <1>5, <1>6, <1>8, <1>9 DEF IInv

\* The invariant holds in every state, whatever the owner and the other threads do.
THEOREM InvariantHolds == Spec => []IInv
<1>1. IInv /\ [Next]_vars => IInv'
  <2> SUFFICES ASSUME IInv, [Next]_vars PROVE IInv'
    OBVIOUS
  <2>1. ASSUME NEW size \in Sizes, NEW alignment \in Alignments, NEW c \in Chunks \cup {NoChunk},
               Acquire(size, alignment, c)
        PROVE  IInv'
    BY <2>1, AcquireKeeps
  <2>2. CASE TakeCachedChunk
    BY <2>2, TakeCachedChunkKeeps
  <2>3. CASE OutOfMemory
    BY <2>3, OutOfMemoryKeeps
  <2>4. CASE Allocate
    BY <2>4, AllocateKeeps
  <2>5. CASE FreeTlaResources
    BY <2>5, FreeTlaResourcesKeeps
  <2>6. ASSUME NEW c \in Chunks, TakeFreshChunk(c) \/ CommitFails(c) \/ Reclaim(c)
        PROVE  IInv'
    BY <2>6, TakeFreshChunkKeeps, CommitFailsKeeps, ReclaimKeeps
  <2>7. ASSUME NEW c \in Chunks, NEW size \in Sizes, Free(c, size) \/ Retire(c, size)
        PROVE  IInv'
    BY <2>7, FreeKeeps, RetireKeeps
  <2>8. CASE UNCHANGED vars
    BY <2>8, StutterKeeps
  <2> QED BY <2>1, <2>2, <2>3, <2>4, <2>5, <2>6, <2>7, <2>8 DEF Next
<1> QED BY <1>1, InitIInv, PTL DEF Spec

-----------------------------------------------------------------------------
(* What follows.                                                           *)

\* Types; blocks are cut off inside their chunk (FastArenaView::acquire), and no more
\* comes back, or waits to, than was cut off (release, retire_allocation).
THEOREM HeapTypeCorrect == Spec => []TypeOK
<1>1. IInv => TypeOK
  <2> SUFFICES ASSUME IInv PROVE TypeOK
    OBVIOUS
  <2>1. ArenaInv /\ HandInv /\ PlaceInv /\ CountInv /\ BytesInv /\ StorageInv
    BY DEF IInv
  <2>2. ASSUME NEW c \in Chunks PROVE ArenaOK(c)
    <3>1. arena[c] \in Arenas
      BY <2>1 DEF ArenaInv
    <3>2. /\ arena[c].type \in ArenaTypes /\ arena[c].alignment \in Alignments \cup {0}
          /\ arena[c].top \in Nat /\ arena[c].freed \in Nat /\ arena[c].retired \in Nat
      BY <3>1 DEF Arenas
    <3>3. LiveBytes(c) \in Nat /\ MemorySize[c] \in Nat /\ arena[c].top <= MemorySize[c]
      BY <2>1, LiveBytesFacts, RegionFacts DEF ArenaInv
    <3>4. arena[c].freed + arena[c].retired + LiveBytes(c) <= arena[c].top
      BY <2>1 DEF BytesInv
    <3>5. /\ arena[c].top \in 0 .. MemorySize[c] /\ arena[c].freed \in 0 .. MemorySize[c]
          /\ arena[c].retired \in 0 .. MemorySize[c]
      BY <3>2, <3>3, <3>4
    <3> QED BY <3>2, <3>5 DEF ArenaOK
  <2>3. DOMAIN arena = Chunks /\ live \in [Chunks -> [Sizes -> Nat]]
    BY <2>1 DEF ArenaInv
  <2> QED BY <2>1, <2>2, <2>3 DEF TypeOK, HandInv, PlaceInv, CountInv, StorageInv
<1> QED BY <1>1, InvariantHolds, PTL

\* No arena is in two lists, in the bins of another allocator or alignment, or filed while
\* it is in hand; no chunk is both with an arena and free, or free in two places
\* (put_arena, FastArenaSmallBin::release, extract, deallocate_chunk_).
THEOREM EachChunkOnce == Spec => []ChunkOnce
<1>1. IInv => ChunkOnce
  <2> SUFFICES ASSUME IInv PROVE ChunkOnce
    OBVIOUS
  <2>1. BinsInv /\ PlaceInv /\ HandInv
    BY DEF IInv
  <2>2. ASSUME NEW id \in AlignmentIds
        PROVE  /\ HoldsOnce(SmallLists(small[id]), small[id].current, Filed("small", id))
               /\ HoldsOnce(split[id].arenas, split[id].cached, Filed("split", id))
    BY <2>1 DEF BinsInv, SmallGood, SplitGood
  <2> QED BY <2>1, <2>2 DEF ChunkOnce, PlaceInv, HandInv
<1> QED BY <1>1, InvariantHolds, PTL

\* Every filed arena is where its room says, and the bits of the bins tell which are not
\* empty, so that extract_arena and acquire_bin_arena find what they look for.
THEOREM AllFiledByRoom == Spec => []FiledByRoom
<1>1. IInv => FiledByRoom
  <2> SUFFICES ASSUME IInv PROVE FiledByRoom
    OBVIOUS
  <2>1. BinsInv /\ ArenaInv
    BY DEF IInv
  <2>2. \A c \in Chunks : Rooms[c] = Remaining(c)
    BY DEF Rooms
  <2>3. ASSUME NEW id \in AlignmentIds, NEW bin \in BinIds
        PROVE  /\ \A c \in ToSet(split[id].arenas[bin]) : ArenaBinClamped(id, Remaining(c)) = bin
               /\ bin \in split[id].present <=> split[id].arenas[bin] # <<>>
    <3>1. InOrder(split[id].arenas, split[id].present, id, Rooms) /\ split[id].arenas \in Lists(BinIds)
      BY <2>1, SplitGoodMeans DEF BinsInv
    <3>2. ToSet(split[id].arenas[bin]) \subseteq Chunks
      BY <3>1, ListMembers DEF Lists
    <3> QED BY <2>2, <3>1, <3>2 DEF InOrder
  <2>4. ASSUME NEW id \in AlignmentIds
        PROVE  /\ \A c \in ToSet(small[id].free) : Remaining(c) >= SizeCutoff
               /\ \A c \in ToSet(small[id].cutoff \o small[id].recycled) : Remaining(c) < SizeCutoff
    <3>1. PICK bin : bin = small[id]
      OBVIOUS
    <3>2. SmallGood(bin, Filed("small", id), Rooms)
      BY <2>1, <3>1 DEF BinsInv
    <3>3. bin.free \in Seq(Chunks) /\ bin.cutoff \in Seq(Chunks) /\ bin.recycled \in Seq(Chunks)
      BY <3>2, SmallGoodMeans
    <3>4. ToSet(bin.cutoff \o bin.recycled) = ToSet(bin.cutoff) \cup ToSet(bin.recycled)
      BY <3>3, ListJoin
    <3>5. /\ ToSet(bin.free) \subseteq Chunks /\ ToSet(bin.cutoff) \subseteq Chunks
          /\ ToSet(bin.recycled) \subseteq Chunks
      BY <3>3, ListMembers
    <3> QED BY <2>2, <3>1, <3>2, <3>4, <3>5 DEF SmallGood
  <2> QED BY <2>3, <2>4 DEF FiledByRoom
<1> QED BY <1>1, InvariantHolds, PTL

\* total_arenas of both allocators counts the arenas in their bins: what empty() is
\* asked before a TLA is destroyed.
THEOREM TotalsAreCounts == Spec => []TotalsCount
<1>1. IInv => TotalsCount
  BY DEF IInv, CountInv
<1> QED BY <1>1, InvariantHolds, PTL

\* The arena taken for a request can serve it, so the CUW3_CHECK in allocate() of either
\* allocator never fails.
THEOREM RequestsAreServed == Spec => []RequestFits
<1>1. IInv => RequestFits
  BY DEF IInv
<1> QED BY <1>1, InvariantHolds, PTL

\* A chunk is asked for only when no arena has the room acquire() promises to find.
THEOREM NothingIsMissed == Spec => []NothingMissed
<1>1. IInv => NothingMissed
  BY DEF IInv
<1> QED BY <1>1, InvariantHolds, PTL

\* total_chunk_storage_size covers the chunks the thread has and cannot wrap below zero
\* when deallocate_chunk_ takes one off, failed commits or not.
THEOREM StorageIsCovered == Spec => []StorageCovers
<1>1. IInv => StorageCovers
  BY DEF IInv, StorageInv
<1> QED BY <1>1, InvariantHolds, PTL

\* Where other threads free aligned sizes only, every byte cut off an arena is in use,
\* back, or waiting to be reclaimed; an arena that is reset has nothing in use.
THEOREM BytesAreAccounted == Spec => [](~RetireUnaligned => BytesAccounted)
<1>1. IInv => (~RetireUnaligned => BytesAccounted)
  BY DEF IInv, BytesInv, BytesAccounted
<1> QED BY <1>1, InvariantHolds, PTL

\* Whatever the sizes are, what is in use of an arena was cut off it and has not come
\* back: neither the owner's release nor a reclaim resets an arena blocks are used of.
NothingInUseIsReset ==
  \A c \in Chunks : arena[c].type = "none" => \A size \in Sizes : live[c][size] = 0

\* It holds also where other threads free sizes that are not aligned, since a size falls
\* short of its aligned one and never exceeds it (retire_allocation, Resettable).
THEOREM InUseIsNotReset == Spec => []NothingInUseIsReset
<1>1. IInv => NothingInUseIsReset
  <2> SUFFICES ASSUME IInv, NEW c \in Chunks, arena[c].type = "none", NEW size \in Sizes
               PROVE  live[c][size] = 0
    BY DEF NothingInUseIsReset
  <2>1. ArenaInv /\ BytesInv
    BY DEF IInv
  <2>2. live[c][size] \in Nat
    BY <2>1 DEF ArenaInv
  <2>3. ~(live[c][size] > 0)
    BY <2>1, LiveIsInArena
  <2> QED BY <2>2, <2>3
<1> QED BY <1>1, InvariantHolds, PTL

\* The bins of requests and the bins of arenas agree, for every alignment and every
\* parameters FastArenaBinsInfo::create accepts: no request is looked for in a bin one of
\* whose arenas is too small for it, or after one whose arenas all have the room.
THEOREM BinsMeet == Spec => []ClassesMeet
<1>1. IInv => ClassesMeet
  <2> SUFFICES ASSUME IInv PROVE ClassesMeet
    OBVIOUS
  <2>1. split \in [AlignmentIds -> SplitEntries]
    BY DEF IInv, BinsInv
  <2>2. ASSUME NEW id \in AlignmentIds
        PROVE  DOMAIN split[id].arenas = BinIds /\ WrongSizes[id] = {} /\ WrongRooms[id] = {}
    <3>1. split[id].arenas \in Lists(BinIds)
      BY <2>1 DEF SplitEntries
    <3> QED BY <3>1, NoneIsWrong DEF Lists
  <2> QED BY <2>1, <2>2 DEF ClassesMeet
<1> QED BY <1>1, InvariantHolds, PTL

-----------------------------------------------------------------------------
(* What a reclaim finds.                                                   *)

RetiredAligned ==
  \A c \in Chunks :
    arena[c].type # "none" => IsAligned(arena[c].retired, arena[c].alignment)

\* Nothing is aligned, and two aligned sizes make an aligned one.
LEMMA AlignedSum ==
  ASSUME NEW a \in Nat \ {0}
  PROVE  /\ IsAligned(0, a)
         /\ \A v, w \in Nat : IsAligned(v, a) /\ IsAligned(w, a) => IsAligned(v + w, a)
<1>1. IsAligned(0, a)
  <2>1. (0 * a) % a = 0
    BY ModZero
  <2> QED BY <2>1 DEF IsAligned
<1>2. ASSUME NEW v \in Nat, NEW w \in Nat, v % a = 0, w % a = 0
      PROVE  (v + w) % a = 0
  <2>1. PICK i \in Nat : v = i * a
    BY <1>2, ModQuotient
  <2>2. PICK j \in Nat : w = j * a
    BY <1>2, ModQuotient
  <2>3. v + w = (i + j) * a /\ i + j \in Nat
    BY <2>1, <2>2
  <2>4. ((i + j) * a) % a = 0
    BY <2>3, ModZero
  <2> QED BY <2>3, <2>4
<1> QED BY <1>1, <1>2 DEF IsAligned

\* One arena changes.
LEMMA AlignedAtOne ==
  ASSUME ArenaInv, RetiredAligned, NEW c, NEW new, arena' = [arena EXCEPT ![c] = new],
         new.type # "none" => IsAligned(new.retired, new.alignment)
  PROVE  RetiredAligned'
BY DEF ArenaInv, RetiredAligned

\* Aligned sizes retired make aligned sums; everything else leaves the word as it is or
\* empties it.
LEMMA AlignedStep ==
  ASSUME IInv, ~RetireUnaligned, RetiredAligned, [Next]_vars
  PROVE  RetiredAligned'
<1>1. ArenaInv /\ HandInv
  BY DEF IInv
<1>2. ASSUME arena' = arena PROVE RetiredAligned'
  BY <1>2 DEF RetiredAligned
<1>3. ASSUME NEW c, NeedsArena, Construct(c) PROVE RetiredAligned'
  <2>1. hand.alignment \in Alignments
    BY <1>1, <1>3 DEF HandInv, NeedsArena, Requests
  <2>2. IsAligned(0, hand.alignment)
    BY <2>1, AlignmentType, AlignedSum
  <2> DEFINE new == NewArena(TypeFor(hand.size), hand.alignment)
  <2>3. new.retired = 0 /\ new.alignment = hand.alignment /\ arena' = [arena EXCEPT ![c] = new]
    BY <1>3 DEF NewArena, Construct
  <2> HIDE DEF new
  <2> QED BY <1>1, <2>2, <2>3, AlignedAtOne
<1>4. ASSUME NEW c \in Chunks, arena' = [arena EXCEPT ![c] = NoArena] PROVE RetiredAligned'
  <2>1. NoArena.type = "none"
    BY DEF NoArena
  <2> QED BY <1>1, <1>4, <2>1, AlignedAtOne
<1>5. ASSUME NEW c \in Chunks, NEW new, arena' = [arena EXCEPT ![c] = new],
             new.type = arena[c].type, new.alignment = arena[c].alignment,
             new.retired = arena[c].retired
      PROVE  RetiredAligned'
  BY <1>1, <1>5, AlignedAtOne DEF RetiredAligned
<1>6. ASSUME NEW size \in Sizes, NEW alignment \in Alignments, NEW c \in Chunks \cup {NoChunk},
             Acquire(size, alignment, c)
      PROVE  RetiredAligned'
  BY <1>2, <1>6 DEF Acquire, arenaVars
<1>7. CASE TakeCachedChunk
  BY <1>3, <1>7 DEF TakeCachedChunk
<1>8. CASE OutOfMemory \/ FreeTlaResources \/ UNCHANGED vars
  BY <1>2, <1>8 DEF OutOfMemory, FreeTlaResources, vars, arenaVars
<1>9. ASSUME NEW c \in Chunks, TakeFreshChunk(c) \/ CommitFails(c) PROVE RetiredAligned'
  BY <1>2, <1>3, <1>9 DEF TakeFreshChunk, CommitFails, CanTakeFresh, arenaVars
<1>10. CASE Allocate
  <2>1. PICK c \in Chunks : c = hand.arena
    BY <1>1, <1>10, NoRequestFacts DEF Allocate, HandInv, Requests
  <2> DEFINE new == Acquired(arena[c], hand.size)
  <2>2. arena[c] \in Arenas /\ arena' = [arena EXCEPT ![c] = new]
    BY <1>1, <1>10, <2>1 DEF ArenaInv, Allocate
  <2>3. /\ new.type = arena[c].type /\ new.alignment = arena[c].alignment
        /\ new.retired = arena[c].retired
    BY <2>2 DEF Acquired, Arenas
  <2> HIDE DEF new
  <2> QED BY <1>5, <2>2, <2>3
<1>11. ASSUME NEW c \in Chunks, NEW size \in Sizes, Free(c, size) PROVE RetiredAligned'
  <2> DEFINE new == Released(arena[c], size)
  <2>1. /\ arena[c] \in Arenas
        /\ arena' = [arena EXCEPT ![c] = new] \/ arena' = [arena EXCEPT ![c] = NoArena]
    BY <1>1, <1>11 DEF ArenaInv, Free
  <2>2. /\ new.type = arena[c].type /\ new.alignment = arena[c].alignment
        /\ new.retired = arena[c].retired
    BY <2>1 DEF Released, Arenas
  <2> HIDE DEF new
  <2> QED BY <1>4, <1>5, <2>1, <2>2
<1>12. ASSUME NEW c \in Chunks, NEW size \in Sizes, Retire(c, size) PROVE RetiredAligned'
  <2> DEFINE new == Retired(arena[c], size)
  <2>1. /\ arena[c] \in Arenas /\ arena' = [arena EXCEPT ![c] = new]
        /\ IsAligned(size, arena[c].alignment) /\ live[c][size] > 0
    BY <1>1, <1>12 DEF ArenaInv, Retire, TakenBack
  <2>2. arena[c].type # "none"
    BY <1>1, <2>1, LiveIsInArena DEF IInv
  <2>3. arena[c].alignment \in Nat \ {0} /\ arena[c].retired \in Nat /\ size \in Nat
    BY <1>1, <2>2, ArenaFacts, AlignmentType, SizeFacts
  <2>4. IsAligned(arena[c].retired, arena[c].alignment)
    BY <2>2 DEF RetiredAligned
  <2>5. IsAligned(arena[c].retired + size, arena[c].alignment)
    BY <2>1, <2>3, <2>4, AlignedSum
  <2>6. new.alignment = arena[c].alignment /\ new.retired = arena[c].retired + size
    BY <2>1 DEF Retired, Arenas
  <2> HIDE DEF new
  <2> QED BY <1>1, <2>1, <2>5, <2>6, AlignedAtOne
<1>13. ASSUME NEW c \in Chunks, Reclaim(c) PROVE RetiredAligned'
  <2> DEFINE new == Reclaimed(arena[c])
  <2>1. /\ arena[c] \in Arenas
        /\ arena' = [arena EXCEPT ![c] = new] \/ arena' = [arena EXCEPT ![c] = NoArena]
    BY <1>1, <1>13 DEF ArenaInv, Reclaim
  <2>2. new.retired = 0 /\ new.alignment = arena[c].alignment /\ new.type = arena[c].type
    BY <2>1 DEF Reclaimed, Arenas
  <2> HIDE DEF new
  <2>3. new.type # "none" => IsAligned(new.retired, new.alignment)
    <3>1. arena[c].type # "none" => arena[c].alignment \in Nat \ {0}
      BY <1>1, ArenaFacts, AlignmentType
    <3> QED BY <2>2, <3>1, AlignedSum
  <2> QED BY <1>1, <1>4, <2>1, <2>3, AlignedAtOne
<1> QED BY <1>6, <1>7, <1>8, <1>9, <1>10, <1>11, <1>12, <1>13 DEF Next

\* "size is not aligned" (fast_arena.hpp:121) needs a client that frees a block of an
\* unaligned size from another thread; without one the checks of release_reclaimed hold
\* of every arena at every moment, whatever is retired while it is looked at.
THEOREM ReclaimsGoThrough ==
  Spec => [](ReclaimChecksHold /\ (~RetireUnaligned => ReclaimedIsAligned))
<1> DEFINE Aligned == ~RetireUnaligned => RetiredAligned
<1>1. Init => Aligned
  <2>1. Init => \A c \in Chunks : arena[c].type = "none"
    BY DEF Init, NoArena
  <2> QED BY <2>1 DEF RetiredAligned
<1>2. IInv /\ Aligned /\ [Next]_vars => Aligned'
  BY AlignedStep
<1>3. IInv /\ Aligned => ReclaimChecksHold /\ (~RetireUnaligned => ReclaimedIsAligned)
  <2> SUFFICES ASSUME IInv, Aligned, ~RetireUnaligned, NEW c \in Chunks
               PROVE  /\ arena[c].type # "none" => Reclaimable(arena[c])
                      /\ arena[c].retired > 0 => IsAligned(arena[c].retired, arena[c].alignment)
    BY DEF ReclaimChecksHold, ReclaimedIsAligned
  <2>1. ArenaInv /\ BytesInv
    BY DEF IInv
  <2>2. arena[c].type = "none" => arena[c].retired = 0
    BY <2>1, ArenaFacts DEF NoArena
  <2>3. arena[c].freed + arena[c].retired <= arena[c].top
    BY <2>1, ArenaFacts, LiveBytesFacts DEF BytesInv
  <2>4. arena[c].type # "none" => IsAligned(arena[c].retired, arena[c].alignment)
    BY DEF RetiredAligned
  <2> QED BY <2>2, <2>3, <2>4 DEF Reclaimable
<1> HIDE DEF Aligned
<1> QED BY <1>1, <1>2, <1>3, InvariantHolds, PTL DEF Spec

-----------------------------------------------------------------------------
(* The promise about bytes.                                                *)

\* One arena changes, and its alignment with it.
LEMMA AlignmentBecomes ==
  ASSUME ArenaInv, NEW c \in Chunks, NEW new, arena' = [arena EXCEPT ![c] = new]
  PROVE  /\ [d \in Chunks |-> arena[d].alignment]' =
              [[d \in Chunks |-> arena[d].alignment] EXCEPT ![c] = new.alignment]
         /\ new.alignment = arena[c].alignment =>
              [d \in Chunks |-> arena[d].alignment]' = [d \in Chunks |-> arena[d].alignment]
BY DEF ArenaInv

\* What is in use of a chunk.
UseFits ==
  \A c \in Chunks :
    /\ arena[c].type = "none" => \A size \in Sizes : live[c][size] = 0
    /\ LiveBytes(c) <= MemorySize[c]

\* Nothing is in use where there is no arena, and never more than fits.
LEMMA UseIs == IInv => UseFits
<1> SUFFICES ASSUME IInv, NEW c \in Chunks
             PROVE  /\ arena[c].type = "none" => \A size \in Sizes : live[c][size] = 0
                    /\ LiveBytes(c) <= MemorySize[c]
  BY DEF UseFits
<1>1. ArenaInv /\ BytesInv
  BY DEF IInv
<1>2. /\ arena[c].top \in Nat /\ arena[c].freed \in Nat /\ arena[c].retired \in Nat
      /\ LiveBytes(c) \in Nat /\ MemorySize[c] \in Nat /\ arena[c].top <= MemorySize[c]
      /\ arena[c].freed + arena[c].retired + LiveBytes(c) <= arena[c].top
  BY <1>1, ArenaFacts, LiveBytesFacts, RegionFacts DEF BytesInv
<1>3. arena[c].type = "none" => LiveBytes(c) = 0
  BY <1>1, <1>2, ArenaFacts DEF NoArena
<1> QED BY <1>1, <1>2, <1>3, LiveBytesFacts

\* ByteHeap adds up as ThreadHeap does.
LEMMA SumIsSum ==
  ASSUME NEW f
  PROVE  Bytes!SumFunction(f) = SumFunction(f)
BY DEF SumFunction, SumFunctionOnSet, FoldFunctionOnSet, MapThenFoldSet, Bytes!SumFunction,
       Bytes!SumFunctionOnSet, Bytes!FoldFunctionOnSet, Bytes!MapThenFoldSet

\* Each step of the heap is a step of ByteHeap or none.
LEMMA BytesStep ==
  IInv /\ UseFits' /\ [Next]_vars => [Bytes!Next]_(Bytes!vars)
<1> SUFFICES ASSUME IInv, UseFits', [Next]_vars PROVE [Bytes!Next]_(Bytes!vars)
  OBVIOUS
<1> DEFINE alignment == [c \in Chunks |-> arena[c].alignment]
           request == [size |-> hand.size, alignment |-> hand.alignment]
<1>1. ArenaInv /\ HandInv
  BY DEF IInv
<1>2. ASSUME arena' = arena, live' = live, hand'.size = hand.size, hand'.alignment = hand.alignment
      PROVE  UNCHANGED Bytes!vars
  BY <1>2 DEF Bytes!vars
<1>3. hand # NoRequest => request # Bytes!NoRequest
  <2>1. hand # NoRequest => hand.size \in Nat \ {0}
    BY <1>1, SizesAssumption DEF HandInv, Requests
  <2> QED BY <2>1 DEF Bytes!NoRequest
<1>4. hand = NoRequest => request = Bytes!NoRequest
  BY DEF Bytes!NoRequest, NoRequest
<1>5. hand' = NoRequest => request' = Bytes!NoRequest
  BY DEF Bytes!NoRequest, NoRequest
<1>6. \A c \in Chunks : arena[c].type = "none" => alignment[c] = 0
  BY <1>1, ArenaFacts DEF NoArena
<1>7. ASSUME NEW c \in Chunks, arena'[c].type = "none"
      PROVE  Bytes!Nothing(c)'
  BY <1>7 DEF UseFits, Bytes!Nothing
<1>8. ASSUME NEW c \in Chunks, NEW size \in Sizes, TakenBack(c, size), hand' = hand,
             \E new : /\ arena' = [arena EXCEPT ![c] = new]
                      /\ new.alignment = arena[c].alignment \/ new = NoArena
      PROVE  Bytes!Free(c, size)
  <2>1. PICK new : /\ arena' = [arena EXCEPT ![c] = new]
                   /\ new.alignment = arena[c].alignment \/ new = NoArena
    BY <1>8
  <2>2. live[c][size] > 0 /\ live' = [live EXCEPT ![c][size] = @ - 1] /\ request' = request
    BY <1>8 DEF TakenBack
  <2>3. CASE new.alignment = arena[c].alignment
    <3>1. alignment' = alignment
      BY <1>1, <2>1, <2>3, AlignmentBecomes
    <3> QED BY <2>2, <3>1 DEF Bytes!Free
  <2>4. CASE new = NoArena
    <3>1. alignment' = [alignment EXCEPT ![c] = 0] /\ arena'[c].type = "none"
      BY <1>1, <2>1, <2>4, AlignmentBecomes DEF NoArena, ArenaInv
    <3> QED BY <1>7, <2>2, <3>1 DEF Bytes!Free, Bytes!Unmapped
  <2> QED BY <2>1, <2>3, <2>4
<1>9. ASSUME NEW size \in Sizes, NEW a \in Alignments, NEW c \in Chunks \cup {NoChunk},
             Acquire(size, a, c)
      PROVE  Bytes!Next
  <2>1. hand = NoRequest /\ hand' = [size |-> size, alignment |-> a, arena |-> c]
        /\ arena' = arena /\ live' = live
    BY <1>9 DEF Acquire, arenaVars
  <2>2. request = Bytes!NoRequest /\ request' = [size |-> size, alignment |-> a]
        /\ alignment' = alignment
    BY <1>4, <2>1
  <2> QED BY <2>1, <2>2 DEF Bytes!Next, Bytes!Ask
<1>10. ASSUME NEW c \in Chunks, arena[c].type = "none", NeedsArena, Construct(c)
       PROVE  Bytes!Next
  <2> DEFINE new == NewArena(TypeFor(hand.size), hand.alignment)
  <2>1. /\ arena' = [arena EXCEPT ![c] = new] /\ new.alignment = hand.alignment
        /\ live' = live /\ hand' = [hand EXCEPT !.arena = c]
    BY <1>10 DEF Construct, NewArena
  <2> HIDE DEF new
  <2>2. hand \in Requests /\ hand # NoRequest
    BY <1>1, <1>10 DEF HandInv, NeedsArena
  <2>3. request' = request
    BY <2>1, <2>2 DEF Requests
  <2>4. alignment' = [alignment EXCEPT ![c] = request.alignment]
    BY <1>1, <2>1, AlignmentBecomes
  <2>5. Bytes!Map(c)
    BY <1>3, <1>6, <1>10, <2>1, <2>2, <2>3, <2>4 DEF Bytes!Map
  <2> QED BY <2>5 DEF Bytes!Next
<1>11. CASE TakeCachedChunk
  <2>1. PICK r \in Regions : cache[r] # NoChunk /\ Construct(cache[r]) /\ NeedsArena
    <3>1. Min(CachedRegions) \in CachedRegions
      BY <1>11, LeastIsMember, RegionFacts DEF TakeCachedChunk, CachedRegions, SuitableRegions
    <3> QED BY <1>11, <3>1 DEF TakeCachedChunk, CachedRegions, SuitableRegions
  <2>2. cache[r] \in Chunks /\ arena[cache[r]].type = "none"
    BY <2>1 DEF IInv, PlaceInv, Cached
  <2> QED BY <1>10, <2>1, <2>2
<1>12. ASSUME NEW c \in Chunks, TakeFreshChunk(c) PROVE Bytes!Next
  <2>1. arena[c].type = "none"
    BY <1>12 DEF TakeFreshChunk, CanTakeFresh, IInv, PlaceInv
  <2> QED BY <1>10, <1>12, <2>1 DEF TakeFreshChunk, CanTakeFresh
<1>13. CASE OutOfMemory \/ \E c \in Chunks : CommitFails(c)
  <2>1. hand # NoRequest /\ hand' = NoRequest /\ arena' = arena /\ live' = live
    BY <1>13 DEF OutOfMemory, CommitFails, CanTakeFresh, NeedsArena, arenaVars
  <2>2. Bytes!Refuse
    BY <1>3, <1>5, <2>1 DEF Bytes!Refuse
  <2> QED BY <2>2 DEF Bytes!Next
<1>14. CASE Allocate
  <2>1. PICK c \in Chunks : c = hand.arena /\ hand \in Requests /\ hand # NoRequest
    BY <1>1, <1>14, NoRequestFacts DEF Allocate, HandInv, Requests
  <2> DEFINE new == Acquired(arena[c], hand.size)
  <2>2. /\ arena[c] \in Arenas /\ arena' = [arena EXCEPT ![c] = new] /\ hand' = NoRequest
        /\ live' = [live EXCEPT ![c][hand.size] = @ + 1]
    BY <1>1, <1>14, <2>1 DEF ArenaInv, Allocate, Handed
  <2>3. new.alignment = arena[c].alignment /\ new.type = arena[c].type
    BY <2>2 DEF Acquired, Arenas
  <2> HIDE DEF new
  <2>4. alignment' = alignment /\ arena'[c] = new
    BY <1>1, <2>2, <2>3, AlignmentBecomes DEF ArenaInv
  <2>5. arena[c].alignment = hand.alignment /\ arena[c].type # "none"
    BY <1>1, <2>1, ChunkAssumption DEF IInv, RequestFits, HandInv
  <2>6. Bytes!InUse(c)' <= MemorySize[c]
    <3>1. LiveBytes(c)' <= MemorySize[c]
      BY DEF UseFits
    <3>2. alignment'[c] = arena'[c].alignment /\ arena'[c].type # "none"
      BY <2>3, <2>4, <2>5
    <3>3. [size \in Sizes |-> live'[c][size] * AlignUp(size, alignment'[c])]
            = [size \in Sizes |-> live'[c][size] * AlignUp(size, arena'[c].alignment)]
      BY <3>2
    <3>4. LiveBytes(c)'
            = SumFunction([size \in Sizes |-> live'[c][size] * AlignUp(size, arena'[c].alignment)])
      BY <3>2 DEF LiveBytes
    <3>5. Bytes!InUse(c)' = LiveBytes(c)'
      <4>1. Bytes!InUse(c)'
              = SumFunction([size \in Sizes |-> live'[c][size] * AlignUp(size, alignment'[c])])
        BY SumIsSum DEF Bytes!InUse
      <4> QED BY <3>3, <3>4, <4>1
    <3> QED BY <3>1, <3>5
  <2>7. Bytes!Answer(c)
    BY <1>3, <1>5, <2>1, <2>2, <2>4, <2>5, <2>6 DEF Bytes!Answer
  <2> QED BY <2>7 DEF Bytes!Next
<1>15. ASSUME NEW c \in Chunks, NEW size \in Sizes, Free(c, size) \/ Retire(c, size)
       PROVE  Bytes!Next
  <2>1. arena[c] \in Arenas /\ TakenBack(c, size) /\ hand' = hand
    BY <1>1, <1>15 DEF ArenaInv, Free, Retire
  <2>2. \/ arena' = [arena EXCEPT ![c] = Released(arena[c], size)]
        \/ arena' = [arena EXCEPT ![c] = NoArena]
        \/ arena' = [arena EXCEPT ![c] = Retired(arena[c], size)]
    BY <1>1, <1>15 DEF Free, Retire, ArenaInv
  <2>3. /\ Released(arena[c], size).alignment = arena[c].alignment
        /\ Retired(arena[c], size).alignment = arena[c].alignment
    BY <2>1 DEF Released, Retired, Arenas
  <2>4. Bytes!Free(c, size)
    BY <1>8, <2>1, <2>2, <2>3
  <2> QED BY <2>4 DEF Bytes!Next
<1>16. ASSUME NEW c \in Chunks, Reclaim(c) PROVE [Bytes!Next]_(Bytes!vars)
  <2>1. /\ arena[c] \in Arenas /\ live' = live /\ hand' = hand
        /\ \/ arena' = [arena EXCEPT ![c] = Reclaimed(arena[c])]
           \/ arena' = [arena EXCEPT ![c] = NoArena]
    BY <1>1, <1>16 DEF ArenaInv, Reclaim
  <2>2. CASE arena' = [arena EXCEPT ![c] = NoArena]
    <3>1. alignment' = [alignment EXCEPT ![c] = 0] /\ arena'[c].type = "none"
      BY <1>1, <2>2, AlignmentBecomes DEF NoArena, ArenaInv
    <3>2. Bytes!Nothing(c)
      BY <1>7, <2>1, <3>1 DEF Bytes!Nothing
    <3>3. Bytes!Unmap(c)
      BY <2>1, <3>1, <3>2 DEF Bytes!Unmap, Bytes!Unmapped
    <3> QED BY <3>3 DEF Bytes!Next
  <2>3. CASE arena' = [arena EXCEPT ![c] = Reclaimed(arena[c])]
    <3>1. Reclaimed(arena[c]).alignment = arena[c].alignment
      BY <2>1 DEF Reclaimed, Arenas
    <3>2. alignment' = alignment
      BY <1>1, <2>3, <3>1, AlignmentBecomes
    <3> QED BY <2>1, <3>2 DEF Bytes!vars
  <2> QED BY <2>1, <2>2, <2>3
<1>17. CASE FreeTlaResources \/ UNCHANGED vars
  <2>1. arena' = arena /\ live' = live /\ hand' = hand
    BY <1>17 DEF FreeTlaResources, vars, arenaVars
  <2> QED BY <1>2, <2>1
<1> QED BY <1>9, <1>11, <1>12, <1>13, <1>14, <1>15, <1>16, <1>17 DEF Next

\* The heap of a thread implements ByteHeap: a request gets a block of its size and
\* alignment that fits into its chunk beside all that is in use there, and a chunk changes
\* hands or alignment only when nothing of it is in use, whatever bins, cache, pools and
\* the frees of other threads do.
THEOREM Implements == Spec => ImplementsByteHeap
<1>1. Init => Bytes!Init
  BY DEF Init, Bytes!Init, NoArena, NoRequest, Bytes!NoRequest
<1> QED BY <1>1, UseIs, BytesStep, InvariantHolds, PTL DEF Spec, ImplementsByteHeap, Bytes!Spec
=============================================================================
