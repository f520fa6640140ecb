------------------------ MODULE ThreadGraveyard_proofs ------------------------
(***************************************************************************)
(* Proofs about ThreadGraveyard, for every set of TLAs and of threads.     *)
(* The safety properties together are inductive.  Two halves are proved    *)
(* apart: where every TLA is (EachTlaOnce), and what the links and skip    *)
(* pointers of the list and of each chain that is pushed look like         *)
(* (QueueOK, ChainOK).                                                     *)
(***************************************************************************)
EXTENDS ThreadGraveyard, TLAPS, SequenceTheorems

\* What ListsIntact and SkipsLeadToTail say of the list at head.
QueueOK == IsList(head, queueSeq, Null) /\ SkipsForward(queueSeq)

ChainEnd(t) == IF pc[t] = "cas" THEN old[t] ELSE Null

\* What they say of the list thread t is pushing.
ChainOK(t) ==
  /\ pc[t] \in PushPcs <=> chainSeq[t] # <<>>
  /\ pc[t] \in PushPcs => IsList(chain[t], chainSeq[t], ChainEnd(t))
  /\ SkipsForward(chainSeq[t])
  /\ pc[t] = "tail" => tail[t] \in Elems(chainSeq[t])
  /\ pc[t] = "cas" => tail[t] = chainSeq[t][Len(chainSeq[t])]

Shape == QueueOK /\ \A t \in Threads : ChainOK(t)

IInv == TypeOK /\ EachTlaOnce /\ Shape

-----------------------------------------------------------------------------
(* Sequences.                                                              *)

\* The empty chain.
LEMMA EmptyFacts ==
  /\ Len(<<>>) = 0 /\ Elems(<<>>) = {} /\ NoRepeat(<<>>) /\ <<>> \in Seq(Tlas)
BY EmptySeq DEF Elems, NoRepeat

\* What a chain holds are TLAs.
LEMMA SeqFacts ==
  ASSUME NEW s \in Seq(Tlas)
  PROVE /\ Len(s) \in Nat
        /\ s # <<>> <=> Len(s) >= 1
        /\ \A i \in 1 .. Len(s) : s[i] \in Tlas
        /\ Elems(s) \subseteq Tlas
        /\ \A i \in 1 .. Len(s) : s[i] \in Elems(s)
BY EmptySeq, LenProperties, ElementOfSeq DEF Elems

\* A chain of one.
LEMMA SingleFacts ==
  ASSUME NEW n \in Tlas
  PROVE /\ <<n>> \in Seq(Tlas) /\ Len(<<n>>) = 1 /\ <<n>>[1] = n /\ <<n>> # <<>>
        /\ Elems(<<n>>) = {n} /\ NoRepeat(<<n>>)
<1>1. <<n>> \in Seq(Tlas) /\ Len(<<n>>) = 1 /\ <<n>>[1] = n
  OBVIOUS
<1>2. <<n>> # <<>>
  BY <1>1, EmptyFacts
<1>3. 1 .. Len(<<n>>) = {1}
  BY <1>1
<1>4. Elems(<<n>>) = {n}
  BY <1>1, <1>3 DEF Elems
<1>5. NoRepeat(<<n>>)
  BY <1>3 DEF NoRepeat
<1> QED BY <1>1, <1>2, <1>4, <1>5

\* What is left of a list without its first element.
LEMMA TailFacts ==
  ASSUME NEW s \in Seq(Tlas), s # <<>>, NoRepeat(s)
  PROVE /\ Tail(s) \in Seq(Tlas)
        /\ Len(s) \in Nat /\ Len(s) >= 1 /\ Len(Tail(s)) = Len(s) - 1
        /\ \A i \in 1 .. Len(Tail(s)) : i + 1 \in 1 .. Len(s) /\ Tail(s)[i] = s[i + 1]
        /\ Elems(Tail(s)) = Elems(s) \ {s[1]}
        /\ NoRepeat(Tail(s))
<1>1. Tail(s) \in Seq(Tlas) /\ Len(Tail(s)) = Len(s) - 1
  BY HeadTailProperties
<1>2. Len(s) \in Nat /\ Len(s) >= 1
  BY SeqFacts
<1>3. \A i \in 1 .. Len(Tail(s)) : i + 1 \in 1 .. Len(s) /\ Tail(s)[i] = s[i + 1]
  BY <1>1, <1>2, HeadTailProperties
<1>4. Elems(Tail(s)) \subseteq Elems(s) \ {s[1]}
  <2>1. ASSUME NEW i \in 1 .. Len(Tail(s)) PROVE Tail(s)[i] \in Elems(s) \ {s[1]}
    <3>1. i + 1 \in 1 .. Len(s) /\ i + 1 # 1 /\ Tail(s)[i] = s[i + 1] /\ 1 \in 1 .. Len(s)
      BY <1>2, <1>3
    <3>2. s[i + 1] # s[1]
      BY <3>1 DEF NoRepeat
    <3> QED BY <3>1, <3>2 DEF Elems
  <2> QED BY <2>1 DEF Elems
<1>5. Elems(s) \ {s[1]} \subseteq Elems(Tail(s))
  <2>1. ASSUME NEW j \in 1 .. Len(s), s[j] # s[1] PROVE s[j] \in Elems(Tail(s))
    <3>1. PICK i \in 1 .. Len(Tail(s)) : i + 1 = j
      <4>1. j # 1 /\ j - 1 \in 1 .. Len(Tail(s)) /\ (j - 1) + 1 = j
        BY <1>1, <1>2, <2>1
      <4> QED BY <4>1
    <3> QED BY <1>3, <3>1 DEF Elems
  <2> QED BY <2>1 DEF Elems
<1>6. NoRepeat(Tail(s))
  <2>1. ASSUME NEW i \in 1 .. Len(Tail(s)), NEW j \in 1 .. Len(Tail(s)),
               Tail(s)[i] = Tail(s)[j]
        PROVE i = j
    <3>1. i + 1 \in 1 .. Len(s) /\ j + 1 \in 1 .. Len(s) /\ s[i + 1] = s[j + 1]
      BY <1>3, <2>1
    <3>2. i + 1 = j + 1
      BY <3>1 DEF NoRepeat
    <3> QED BY <1>1, <1>2, <3>2
  <2> QED BY <2>1 DEF NoRepeat
<1> QED BY <1>1, <1>2, <1>3, <1>4, <1>5, <1>6

\* Two lists that have nothing in common, one behind the other.
LEMMA ConcatFacts ==
  ASSUME NEW s \in Seq(Tlas), NEW u \in Seq(Tlas)
  PROVE /\ s \o u \in Seq(Tlas)
        /\ Len(s) \in Nat /\ Len(u) \in Nat /\ Len(s \o u) = Len(s) + Len(u)
        /\ \A i \in 1 .. Len(s) : (s \o u)[i] = s[i]
        /\ \A i \in 1 .. Len(u) : (s \o u)[Len(s) + i] = u[i]
        /\ \A k \in 1 .. Len(s \o u) :
             k \in 1 .. Len(s) \/ \E i \in 1 .. Len(u) : k = Len(s) + i
        /\ Elems(s \o u) = Elems(s) \cup Elems(u)
        /\ NoRepeat(s) /\ NoRepeat(u) /\ Elems(s) \cap Elems(u) = {} => NoRepeat(s \o u)
<1>1. s \o u \in Seq(Tlas) /\ Len(s \o u) = Len(s) + Len(u)
  BY ConcatProperties
<1>2. Len(s) \in Nat /\ Len(u) \in Nat
  BY SeqFacts
<1>3. \A i \in 1 .. Len(s) : i \in 1 .. Len(s \o u) /\ (s \o u)[i] = s[i]
  BY <1>1, <1>2, ConcatProperties
<1>4. ASSUME NEW i \in 1 .. Len(u)
      PROVE Len(s) + i \in 1 .. Len(s \o u) /\ (s \o u)[Len(s) + i] = u[i]
  <2>1. /\ Len(s) + i \in 1 .. Len(s) + Len(u)
        /\ ~ (Len(s) + i <= Len(s)) /\ (Len(s) + i) - Len(s) = i
    BY <1>2
  <2>2. (s \o u)[Len(s) + i] = u[(Len(s) + i) - Len(s)]
    BY <2>1, ConcatProperties
  <2> QED BY <1>1, <2>1, <2>2
<1>5. ASSUME NEW k \in 1 .. Len(s \o u)
      PROVE k \in 1 .. Len(s) \/ \E i \in 1 .. Len(u) : k = Len(s) + i
  <2>1. k \in 1 .. Len(s) \/ (k - Len(s) \in 1 .. Len(u) /\ k = Len(s) + (k - Len(s)))
    BY <1>1, <1>2
  <2> QED BY <2>1
<1>6. Elems(s \o u) = Elems(s) \cup Elems(u)
  <2>1. Elems(s \o u) \subseteq Elems(s) \cup Elems(u)
    BY <1>3, <1>4, <1>5 DEF Elems
  <2>2. Elems(s) \subseteq Elems(s \o u)
    BY <1>3 DEF Elems
  <2>3. Elems(u) \subseteq Elems(s \o u)
    BY <1>4 DEF Elems
  <2> QED BY <2>1, <2>2, <2>3
<1>7. ASSUME NoRepeat(s), NoRepeat(u), Elems(s) \cap Elems(u) = {},
             NEW k \in 1 .. Len(s \o u), NEW l \in 1 .. Len(s \o u),
             (s \o u)[k] = (s \o u)[l]
      PROVE k = l
  <2>1. CASE k \in 1 .. Len(s) /\ l \in 1 .. Len(s)
    BY <1>3, <1>7, <2>1 DEF NoRepeat
  <2>2. ASSUME NEW i \in 1 .. Len(u), NEW j \in 1 .. Len(u),
               k = Len(s) + i, l = Len(s) + j
        PROVE k = l
    BY <1>4, <1>7, <2>2 DEF NoRepeat
  <2>3. ASSUME k \in 1 .. Len(s), NEW j \in 1 .. Len(u), l = Len(s) + j PROVE FALSE
    BY <1>3, <1>4, <1>7, <2>3 DEF Elems
  <2>4. ASSUME l \in 1 .. Len(s), NEW i \in 1 .. Len(u), k = Len(s) + i PROVE FALSE
    BY <1>3, <1>4, <1>7, <2>4 DEF Elems
  <2> QED BY <1>5, <2>1, <2>2, <2>3, <2>4
<1> QED BY <1>1, <1>2, <1>3, <1>4, <1>5, <1>6, <1>7 DEF NoRepeat

-----------------------------------------------------------------------------
(* Lists and the skip pointers in them.                                    *)

\* The types of what one thread has.
LEMMA TypeFacts ==
  ASSUME TypeOK, NEW t \in Threads
  PROVE /\ queueSeq \in Seq(Tlas) /\ chainSeq[t] \in Seq(Tlas)
        /\ pc[t] \in Pcs /\ chain[t] \in Links /\ old[t] \in Links /\ tail[t] \in Links
BY DEF TypeOK

\* Nobody but its thread can reach what is in a chain.
LEMMA ApartFacts ==
  ASSUME EachTlaOnce, NEW t \in Threads
  PROVE /\ NoRepeat(queueSeq) /\ NoRepeat(chainSeq[t])
        /\ Elems(chainSeq[t]) \cap Elems(queueSeq) = {}
        /\ \A u \in Threads \ {t} : Elems(chainSeq[t]) \cap Elems(chainSeq[u]) = {}
        /\ \A n \in held[t] \cup spare :
             /\ n \notin Elems(queueSeq)
             /\ \A u \in Threads : n \notin Elems(chainSeq[u])
BY DEF EachTlaOnce, Buried

\* A list nobody writes to stays the list it is.
LEMMA ListKept ==
  ASSUME NEW f, NEW e, NEW s \in Seq(Tlas), IsList(f, s, e),
         \A n \in Elems(s) : next'[n] = next[n]
  PROVE /\ f = IF s = <<>> THEN e ELSE s[1]
        /\ \A i \in 1 .. Len(s) :
             next'[s[i]] = IF i < Len(s) THEN s[i + 1] ELSE e
BY DEF IsList, Elems

\* A chain none of whose skips is written keeps leading forward.
LEMMA SkipsKept ==
  ASSUME NEW s \in Seq(Tlas), SkipsForward(s), \A n \in Elems(s) : skip'[n] = skip[n]
  PROVE \A i \in 1 .. Len(s) : \E j \in i .. Len(s) : skip'[s[i]] = s[j]
BY DEF SkipsForward, Elems

\* A step that writes none of its TLAs leaves the queue as it was.
LEMMA QueueKept ==
  ASSUME TypeOK, QueueOK, UNCHANGED <<head, queueSeq>>,
         \A n \in Elems(queueSeq) : next'[n] = next[n] /\ skip'[n] = skip[n]
  PROVE QueueOK'
<1>1. queueSeq \in Seq(Tlas)
  BY DEF TypeOK
<1>2. /\ head = IF queueSeq = <<>> THEN Null ELSE queueSeq[1]
      /\ \A i \in 1 .. Len(queueSeq) :
           next'[queueSeq[i]] = IF i < Len(queueSeq) THEN queueSeq[i + 1] ELSE Null
  BY <1>1, ListKept DEF QueueOK
<1>3. \A i \in 1 .. Len(queueSeq) :
        \E j \in i .. Len(queueSeq) : skip'[queueSeq[i]] = queueSeq[j]
  BY <1>1, SkipsKept DEF QueueOK
<1> QED BY <1>2, <1>3 DEF QueueOK, IsList, SkipsForward

\* So it is with the chain of a thread.
LEMMA ChainKept ==
  ASSUME TypeOK, NEW t \in Threads, ChainOK(t),
         pc'[t] = pc[t], chain'[t] = chain[t], old'[t] = old[t], tail'[t] = tail[t],
         chainSeq'[t] = chainSeq[t],
         \A n \in Elems(chainSeq[t]) : next'[n] = next[n] /\ skip'[n] = skip[n]
  PROVE ChainOK(t)'
<1>1. PICK s \in Seq(Tlas) : s = chainSeq[t] /\ s = chainSeq'[t]
  BY DEF TypeOK
<1>2. SkipsForward(chainSeq[t])'
  <2>1. \A i \in 1 .. Len(s) : \E j \in i .. Len(s) : skip'[s[i]] = s[j]
    BY <1>1, SkipsKept DEF ChainOK
  <2> QED BY <1>1, <2>1 DEF SkipsForward
<1>3. ASSUME pc[t] \in PushPcs PROVE IsList(chain[t], chainSeq[t], ChainEnd(t))'
  <2>1. PICK f, e : f = chain[t] /\ e = ChainEnd(t)
    OBVIOUS
  <2>2. IsList(f, s, e)
    BY <1>1, <1>3, <2>1 DEF ChainOK
  <2>3. /\ f = IF s = <<>> THEN e ELSE s[1]
        /\ \A i \in 1 .. Len(s) :
             next'[s[i]] = IF i < Len(s) THEN s[i + 1] ELSE e
    BY <1>1, <2>2, ListKept
  <2>4. chain'[t] = f /\ ChainEnd(t)' = e
    BY <2>1 DEF ChainEnd
  <2> QED BY <1>1, <2>3, <2>4 DEF IsList
<1> QED BY <1>1, <1>2, <1>3, Zenon DEF ChainOK, Elems

\* A hop from the last node of a list stays there, any other leads on.
LEMMA HopFacts ==
  ASSUME NEW s \in Seq(Tlas), NoRepeat(s), NEW f, IsList(f, s, Null), SkipsForward(s),
         NEW i \in 1 .. Len(s)
  PROVE /\ GetSkip(s[i]) \in Elems(s)
        /\ GetSkip(s[i]) = s[i] => i = Len(s)
<1>1. Len(s) \in Nat /\ (\A k \in 1 .. Len(s) : s[k] \in Tlas /\ s[k] \in Elems(s))
  BY SeqFacts
<1>2. next[s[i]] = IF i < Len(s) THEN s[i + 1] ELSE Null
  BY DEF IsList
<1>3. CASE i = Len(s)
  BY <1>1, <1>2, <1>3 DEF GetSkip
<1>4. CASE i # Len(s)
  <2>1. i < Len(s) /\ i + 1 \in 1 .. Len(s) /\ i + 1 # i
    BY <1>1, <1>4
  <2>2. next[s[i]] = s[i + 1] /\ s[i + 1] # Null /\ s[i + 1] # s[i]
    BY <1>1, <1>2, <2>1, NullAssumption DEF NoRepeat
  <2>3. PICK j \in i .. Len(s) : skip[s[i]] = s[j]
    BY DEF SkipsForward
  <2>4. j \in 1 .. Len(s)
    BY <1>1
  <2> QED BY <1>1, <2>1, <2>2, <2>3, <2>4 DEF GetSkip
<1> QED BY <1>3, <1>4

\* The list of a thread that is looking for its tail.
LEMMA ChainFacts ==
  ASSUME TypeOK, EachTlaOnce, NEW t \in Threads, ChainOK(t), pc[t] \in PushPcs
  PROVE /\ Len(chainSeq[t]) \in Nat /\ Len(chainSeq[t]) >= 1
        /\ chain[t] = chainSeq[t][1] /\ chain[t] \in Elems(chainSeq[t])
        /\ chainSeq[t][Len(chainSeq[t])] \in Elems(chainSeq[t])
        /\ Elems(chainSeq[t]) \subseteq Tlas
        /\ pc[t] # "cas" => \A n \in Elems(chainSeq[t]) :
             /\ GetSkip(n) \in Elems(chainSeq[t])
             /\ GetSkip(n) = n => n = chainSeq[t][Len(chainSeq[t])]
<1>1. PICK s \in Seq(Tlas) : s = chainSeq[t]
  BY DEF TypeOK
<1>2. s # <<>> /\ IsList(chain[t], s, ChainEnd(t)) /\ NoRepeat(s) /\ SkipsForward(s)
  BY <1>1, ApartFacts DEF ChainOK
<1>3. /\ Len(s) \in Nat /\ Len(s) >= 1 /\ Elems(s) \subseteq Tlas
      /\ s[1] \in Elems(s) /\ s[Len(s)] \in Elems(s)
  BY <1>2, SeqFacts
<1>4. chain[t] = s[1]
  BY <1>2 DEF IsList
<1>5. ASSUME pc[t] # "cas", NEW n \in Elems(s)
      PROVE GetSkip(n) \in Elems(s) /\ (GetSkip(n) = n => n = s[Len(s)])
  <2>1. PICK i \in 1 .. Len(s) : n = s[i]
    BY DEF Elems
  <2>2. IsList(chain[t], s, Null)
    BY <1>2, <1>5 DEF ChainEnd
  <2> QED BY <1>2, <2>1, <2>2, HopFacts
<1> QED BY <1>1, <1>3, <1>4, <1>5

-----------------------------------------------------------------------------
(* Types.                                                                  *)

\* Every step keeps the types.
LEMMA TypeStep ==
  ASSUME TypeOK, EachTlaOnce, Shape, [Next]_vars
  PROVE TypeOK'
<1>1. ASSUME NEW t \in Threads, NEW n \in Tlas, Create(t, n) PROVE TypeOK'
  BY <1>1 DEF Create, TypeOK, Links, entryVars, pushVars
<1>2. ASSUME NEW t \in Threads, NEW n \in Tlas, Destroy(t, n) PROVE TypeOK'
  BY <1>2 DEF Destroy, TypeOK, Links, entryVars, pushVars
<1>3. ASSUME NEW t \in Threads, NEW n \in Tlas, PutThread(t, n) PROVE TypeOK'
  BY <1>3, SingleFacts DEF PutThread, StartPush, TypeOK, Links, Pcs, PushPcs
<1>4. ASSUME NEW t \in Threads, Acquire(t) PROVE TypeOK'
  BY <1>4 DEF Acquire, TypeOK, Pcs, PushPcs, entryVars, ownerVars, pushVars
<1>5. ASSUME NEW t \in Threads, SnatchNothing(t) PROVE TypeOK'
  BY <1>5 DEF SnatchNothing, TypeOK, Pcs, PushPcs, entryVars, ownerVars, pushVars
<1>6. ASSUME NEW t \in Threads, Snatch(t) PROVE TypeOK'
  <2>1. queueSeq \in Seq(Tlas) /\ NoRepeat(queueSeq) /\ queueSeq # <<>>
    BY <1>6, EmptyFacts DEF Snatch, TypeOK, EachTlaOnce, Shape, QueueOK, IsList
  <2>2. Tail(queueSeq) \in Seq(Tlas) /\ <<>> \in Seq(Tlas)
    BY <2>1, TailFacts, EmptyFacts
  <2>3. head \in Tlas /\ head' = Null /\ queueSeq' = <<>> /\ UNCHANGED <<next, skip, spare>>
    BY <1>6 DEF Snatch, TypeOK, Links, entryVars
  <2>4. held' \in [Threads -> SUBSET Tlas]
    BY <1>6, <2>3 DEF Snatch, TypeOK
  <2>5. CASE next[head] = Null
    BY <1>6, <2>2, <2>3, <2>4, <2>5 DEF Snatch, TypeOK, Links, Pcs, PushPcs, pushVars
  <2>6. CASE next[head] # Null
    <3>1. next[head] \in Tlas
      BY <2>3, <2>6 DEF TypeOK, Links
    <3>2. /\ pc' = [pc EXCEPT ![t] = "load"] /\ UNCHANGED <<old, tail>>
          /\ chain' = [chain EXCEPT ![t] = next[head]]
          /\ chainSeq' = [chainSeq EXCEPT ![t] = Tail(queueSeq)]
      BY <1>6, <2>6 DEF Snatch, StartPush
    <3>3. /\ pc' \in [Threads -> Pcs] /\ chain' \in [Threads -> Links]
          /\ chainSeq' \in [Threads -> Seq(Tlas)]
      BY <2>2, <3>1, <3>2 DEF TypeOK, Links, Pcs, PushPcs
    <3>4. \A u \in Threads : /\ pc'[u] \in PushPcs => chain'[u] \in Tlas
                             /\ pc'[u] \in {"tail", "cas"} => tail'[u] \in Tlas
      BY <3>1, <3>2 DEF TypeOK, PushPcs
    <3> QED BY <2>2, <2>3, <2>4, <3>2, <3>3, <3>4 DEF TypeOK, Links
  <2> QED BY <2>5, <2>6
<1>7. ASSUME NEW t \in Threads, LoadHead(t) PROVE TypeOK'
  <2>1. pc[t] = "load" /\ ChainOK(t)
    BY <1>7 DEF LoadHead, Shape
  <2>2. GetSkip(chain[t]) \in Tlas
    BY <2>1, ChainFacts DEF PushPcs
  <2> QED BY <1>7, <2>1, <2>2
          DEF LoadHead, TypeOK, Links, Pcs, PushPcs, entryVars, ownerVars
<1>8. ASSUME NEW t \in Threads, TailHop(t) PROVE TypeOK'
  <2>1. pc[t] = "tail" /\ ChainOK(t)
    BY <1>8 DEF TailHop, Shape
  <2>2. GetSkip(tail[t]) \in Tlas
    BY <2>1, ChainFacts DEF PushPcs, ChainOK
  <2> QED BY <1>8, <2>1, <2>2
          DEF TailHop, TypeOK, Links, Pcs, PushPcs, entryVars, ownerVars
<1>9. ASSUME NEW t \in Threads, TailFound(t) PROVE TypeOK'
  BY <1>9 DEF TailFound, TypeOK, Links, Pcs, PushPcs, ownerVars, pushVars
<1>10. ASSUME NEW t \in Threads, PushCas(t) PROVE TypeOK'
  <2>1. queueSeq \in Seq(Tlas) /\ chainSeq[t] \in Seq(Tlas)
    BY <1>10, TypeFacts
  <2>2. chainSeq[t] \o queueSeq \in Seq(Tlas) /\ <<>> \in Seq(Tlas)
    BY <2>1, ConcatFacts, EmptyFacts
  <2> QED BY <1>10, <2>2
          DEF PushCas, Forget, TypeOK, Links, Pcs, PushPcs, entryVars, ownerVars
<1>11. ASSUME NEW t \in Threads, PushRetry(t) PROVE TypeOK'
  BY <1>11 DEF PushRetry, TypeOK, Links, PushPcs, ownerVars
<1>12. CASE UNCHANGED vars
  BY <1>12 DEF TypeOK, vars, entryVars, ownerVars, pushVars
<1> QED
  BY <1>1, <1>2, <1>3, <1>4, <1>5, <1>6, <1>7, <1>8, <1>9, <1>10, <1>11, <1>12
  DEF Next, Step

-----------------------------------------------------------------------------
(* Where the TLAs are.                                                     *)

placeVars == <<spare, held, queueSeq, chainSeq>>

\* What a snatch does to the places of TLAs, whether or not there is a rest.
LEMMA SnatchPlaces ==
  ASSUME TypeOK, EachTlaOnce, Shape, NEW t \in Threads, Snatch(t)
  PROVE /\ queueSeq \in Seq(Tlas) /\ queueSeq # <<>> /\ head = queueSeq[1]
        /\ chainSeq[t] = <<>>
        /\ queueSeq' = <<>> /\ chainSeq' = [chainSeq EXCEPT ![t] = Tail(queueSeq)]
        /\ held' = [held EXCEPT ![t] = @ \cup {head}] /\ UNCHANGED spare
        /\ next[head] = Null <=> Tail(queueSeq) = <<>>
        /\ Tail(queueSeq) # <<>> => next[head] = Tail(queueSeq)[1]
<1>1. queueSeq \in Seq(Tlas) /\ queueSeq # <<>> /\ head = queueSeq[1]
  BY EmptyFacts DEF Snatch, TypeOK, Shape, QueueOK, IsList
<1>2. chainSeq[t] = <<>>
  BY DEF Snatch, Shape, ChainOK, PushPcs
<1>3. /\ Len(queueSeq) \in Nat /\ Len(queueSeq) >= 1
      /\ Tail(queueSeq) \in Seq(Tlas) /\ Len(Tail(queueSeq)) = Len(queueSeq) - 1
      /\ \A i \in 1 .. Len(Tail(queueSeq)) : /\ i + 1 \in 1 .. Len(queueSeq)
                                             /\ Tail(queueSeq)[i] = queueSeq[i + 1]
  BY <1>1, TailFacts DEF EachTlaOnce
<1>4. next[head] = IF 1 < Len(queueSeq) THEN queueSeq[1 + 1] ELSE Null
  BY <1>1, <1>3 DEF Shape, QueueOK, IsList
<1>5. CASE Len(queueSeq) = 1
  <2>1. Tail(queueSeq) = <<>> /\ next[head] = Null
    BY <1>3, <1>4, <1>5, SeqFacts
  <2>2. [chainSeq EXCEPT ![t] = Tail(queueSeq)] = chainSeq
    BY <1>2, <2>1 DEF TypeOK
  <2> QED BY <1>1, <1>2, <2>1, <2>2 DEF Snatch
<1>6. CASE Len(queueSeq) # 1
  <2>1. 1 < Len(queueSeq) /\ 1 \in 1 .. Len(Tail(queueSeq)) /\ Tail(queueSeq) # <<>>
    <3>1. Len(Tail(queueSeq)) >= 1 /\ Tail(queueSeq) \in Seq(Tlas)
      BY <1>3, <1>6
    <3>2. Tail(queueSeq) # <<>>
      BY <3>1, SeqFacts
    <3> QED BY <1>3, <1>6, <3>1, <3>2
  <2>2. next[head] = Tail(queueSeq)[1] /\ next[head] \in Tlas
    BY <1>3, <1>4, <2>1, SeqFacts
  <2>3. next[head] # Null
    BY <2>2, NullAssumption
  <2> QED BY <1>1, <1>2, <2>1, <2>2, <2>3 DEF Snatch, StartPush
<1> QED BY <1>5, <1>6

\* The places, once more, with the lists as sets.
Apart(fresh, hands, queue, lists) ==
  /\ \A n \in Tlas : \/ n \in fresh \/ n \in queue
                     \/ \E t \in Threads : n \in lists[t] \/ n \in hands[t]
  /\ fresh \subseteq Tlas /\ queue \subseteq Tlas
  /\ fresh \cap queue = {}
  /\ \A t \in Threads :
       /\ lists[t] \subseteq Tlas /\ hands[t] \subseteq Tlas
       /\ fresh \cap lists[t] = {} /\ fresh \cap hands[t] = {}
       /\ queue \cap lists[t] = {} /\ queue \cap hands[t] = {}
       /\ \A u \in Threads : hands[t] \cap lists[u] = {}
       /\ \A u \in Threads \ {t} : hands[t] \cap hands[u] = {} /\ lists[t] \cap lists[u] = {}

\* A step moves TLAs among memory, the list and what one thread has.
LEMMA Moved ==
  ASSUME NEW F, NEW H, NEW Q, NEW C, Apart(F, H, Q, C), NEW t \in Threads,
         NEW F2, NEW H2, NEW Q2, NEW C2,
         \A u \in Threads \ {t} : H2[u] = H[u] /\ C2[u] = C[u],
         F2 \cup Q2 \cup H2[t] \cup C2[t] = F \cup Q \cup H[t] \cup C[t],
         F2 \cap Q2 = {}, F2 \cap H2[t] = {}, F2 \cap C2[t] = {},
         Q2 \cap H2[t] = {}, Q2 \cap C2[t] = {}, H2[t] \cap C2[t] = {}
  PROVE Apart(F2, H2, Q2, C2)
<1> DEFINE Around == F \cup Q \cup H[t] \cup C[t]
<1>1. Around \subseteq Tlas
  BY DEF Apart
<1>2. ASSUME NEW u \in Threads \ {t}
      PROVE /\ Around \cap H2[u] = {} /\ Around \cap C2[u] = {}
            /\ H2[u] \subseteq Tlas /\ C2[u] \subseteq Tlas
  BY DEF Apart
<1>3. \A u, v \in Threads \ {t} :
        /\ H2[u] \cap C2[v] = {}
        /\ u # v => H2[u] \cap H2[v] = {} /\ C2[u] \cap C2[v] = {}
  BY DEF Apart
<1>4. F2 \cup Q2 \cup H2[t] \cup C2[t] = Around
  OBVIOUS
<1>5. \A n \in Tlas : \/ n \in F2 \/ n \in Q2
                      \/ \E u \in Threads : n \in C2[u] \/ n \in H2[u]
  <2> SUFFICES ASSUME NEW n \in Tlas, n \notin F2, n \notin Q2, n \notin H2[t],
                      n \notin C2[t]
               PROVE \E u \in Threads : n \in C2[u] \/ n \in H2[u]
    OBVIOUS
  <2>1. n \notin F /\ n \notin Q /\ n \notin H[t] /\ n \notin C[t]
    OBVIOUS
  <2>2. PICK u \in Threads : n \in C[u] \/ n \in H[u]
    BY <2>1 DEF Apart
  <2> QED BY <2>1, <2>2
<1> HIDE DEF Around
<1>6. /\ F2 \subseteq Around /\ Q2 \subseteq Around
      /\ H2[t] \subseteq Around /\ C2[t] \subseteq Around
  BY <1>4
<1>7. ASSUME NEW u \in Threads
      PROVE /\ C2[u] \subseteq Tlas /\ H2[u] \subseteq Tlas
            /\ F2 \cap C2[u] = {} /\ F2 \cap H2[u] = {}
            /\ Q2 \cap C2[u] = {} /\ Q2 \cap H2[u] = {}
  <2>1. CASE u = t
    BY <1>1, <1>6, <2>1
  <2>2. CASE u # t
    BY <1>2, <1>6, <2>2
  <2> QED BY <2>1, <2>2
<1>8. ASSUME NEW u \in Threads, NEW v \in Threads
      PROVE /\ H2[u] \cap C2[v] = {}
            /\ u # v => H2[u] \cap H2[v] = {} /\ C2[u] \cap C2[v] = {}
  <2>1. CASE u = t /\ v = t
    BY <2>1
  <2>2. CASE u = t /\ v # t
    BY <1>2, <1>6, <2>2
  <2>3. CASE u # t /\ v = t
    BY <1>2, <1>6, <2>3
  <2>4. CASE u # t /\ v # t
    BY <1>3, <2>4
  <2> QED BY <2>1, <2>2, <2>3, <2>4
<1>9. F2 \subseteq Tlas /\ Q2 \subseteq Tlas
  BY <1>1, <1>6
<1> QED BY <1>5, <1>7, <1>8, <1>9 DEF Apart

Chains == [t \in Threads |-> Elems(chainSeq[t])]

AsSets == /\ Apart(spare, held, Elems(queueSeq), Chains)
          /\ NoRepeat(queueSeq) /\ \A t \in Threads : NoRepeat(chainSeq[t])

\* That each TLA is in one place, said with sets.
LEMMA PlacesAsSets == EachTlaOnce => AsSets
<1> SUFFICES ASSUME EachTlaOnce PROVE AsSets
  OBVIOUS
<1>1. \A t \in Threads : Chains[t] = Elems(chainSeq[t])
  BY DEF Chains
<1>2. Apart(spare, held, Elems(queueSeq), Chains)
  <2>1. \A n \in Tlas : \/ n \in spare \/ n \in Elems(queueSeq)
                        \/ \E t \in Threads : n \in Chains[t] \/ n \in held[t]
    <3>1. ASSUME NEW n \in Tlas, n \notin spare, n \notin Elems(queueSeq)
          PROVE \E t \in Threads : n \in Elems(chainSeq[t]) \/ n \in held[t]
      BY <3>1 DEF EachTlaOnce, Buried
    <3> QED BY <1>1, <3>1
  <2>2. /\ spare \subseteq Tlas /\ Elems(queueSeq) \subseteq Tlas
        /\ \A t \in Threads : Chains[t] \subseteq Tlas /\ held[t] \subseteq Tlas
    BY <1>1, Zenon DEF EachTlaOnce, Buried
  <2>3. /\ spare \cap Elems(queueSeq) = {}
        /\ \A t \in Threads : /\ spare \cap Chains[t] = {} /\ spare \cap held[t] = {}
                              /\ Elems(queueSeq) \cap held[t] = {}
                              /\ \A u \in Threads : held[t] \cap Chains[u] = {}
    BY <1>1 DEF EachTlaOnce, Buried
  <2>4. \A t \in Threads :
          /\ Elems(queueSeq) \cap Chains[t] = {}
          /\ \A u \in Threads \ {t} : held[t] \cap held[u] = {} /\ Chains[t] \cap Chains[u] = {}
    BY <1>1 DEF EachTlaOnce
  <2> QED BY <2>1, <2>2, <2>3, <2>4 DEF Apart
<1> QED BY <1>2 DEF AsSets, EachTlaOnce

\* And back.
LEMMA SetsAsPlaces == AsSets' => EachTlaOnce'
<1> SUFFICES ASSUME AsSets' PROVE EachTlaOnce'
  OBVIOUS
<1>1. \A t \in Threads : Chains'[t] = Elems(chainSeq[t])'
  BY DEF Chains
<1>2. Tlas = spare' \cup Buried' \cup UNION {held'[t] : t \in Threads}
  <2>1. ASSUME NEW n \in Tlas
        PROVE n \in spare' \cup Buried' \cup UNION {held'[t] : t \in Threads}
    <3>1. \/ n \in spare' \/ n \in Elems(queueSeq)'
          \/ \E t \in Threads : n \in Elems(chainSeq[t])' \/ n \in held'[t]
      BY <1>1 DEF AsSets, Apart
    <3> QED BY <3>1 DEF Buried
  <2>2. /\ spare' \subseteq Tlas /\ Elems(queueSeq)' \subseteq Tlas
        /\ \A t \in Threads : Elems(chainSeq[t])' \subseteq Tlas /\ held'[t] \subseteq Tlas
    BY <1>1 DEF AsSets, Apart
  <2>3. spare' \cup Buried' \cup UNION {held'[t] : t \in Threads} \subseteq Tlas
    BY <2>2 DEF Buried
  <2> QED BY <2>1, <2>3
<1>3. spare' \cap Buried' = {} /\ \A t \in Threads : held'[t] \cap (spare' \cup Buried') = {}
  BY <1>1 DEF AsSets, Apart, Buried
<1>4. \A t \in Threads :
        /\ Elems(chainSeq[t])' \cap Elems(queueSeq)' = {}
        /\ \A u \in Threads \ {t} : /\ held'[t] \cap held'[u] = {}
                                    /\ Elems(chainSeq[t])' \cap Elems(chainSeq[u])' = {}
  BY <1>1 DEF AsSets, Apart
<1> QED BY <1>2, <1>3, <1>4 DEF AsSets, EachTlaOnce

\* Every step keeps each TLA in one place.
LEMMA EachTlaOnceStep ==
  ASSUME TypeOK, EachTlaOnce, Shape, [Next]_vars
  PROVE EachTlaOnce'
<1>0. /\ Apart(spare, held, Elems(queueSeq), Chains)
      /\ NoRepeat(queueSeq) /\ \A t \in Threads : NoRepeat(chainSeq[t])
  BY PlacesAsSets DEF AsSets
<1>1. CASE UNCHANGED placeVars
  BY <1>1 DEF placeVars, EachTlaOnce, Buried
<1>2. ASSUME NEW t \in Threads, NEW n \in Tlas, Create(t, n) \/ Destroy(t, n)
      PROVE EachTlaOnce'
  <2>1. UNCHANGED <<queueSeq, chainSeq>>
    BY <1>2 DEF Create, Destroy
  <2>2. \/ /\ n \in spare /\ spare' = spare \ {n}
           /\ held' = [held EXCEPT ![t] = @ \cup {n}]
        \/ /\ n \in held[t] /\ spare' = spare \cup {n}
           /\ held' = [held EXCEPT ![t] = @ \ {n}]
    BY <1>2 DEF Create, Destroy
  <2>3. Apart(spare, held, Elems(queueSeq), Chains)'
    <3>1. \A u \in Threads \ {t} : held'[u] = held[u] /\ Chains'[u] = Chains[u]
      BY <2>1, <2>2 DEF TypeOK, Chains
    <3>2. Elems(queueSeq)' = Elems(queueSeq) /\ Chains'[t] = Chains[t]
      BY <2>1 DEF Chains
    <3>3. /\ spare' \cup held'[t] = spare \cup held[t] /\ spare' \cap held'[t] = {}
      BY <1>0, <2>2 DEF Apart, TypeOK
    <3>4. /\ Elems(queueSeq) \cap Chains[t] = {}
          /\ (Elems(queueSeq) \cup Chains[t]) \cap (spare \cup held[t]) = {}
      BY <1>0 DEF Apart
    <3> QED BY <1>0, <3>1, <3>2, <3>3, <3>4, Moved
  <2> QED BY <1>0, <2>1, <2>3, SetsAsPlaces DEF AsSets
<1>3. ASSUME NEW t \in Threads, NEW n \in Tlas, PutThread(t, n) PROVE EachTlaOnce'
  <2>1. /\ n \in held[t] /\ held' = [held EXCEPT ![t] = @ \ {n}]
        /\ chainSeq' = [chainSeq EXCEPT ![t] = <<n>>] /\ UNCHANGED <<spare, queueSeq>>
        /\ chainSeq[t] = <<>>
    BY <1>3 DEF PutThread, StartPush, Shape, ChainOK, PushPcs
  <2>2. Chains' = [Chains EXCEPT ![t] = {n}] /\ Chains[t] = {}
    BY <2>1, SingleFacts, EmptyFacts DEF Chains, TypeOK
  <2>3. Apart(spare, held, Elems(queueSeq), Chains)'
    <3>1. \A u \in Threads \ {t} : held'[u] = held[u] /\ Chains'[u] = Chains[u]
      BY <2>1, <2>2 DEF TypeOK, Chains
    <3>2. /\ held'[t] = held[t] \ {n} /\ Chains'[t] = {n}
          /\ Elems(queueSeq)' = Elems(queueSeq)
      BY <2>1, <2>2 DEF TypeOK, Chains
    <3>3. /\ spare \cap Elems(queueSeq) = {} /\ spare \cap held[t] = {}
          /\ Elems(queueSeq) \cap held[t] = {}
      BY <1>0 DEF Apart
    <3>4. spare' \cup Elems(queueSeq)' \cup held'[t] \cup Chains'[t]
            = spare \cup Elems(queueSeq) \cup held[t] \cup Chains[t]
      BY <2>1, <2>2, <3>2
    <3>5. /\ spare' \cap Elems(queueSeq)' = {} /\ spare' \cap held'[t] = {}
          /\ spare' \cap Chains'[t] = {} /\ Elems(queueSeq)' \cap held'[t] = {}
          /\ Elems(queueSeq)' \cap Chains'[t] = {} /\ held'[t] \cap Chains'[t] = {}
      BY <2>1, <2>2, <3>2, <3>3
    <3> QED BY <1>0, <3>1, <3>4, <3>5, Moved
  <2>4. \A u \in Threads : NoRepeat(chainSeq'[u])
    BY <1>0, <2>1, SingleFacts DEF TypeOK
  <2> QED BY <1>0, <2>1, <2>3, <2>4, SetsAsPlaces DEF AsSets
<1>4. ASSUME NEW t \in Threads, Snatch(t) PROVE EachTlaOnce'
  <2>1. PICK q \in Seq(Tlas) : q = queueSeq /\ q # <<>> /\ head = q[1]
    BY <1>4, SnatchPlaces
  <2>2. /\ queueSeq' = <<>> /\ chainSeq' = [chainSeq EXCEPT ![t] = Tail(q)]
        /\ held' = [held EXCEPT ![t] = @ \cup {q[1]}] /\ UNCHANGED spare
        /\ chainSeq[t] = <<>>
    BY <1>4, <2>1, SnatchPlaces
  <2>3. /\ Elems(Tail(q)) = Elems(q) \ {q[1]} /\ q[1] \in Elems(q)
        /\ NoRepeat(Tail(q)) /\ Elems(<<>>) = {} /\ NoRepeat(<<>>)
    BY <1>0, <2>1, TailFacts, SeqFacts, EmptyFacts
  <2>4. Chains' = [Chains EXCEPT ![t] = Elems(q) \ {q[1]}] /\ Chains[t] = {}
    BY <2>2, <2>3 DEF Chains, TypeOK
  <2>5. Apart(spare, held, Elems(queueSeq), Chains)'
    <3>1. \A u \in Threads \ {t} : held'[u] = held[u] /\ Chains'[u] = Chains[u]
      BY <2>2, <2>4 DEF TypeOK, Chains
    <3>2. /\ held'[t] = held[t] \cup {q[1]} /\ Chains'[t] = Elems(q) \ {q[1]}
          /\ Elems(queueSeq)' = {}
      BY <2>2, <2>3, <2>4 DEF TypeOK, Chains
    <3>3. spare \cap Elems(q) = {} /\ spare \cap held[t] = {} /\ Elems(q) \cap held[t] = {}
      BY <1>0, <2>1 DEF Apart
    <3>4. spare' \cup Elems(queueSeq)' \cup held'[t] \cup Chains'[t]
            = spare \cup Elems(queueSeq) \cup held[t] \cup Chains[t]
      BY <2>1, <2>2, <2>3, <2>4, <3>2
    <3>5. /\ spare' \cap Elems(queueSeq)' = {} /\ spare' \cap held'[t] = {}
          /\ spare' \cap Chains'[t] = {} /\ Elems(queueSeq)' \cap held'[t] = {}
          /\ Elems(queueSeq)' \cap Chains'[t] = {} /\ held'[t] \cap Chains'[t] = {}
      BY <2>1, <2>2, <2>3, <2>4, <3>2, <3>3
    <3> QED BY <1>0, <3>1, <3>4, <3>5, Moved
  <2>6. NoRepeat(queueSeq)' /\ \A u \in Threads : NoRepeat(chainSeq'[u])
    BY <1>0, <2>2, <2>3 DEF TypeOK
  <2> QED BY <2>5, <2>6, SetsAsPlaces DEF AsSets
<1>5. ASSUME NEW t \in Threads, PushCas(t) PROVE EachTlaOnce'
  <2>1. PICK q \in Seq(Tlas), s \in Seq(Tlas) : q = queueSeq /\ s = chainSeq[t]
    BY TypeFacts
  <2>2. /\ queueSeq' = s \o q /\ chainSeq' = [chainSeq EXCEPT ![t] = <<>>]
        /\ UNCHANGED <<spare, held>>
    BY <1>5, <2>1 DEF PushCas, Forget, ownerVars
  <2>3. /\ Elems(s \o q) = Elems(s) \cup Elems(q) /\ NoRepeat(s \o q)
        /\ Elems(<<>>) = {} /\ NoRepeat(<<>>)
    BY <2>1, ApartFacts, ConcatFacts, EmptyFacts
  <2>4. Chains' = [Chains EXCEPT ![t] = {}] /\ Chains[t] = Elems(s)
    BY <2>1, <2>2, <2>3 DEF Chains, TypeOK
  <2>5. Apart(spare, held, Elems(queueSeq), Chains)'
    <3>1. \A u \in Threads \ {t} : held'[u] = held[u] /\ Chains'[u] = Chains[u]
      BY <2>2, <2>4 DEF TypeOK, Chains
    <3>2. /\ held'[t] = held[t] /\ Chains'[t] = {}
          /\ Elems(queueSeq)' = Elems(s) \cup Elems(q)
      BY <2>2, <2>3, <2>4 DEF TypeOK, Chains
    <3>3. /\ spare \cap Elems(q) = {} /\ spare \cap Chains[t] = {} /\ spare \cap held[t] = {}
          /\ Elems(q) \cap held[t] = {} /\ Chains[t] \cap held[t] = {}
      BY <1>0, <2>1 DEF Apart
    <3>4. spare' \cup Elems(queueSeq)' \cup held'[t] \cup Chains'[t]
            = spare \cup Elems(queueSeq) \cup held[t] \cup Chains[t]
      BY <2>1, <2>2, <2>4, <3>2
    <3>5. /\ spare' \cap Elems(queueSeq)' = {} /\ spare' \cap held'[t] = {}
          /\ spare' \cap Chains'[t] = {} /\ Elems(queueSeq)' \cap held'[t] = {}
          /\ Elems(queueSeq)' \cap Chains'[t] = {} /\ held'[t] \cap Chains'[t] = {}
      BY <2>1, <2>2, <2>4, <3>2, <3>3
    <3> QED BY <1>0, <3>1, <3>4, <3>5, Moved
  <2>6. NoRepeat(queueSeq)' /\ \A u \in Threads : NoRepeat(chainSeq'[u])
    BY <1>0, <2>2, <2>3 DEF TypeOK
  <2> QED BY <2>5, <2>6, SetsAsPlaces DEF AsSets
<1>6. ASSUME NEW t \in Threads,
             Acquire(t) \/ SnatchNothing(t) \/ LoadHead(t) \/ TailHop(t)
               \/ TailFound(t) \/ PushRetry(t)
      PROVE EachTlaOnce'
  BY <1>1, <1>6 DEF Acquire, SnatchNothing, LoadHead, TailHop, TailFound, PushRetry,
                    placeVars, ownerVars
<1>7. CASE UNCHANGED vars
  BY <1>1, <1>7 DEF vars, ownerVars, placeVars
<1> QED BY <1>2, <1>3, <1>4, <1>5, <1>6, <1>7 DEF Next, Step

-----------------------------------------------------------------------------
(* What the lists look like.                                               *)

\* A thread's step leaves the chains of the others alone.
LEMMA OthersKept ==
  ASSUME TypeOK, EachTlaOnce, Shape, NEW t \in Threads, NEW W,
         \A u \in Threads \ {t} :
           /\ pc'[u] = pc[u] /\ chain'[u] = chain[u] /\ old'[u] = old[u]
           /\ tail'[u] = tail[u] /\ chainSeq'[u] = chainSeq[u]
           /\ W \cap Elems(chainSeq[u]) = {},
         \A n \in Tlas \ W : next'[n] = next[n] /\ skip'[n] = skip[n]
  PROVE \A u \in Threads \ {t} : ChainOK(u)'
<1> SUFFICES ASSUME NEW u \in Threads \ {t} PROVE ChainOK(u)'
  OBVIOUS
<1>1. Elems(chainSeq[u]) \subseteq Tlas
  BY TypeFacts, SeqFacts
<1> QED BY <1>1, ChainKept DEF Shape

\* The chain of a thread that is not pushing.
LEMMA NoChain ==
  ASSUME NEW t \in Threads, chainSeq'[t] = <<>>, pc'[t] \notin PushPcs
  PROVE ChainOK(t)'
BY EmptyFacts DEF ChainOK, PushPcs, SkipsForward

\* A TLA that is created or destroyed is linked nowhere.
LEMMA ShapeOfCreate ==
  ASSUME TypeOK, EachTlaOnce, Shape, NEW t \in Threads, NEW n \in Tlas,
         Create(t, n) \/ Destroy(t, n)
  PROVE Shape'
<1>1. /\ n \in spare \cup held[t] /\ UNCHANGED <<head, pc, pushVars, queueSeq, chainSeq>>
      /\ \A m \in Tlas \ {n} : next'[m] = next[m] /\ skip'[m] = skip[m]
  BY DEF Create, Destroy, TypeOK, entryVars
<1>2. n \notin Elems(queueSeq) /\ \A u \in Threads : n \notin Elems(chainSeq[u])
  BY <1>1, ApartFacts
<1>3. /\ Elems(queueSeq) \subseteq Tlas
      /\ \A u \in Threads : Elems(chainSeq[u]) \subseteq Tlas
  BY TypeFacts, SeqFacts
<1>4. QueueOK'
  BY <1>1, <1>2, <1>3, QueueKept DEF Shape
<1>5. ASSUME NEW u \in Threads PROVE ChainOK(u)'
  BY <1>1, <1>2, <1>3, ChainKept DEF Shape, pushVars
<1> QED BY <1>4, <1>5 DEF Shape

\* A TLA that is put becomes a chain of its own.
LEMMA ShapeOfPutThread ==
  ASSUME TypeOK, EachTlaOnce, Shape, NEW t \in Threads, NEW n \in Tlas, PutThread(t, n)
  PROVE Shape'
<1>1. /\ n \in held[t] /\ UNCHANGED <<head, queueSeq>>
      /\ \A m \in Tlas \ {n} : next'[m] = next[m] /\ skip'[m] = skip[m]
      /\ next'[n] = Null /\ skip'[n] = n
      /\ pc'[t] = "load" /\ chain'[t] = n /\ chainSeq'[t] = <<n>>
  BY DEF PutThread, StartPush, TypeOK
<1>2. \A u \in Threads \ {t} :
        /\ pc'[u] = pc[u] /\ chain'[u] = chain[u] /\ old'[u] = old[u]
        /\ tail'[u] = tail[u] /\ chainSeq'[u] = chainSeq[u]
  BY DEF PutThread, StartPush, TypeOK
<1>3. n \notin Elems(queueSeq) /\ \A u \in Threads : n \notin Elems(chainSeq[u])
  BY <1>1, ApartFacts
<1>4. QueueOK'
  <2>1. Elems(queueSeq) \subseteq Tlas
    BY TypeFacts, SeqFacts
  <2> QED BY <1>1, <1>3, <2>1, QueueKept DEF Shape
<1>5. \A u \in Threads \ {t} : ChainOK(u)'
  <2>1. PICK W : W = {n}
    OBVIOUS
  <2> QED BY <1>1, <1>2, <1>3, <2>1, OthersKept
<1>6. ChainOK(t)'
  <2>1. Len(<<n>>) = 1 /\ <<n>>[1] = n /\ <<n>> # <<>> /\ 1 .. 1 = {1}
    BY SingleFacts
  <2>2. IsList(chain[t], chainSeq[t], ChainEnd(t))'
    BY <1>1, <2>1 DEF IsList, ChainEnd
  <2>3. SkipsForward(chainSeq[t])'
    BY <1>1, <2>1 DEF SkipsForward
  <2> QED BY <1>1, <2>1, <2>2, <2>3 DEF ChainOK, PushPcs
<1> QED BY <1>4, <1>5, <1>6 DEF Shape

\* Steps that only move a thread on.
LEMMA ShapeOfLooks ==
  ASSUME TypeOK, EachTlaOnce, Shape, NEW t \in Threads,
         Acquire(t) \/ SnatchNothing(t) \/ LoadHead(t) \/ TailHop(t)
  PROVE Shape'
<1>1. UNCHANGED <<head, next, skip, queueSeq, chainSeq>>
  BY DEF Acquire, SnatchNothing, LoadHead, TailHop, entryVars
<1>2. \A u \in Threads \ {t} :
        /\ pc'[u] = pc[u] /\ chain'[u] = chain[u] /\ old'[u] = old[u]
        /\ tail'[u] = tail[u] /\ chainSeq'[u] = chainSeq[u]
  BY DEF Acquire, SnatchNothing, LoadHead, TailHop, TypeOK, pushVars
<1>3. QueueOK'
  BY <1>1, QueueKept DEF Shape
<1>4. \A u \in Threads \ {t} : ChainOK(u)'
  <2>1. ASSUME NEW u \in Threads \ {t} PROVE ChainOK(u)'
    BY <1>1, <1>2, ChainKept DEF Shape
  <2> QED BY <2>1
<1>5. ChainOK(t)'
  <2>1. CASE Acquire(t) \/ SnatchNothing(t)
    <3>1. pc[t] \notin PushPcs /\ pc'[t] \notin PushPcs
      BY <2>1 DEF Acquire, SnatchNothing, TypeOK, PushPcs
    <3>2. chainSeq'[t] = <<>>
      BY <1>1, <3>1 DEF Shape, ChainOK
    <3> QED BY <3>1, <3>2, NoChain
  <2>2. CASE LoadHead(t) \/ TailHop(t)
    <3>1. /\ pc[t] \in {"load", "tail"} /\ pc'[t] = "tail" /\ chain'[t] = chain[t]
          /\ tail'[t] = GetSkip(IF pc[t] = "load" THEN chain[t] ELSE tail[t])
      BY <2>2 DEF LoadHead, TailHop, TypeOK
    <3>2. tail'[t] \in Elems(chainSeq[t])
      BY <3>1, ChainFacts DEF Shape, ChainOK, PushPcs
    <3>3. IsList(chain[t], chainSeq[t], Null) /\ SkipsForward(chainSeq[t])
          /\ chainSeq[t] # <<>>
      BY <3>1 DEF Shape, ChainOK, ChainEnd, PushPcs
    <3>4. IsList(chain[t], chainSeq[t], ChainEnd(t))'
      BY <1>1, <3>1, <3>3 DEF IsList, ChainEnd
    <3>5. SkipsForward(chainSeq[t])'
      BY <1>1, <3>3 DEF SkipsForward
    <3> QED BY <1>1, <3>1, <3>2, <3>3, <3>4, <3>5 DEF ChainOK, PushPcs, Elems
  <2> QED BY <2>1, <2>2
<1> QED BY <1>3, <1>4, <1>5 DEF Shape

\* The tail is found, or linked again after a lost CAS.
LEMMA ShapeOfLink ==
  ASSUME TypeOK, EachTlaOnce, Shape, NEW t \in Threads, TailFound(t) \/ PushRetry(t)
  PROVE Shape'
<1>1. PICK s \in Seq(Tlas) : s = chainSeq[t]
  BY TypeFacts
<1>2. /\ pc[t] \in {"tail", "cas"} /\ pc'[t] = "cas" /\ ChainOK(t)
      /\ UNCHANGED <<head, queueSeq, chainSeq, chain, tail>>
  BY DEF TailFound, PushRetry, TypeOK, Shape, pushVars
<1>3. /\ s # <<>> /\ Len(s) \in Nat /\ Len(s) >= 1 /\ NoRepeat(s)
      /\ chain[t] = s[1] /\ tail[t] = s[Len(s)]
      /\ Elems(s) \subseteq Tlas /\ \A i \in 1 .. Len(s) : s[i] \in Elems(s)
      /\ SkipsForward(s) /\ IsList(chain[t], s, ChainEnd(t))
  <2>1. s # <<>> /\ SkipsForward(s) /\ IsList(chain[t], s, ChainEnd(t))
    BY <1>1, <1>2 DEF ChainOK, PushPcs
  <2>2. tail[t] = s[Len(s)]
    <3>1. CASE TailFound(t)
      <4>1. pc[t] = "tail" /\ GetSkip(tail[t]) = tail[t] /\ tail[t] \in Elems(s)
        BY <1>1, <1>2, <3>1 DEF TailFound, ChainOK
      <4> QED BY <1>1, <1>2, <4>1, ChainFacts DEF PushPcs
    <3>2. CASE PushRetry(t)
      BY <1>1, <1>2, <3>2 DEF PushRetry, ChainOK
    <3> QED BY <3>1, <3>2
  <2>3. chain[t] = s[1]
    BY <2>1 DEF IsList
  <2> QED BY <1>1, <2>1, <2>2, <2>3, SeqFacts, ApartFacts
<1>4. /\ \A n \in Tlas \ {tail[t]} : next'[n] = next[n]
      /\ \A n \in Tlas \ {chain[t]} : skip'[n] = skip[n]
      /\ next'[tail[t]] = old'[t]
      /\ skip'[chain[t]] = tail[t] \/ UNCHANGED skip
  <2>1. chain[t] \in Tlas /\ tail[t] \in Tlas
    BY <1>3
  <2> QED BY <2>1 DEF TailFound, PushRetry, TypeOK, pushVars
<1>5. \A n \in Tlas \ Elems(s) : next'[n] = next[n] /\ skip'[n] = skip[n]
  BY <1>3, <1>4
<1>6. QueueOK'
  <2>1. Elems(queueSeq) \subseteq Tlas /\ Elems(queueSeq) \cap Elems(s) = {}
    BY <1>1, TypeFacts, SeqFacts, ApartFacts
  <2>2. \A n \in Elems(queueSeq) : next'[n] = next[n] /\ skip'[n] = skip[n]
    BY <1>5, <2>1
  <2> QED BY <1>2, <2>2, QueueKept DEF Shape
<1>7. \A u \in Threads \ {t} : ChainOK(u)'
  <2>1. \A u \in Threads \ {t} :
          /\ pc'[u] = pc[u] /\ chain'[u] = chain[u] /\ old'[u] = old[u]
          /\ tail'[u] = tail[u] /\ chainSeq'[u] = chainSeq[u]
    BY DEF TailFound, PushRetry, TypeOK, pushVars
  <2>2. \A u \in Threads \ {t} : Elems(s) \cap Elems(chainSeq[u]) = {}
    BY <1>1, ApartFacts
  <2> QED BY <1>5, <2>1, <2>2, OthersKept
<1>8. ChainOK(t)'
  <2>1. \A i \in 1 .. Len(s) :
          next'[s[i]] = IF i < Len(s) THEN s[i + 1] ELSE old'[t]
    <3>1. ASSUME NEW i \in 1 .. Len(s)
          PROVE next'[s[i]] = IF i < Len(s) THEN s[i + 1] ELSE old'[t]
      <4>1. CASE i = Len(s)
        BY <1>3, <1>4, <4>1
      <4>2. CASE i # Len(s)
        <5>1. s[i] # s[Len(s)] /\ i < Len(s) /\ s[i] \in Tlas
          BY <1>3, <4>2 DEF NoRepeat
        <5>2. next[s[i]] = s[i + 1]
          BY <1>3, <5>1 DEF IsList
        <5> QED BY <1>3, <1>4, <5>1, <5>2
      <4> QED BY <4>1, <4>2
    <3> QED BY <3>1
  <2>2. SkipsForward(s)'
    <3>1. ASSUME NEW i \in 1 .. Len(s) PROVE \E j \in i .. Len(s) : skip'[s[i]] = s[j]
      <4>1. CASE skip'[s[i]] = skip[s[i]]
        BY <1>3, <4>1 DEF SkipsForward
      <4>2. CASE skip'[s[i]] # skip[s[i]]
        <5>1. skip'[s[i]] = s[Len(s)] /\ Len(s) \in i .. Len(s)
          BY <1>3, <1>4, <4>2
        <5> QED BY <5>1
      <4> QED BY <4>1, <4>2
    <3> QED BY <3>1 DEF SkipsForward
  <2>3. s = chainSeq'[t] /\ chain'[t] = chain[t] /\ ChainEnd(t)' = old'[t]
        /\ tail'[t] = s[Len(s)]
    BY <1>1, <1>2, <1>3 DEF ChainEnd
  <2>4. IsList(chain[t], chainSeq[t], ChainEnd(t))'
    BY <1>3, <2>1, <2>3 DEF IsList
  <2>5. SkipsForward(chainSeq[t])'
    BY <2>2, <2>3 DEF SkipsForward
  <2> QED BY <1>2, <1>3, <2>3, <2>4, <2>5 DEF ChainOK, PushPcs
<1> QED BY <1>6, <1>7, <1>8 DEF Shape

\* The chain is put in front of the list its tail is linked to.
LEMMA ShapeOfPushCas ==
  ASSUME TypeOK, EachTlaOnce, Shape, NEW t \in Threads, PushCas(t)
  PROVE Shape'
<1>1. PICK s \in Seq(Tlas), q \in Seq(Tlas) : s = chainSeq[t] /\ q = queueSeq
  BY TypeFacts
<1>2. /\ pc[t] = "cas" /\ head = old[t] /\ head' = chain[t] /\ queueSeq' = s \o q
      /\ pc'[t] = "idle" /\ chainSeq'[t] = <<>> /\ UNCHANGED <<next, skip>>
  BY <1>1 DEF PushCas, Forget, TypeOK, entryVars
<1>3. \A u \in Threads \ {t} :
        /\ pc'[u] = pc[u] /\ chain'[u] = chain[u] /\ old'[u] = old[u]
        /\ tail'[u] = tail[u] /\ chainSeq'[u] = chainSeq[u]
  BY DEF PushCas, Forget, TypeOK
<1>4. /\ s # <<>> /\ SkipsForward(s) /\ SkipsForward(q)
      /\ IsList(chain[t], s, head) /\ IsList(head, q, Null)
  BY <1>1, <1>2 DEF Shape, ChainOK, QueueOK, PushPcs, ChainEnd
<1>5. /\ Len(s) \in Nat /\ Len(q) \in Nat /\ Len(s) >= 1 /\ Len(s \o q) = Len(s) + Len(q)
      /\ \A i \in 1 .. Len(s) : (s \o q)[i] = s[i]
      /\ \A i \in 1 .. Len(q) : (s \o q)[Len(s) + i] = q[i]
      /\ \A k \in 1 .. Len(s \o q) :
           k \in 1 .. Len(s) \/ \E i \in 1 .. Len(q) : k = Len(s) + i
      /\ s \o q # <<>> /\ (q # <<>> <=> Len(q) >= 1)
  <2>1. s \o q \in Seq(Tlas) /\ Len(s \o q) = Len(s) + Len(q) /\ Len(s) \in Nat
        /\ Len(q) \in Nat /\ Len(s) >= 1
    BY <1>4, ConcatFacts, SeqFacts
  <2>2. Len(s \o q) >= 1
    BY <2>1
  <2> QED BY <2>1, <2>2, ConcatFacts, SeqFacts
<1>6. QueueOK'
  <2>1. head' = (s \o q)[1]
    BY <1>2, <1>4, <1>5 DEF IsList
  <2>2. ASSUME NEW k \in 1 .. Len(s \o q)
        PROVE /\ next[(s \o q)[k]] = IF k < Len(s \o q) THEN (s \o q)[k + 1] ELSE Null
              /\ \E j \in k .. Len(s \o q) : skip[(s \o q)[k]] = (s \o q)[j]
    <3>1. CASE k \in 1 .. Len(s)
      <4>1. (s \o q)[k] = s[k] /\ next[s[k]] = IF k < Len(s) THEN s[k + 1] ELSE head
        BY <1>4, <1>5, <3>1 DEF IsList
      <4>2. \E j \in k .. Len(s \o q) : skip[(s \o q)[k]] = (s \o q)[j]
        <5>1. PICK j \in k .. Len(s) : skip[s[k]] = s[j]
          BY <1>4, <3>1 DEF SkipsForward
        <5>2. j \in 1 .. Len(s) /\ j \in k .. Len(s \o q)
          BY <1>5, <3>1
        <5> QED BY <1>5, <4>1, <5>1, <5>2
      <4>3. next[(s \o q)[k]] = IF k < Len(s \o q) THEN (s \o q)[k + 1] ELSE Null
        <5>1. CASE k < Len(s)
          <6>1. k + 1 \in 1 .. Len(s) /\ k < Len(s \o q)
            BY <1>5, <5>1
          <6>2. (s \o q)[k + 1] = s[k + 1]
            BY <1>5, <6>1
          <6> QED BY <4>1, <5>1, <6>1, <6>2
        <5>2. CASE k = Len(s) /\ q = <<>>
          <6>1. head = Null /\ Len(q) = 0
            BY <1>4, <1>5, <5>2, EmptyFacts DEF IsList
          <6>2. ~ (k < Len(s)) /\ ~ (k < Len(s \o q))
            BY <1>5, <5>2, <6>1
          <6> QED BY <4>1, <6>1, <6>2
        <5>3. CASE k = Len(s) /\ q # <<>>
          <6>1. head = q[1] /\ 1 \in 1 .. Len(q)
            BY <1>4, <1>5, <5>3 DEF IsList
          <6>2. (s \o q)[Len(s) + 1] = q[1]
            BY <1>5, <6>1
          <6>3. ~ (k < Len(s)) /\ k < Len(s \o q)
            BY <1>5, <5>3, <6>1
          <6> QED BY <4>1, <5>3, <6>1, <6>2, <6>3
        <5>4. k < Len(s) \/ k = Len(s)
          BY <1>5, <3>1
        <5> QED BY <5>1, <5>2, <5>3, <5>4
      <4> QED BY <4>2, <4>3
    <3>2. ASSUME NEW i \in 1 .. Len(q), k = Len(s) + i
          PROVE /\ next[(s \o q)[k]] = IF k < Len(s \o q) THEN (s \o q)[k + 1] ELSE Null
                /\ \E j \in k .. Len(s \o q) : skip[(s \o q)[k]] = (s \o q)[j]
      <4>1. (s \o q)[k] = q[i] /\ next[q[i]] = IF i < Len(q) THEN q[i + 1] ELSE Null
        BY <1>4, <1>5, <3>2 DEF IsList
      <4>2. /\ k < Len(s \o q) <=> i < Len(q)
            /\ i < Len(q) => i + 1 \in 1 .. Len(q) /\ k + 1 = Len(s) + (i + 1)
        BY <1>5, <3>2
      <4>3. i < Len(q) => (s \o q)[k + 1] = q[i + 1]
        <5>1. i + 1 \in 1 .. Len(q) => (s \o q)[Len(s) + (i + 1)] = q[i + 1]
          BY <1>5
        <5> QED BY <4>2, <5>1
      <4>4. PICK j \in i .. Len(q) : skip[q[i]] = q[j]
        BY <1>4 DEF SkipsForward
      <4>5. j \in 1 .. Len(q) /\ Len(s) + j \in k .. Len(s \o q)
        BY <1>5, <3>2
      <4>6. (s \o q)[Len(s) + j] = q[j]
        BY <1>5, <4>5
      <4> QED BY <4>1, <4>2, <4>3, <4>4, <4>5, <4>6
    <3> QED BY <1>5, <3>1, <3>2
  <2> QED BY <1>2, <1>5, <2>1, <2>2 DEF QueueOK, IsList, SkipsForward
<1>7. \A u \in Threads \ {t} : ChainOK(u)'
  BY <1>2, <1>3, ChainKept DEF Shape
<1>8. ChainOK(t)'
  BY <1>2, NoChain DEF PushPcs
<1> QED BY <1>6, <1>7, <1>8 DEF Shape

\* The list becomes the snatching thread's, but for its first TLA.
LEMMA ShapeOfSnatch ==
  ASSUME TypeOK, EachTlaOnce, Shape, NEW t \in Threads, Snatch(t)
  PROVE Shape'
<1>1. PICK q \in Seq(Tlas) : q = queueSeq /\ q # <<>> /\ head = q[1] /\ NoRepeat(q)
  BY SnatchPlaces DEF EachTlaOnce
<1>2. /\ head' = Null /\ queueSeq' = <<>> /\ chainSeq'[t] = Tail(q)
      /\ UNCHANGED <<next, skip>>
  BY <1>1, SnatchPlaces DEF Snatch, TypeOK, entryVars
<1>3. \A u \in Threads \ {t} :
        /\ pc'[u] = pc[u] /\ chain'[u] = chain[u] /\ old'[u] = old[u]
        /\ tail'[u] = tail[u] /\ chainSeq'[u] = chainSeq[u]
  BY DEF Snatch, StartPush, TypeOK, pushVars
<1>4. QueueOK'
  BY <1>2, EmptyFacts DEF QueueOK, IsList, SkipsForward
<1>5. \A u \in Threads \ {t} : ChainOK(u)'
  BY <1>2, <1>3, ChainKept DEF Shape
<1>6. ChainOK(t)'
  <2>1. CASE Tail(q) = <<>>
    <3>1. next[head] = Null
      BY <1>1, <2>1, SnatchPlaces
    <3>2. pc'[t] = "idle"
      BY <3>1 DEF Snatch, TypeOK
    <3> QED BY <1>2, <2>1, <3>2, NoChain DEF PushPcs
  <2>2. CASE Tail(q) # <<>>
    <3>1. next[head] # Null /\ next[head] = Tail(q)[1]
      BY <1>1, <2>2, SnatchPlaces
    <3>2. pc'[t] = "load" /\ chain'[t] = Tail(q)[1]
      BY <3>1 DEF Snatch, StartPush, TypeOK
    <3>3. /\ Tail(q) \in Seq(Tlas) /\ Len(q) \in Nat /\ Len(Tail(q)) = Len(q) - 1
          /\ \A i \in 1 .. Len(Tail(q)) : i + 1 \in 1 .. Len(q) /\ Tail(q)[i] = q[i + 1]
      BY <1>1, TailFacts
    <3>4. ASSUME NEW i \in 1 .. Len(Tail(q))
          PROVE /\ next[Tail(q)[i]] =
                     IF i < Len(Tail(q)) THEN Tail(q)[i + 1] ELSE Null
                /\ \E j \in i .. Len(Tail(q)) : skip[Tail(q)[i]] = Tail(q)[j]
      <4>1. /\ i + 1 \in 1 .. Len(q) /\ Tail(q)[i] = q[i + 1]
            /\ i < Len(Tail(q)) <=> i + 1 < Len(q)
            /\ i < Len(Tail(q)) => Tail(q)[i + 1] = q[(i + 1) + 1]
        BY <3>3
      <4>2. next[q[i + 1]] = IF i + 1 < Len(q) THEN q[(i + 1) + 1] ELSE Null
        BY <1>1, <4>1 DEF Shape, QueueOK, IsList
      <4>3. PICK k \in i + 1 .. Len(q) : skip[q[i + 1]] = q[k]
        BY <1>1, <4>1 DEF Shape, QueueOK, SkipsForward
      <4>4. PICK j \in i .. Len(Tail(q)) : k = j + 1
        <5>1. k - 1 \in i .. Len(Tail(q)) /\ k = (k - 1) + 1
          BY <3>3, <4>1
        <5> QED BY <5>1
      <4>5. Tail(q)[j] = q[k]
        BY <3>3, <4>4
      <4> QED BY <4>1, <4>2, <4>3, <4>4, <4>5
    <3>5. IsList(chain[t], chainSeq[t], ChainEnd(t))'
      BY <1>2, <2>2, <3>2, <3>4 DEF IsList, ChainEnd
    <3>6. SkipsForward(chainSeq[t])'
      BY <1>2, <3>4 DEF SkipsForward
    <3> QED BY <1>2, <2>2, <3>2, <3>5, <3>6 DEF ChainOK, PushPcs
  <2> QED BY <2>1, <2>2
<1> QED BY <1>4, <1>5, <1>6 DEF Shape

-----------------------------------------------------------------------------
(* The theorems.                                                           *)

\* At the start the queue is empty and no thread has a chain.
LEMMA InitIInv == Init => IInv
<1> SUFFICES ASSUME Init PROVE IInv
  OBVIOUS
<1>1. TypeOK
  BY EmptyFacts DEF Init, TypeOK, Links, Pcs, PushPcs
<1>2. EachTlaOnce
  BY EmptyFacts DEF Init, EachTlaOnce, Buried
<1>3. QueueOK
  BY EmptyFacts DEF Init, QueueOK, IsList, SkipsForward
<1>4. \A t \in Threads : ChainOK(t)
  BY EmptyFacts DEF Init, ChainOK, PushPcs, SkipsForward
<1> QED BY <1>1, <1>2, <1>3, <1>4 DEF IInv, Shape

\* Every step keeps the links what they should be.
LEMMA ShapeStep ==
  ASSUME TypeOK, EachTlaOnce, Shape, [Next]_vars
  PROVE Shape'
<1>1. CASE UNCHANGED vars
  <2>1. UNCHANGED <<head, next, skip, pc, chain, old, tail, queueSeq, chainSeq>>
    BY <1>1 DEF vars, entryVars, pushVars
  <2>2. QueueOK' /\ \A t \in Threads : ChainOK(t)'
    BY <2>1, QueueKept, ChainKept DEF Shape
  <2> QED BY <2>2 DEF Shape
<1> QED
  BY <1>1, ShapeOfCreate, ShapeOfPutThread, ShapeOfLooks, ShapeOfLink, ShapeOfPushCas,
     ShapeOfSnatch
  DEF Next, Step

\* Every step keeps the invariant.
LEMMA StepIInv == IInv /\ [Next]_vars => IInv'
BY TypeStep, EachTlaOnceStep, ShapeStep DEF IInv

\* The invariant of all lists and all places, from which everything else follows.
THEOREM Invariant == Spec => []IInv
BY InitIInv, StepIInv, PTL DEF Spec

\* The variables of the graveyard keep their types, whatever the threads do: no walk
\* to a tail runs off its list.
THEOREM TypeCorrect == Spec => []TypeOK
<1>1. IInv => TypeOK
  BY DEF IInv
<1> QED BY <1>1, Invariant, PTL

\* No TLA is lost, or in two hands, or on two lists, by snatches and pushes.
THEOREM TlasInOnePlace == Spec => []EachTlaOnce
<1>1. IInv => EachTlaOnce
  BY DEF IInv
<1> QED BY <1>1, Invariant, PTL

\* The links of the list, and of every list that is pushed back, are intact.
THEOREM ListsStayIntact == Spec => []ListsIntact
<1>1. IInv => ListsIntact
  BY DEF IInv, Shape, QueueOK, ChainOK, ChainEnd, ListsIntact
<1> QED BY <1>1, Invariant, PTL

\* The walk over old skip pointers ends at the tail of the list that is pushed.
THEOREM TailIsFound == Spec => []SkipsLeadToTail
<1>1. IInv => SkipsLeadToTail
  BY DEF IInv, Shape, QueueOK, ChainOK, SkipsLeadToTail
<1> QED BY <1>1, Invariant, PTL

\* The lists, one by one.
LEMMA BuriedMembers ==
  /\ \A n : n \in Buried <=> \/ n \in Elems(queueSeq)
                            \/ \E t \in Threads : n \in Elems(chainSeq[t])
  /\ \A n : n \in Buried' <=> \/ n \in Elems(queueSeq')
                             \/ \E t \in Threads : n \in Elems(chainSeq'[t])
BY DEF Buried, Elems

\* As long as the lists do not change, what is buried does not.
LEMMA BuriedKept ==
  ASSUME UNCHANGED <<queueSeq, chainSeq>> PROVE Buried' = Buried
BY DEF Buried

\* Every step of the lists is a step of the contract, or none.
LEMMA StepRefines == IInv /\ [Next]_vars => [Contract!Next]_<<Buried, held>>
<1> SUFFICES ASSUME TypeOK, EachTlaOnce, Shape, [Next]_vars
             PROVE [Contract!Next]_<<Buried, held>>
  BY DEF IInv
<1>1. ASSUME NEW t \in Threads, NEW n \in Tlas, Create(t, n) PROVE Contract!Create(t, n)
  <2>1. Buried' = Buried
    BY <1>1, BuriedKept DEF Create
  <2>2. n \notin Buried /\ \A u \in Threads : n \notin held[u]
    BY <1>1 DEF Create, EachTlaOnce
  <2> QED BY <1>1, <2>1, <2>2 DEF Create, Contract!Create
<1>2. ASSUME NEW t \in Threads, NEW n \in Tlas, Destroy(t, n) PROVE Contract!Destroy(t, n)
  <2>1. Buried' = Buried
    BY <1>2, BuriedKept DEF Destroy
  <2> QED BY <1>2, <2>1 DEF Destroy, Contract!Destroy
<1>3. ASSUME NEW t \in Threads, NEW n \in Tlas, PutThread(t, n) PROVE Contract!Bury(t, n)
  <2>1. chainSeq' = [chainSeq EXCEPT ![t] = <<n>>] /\ UNCHANGED queueSeq /\ chainSeq[t] = <<>>
    BY <1>3 DEF PutThread, StartPush, Shape, ChainOK, PushPcs
  <2>2. \A u \in Threads : Elems(chainSeq'[u]) = IF u = t THEN {n} ELSE Elems(chainSeq[u])
    BY <2>1, SingleFacts DEF TypeOK
  <2>3. Elems(chainSeq[t]) = {}
    BY <2>1, EmptyFacts
  <2>4. Buried' = Buried \cup {n}
    BY <2>1, <2>2, <2>3 DEF Buried, Elems
  <2> QED BY <1>3, <2>4 DEF PutThread, Contract!Bury
<1>4. ASSUME NEW t \in Threads, Snatch(t) PROVE head \in Tlas /\ Contract!DigUp(t, head)
  <2>1. PICK q \in Seq(Tlas) : /\ q = queueSeq /\ q # <<>> /\ head = q[1] /\ NoRepeat(q)
                               /\ chainSeq[t] = <<>>
    BY <1>4, SnatchPlaces DEF EachTlaOnce
  <2>2. /\ queueSeq' = <<>> /\ chainSeq' = [chainSeq EXCEPT ![t] = Tail(q)]
        /\ held' = [held EXCEPT ![t] = @ \cup {head}]
    BY <1>4, <2>1, SnatchPlaces
  <2>3. /\ Elems(Tail(q)) = Elems(q) \ {head} /\ head \in Elems(q) /\ head \in Tlas
        /\ Elems(<<>>) = {}
    BY <2>1, TailFacts, SeqFacts, EmptyFacts
  <2>4. \A u \in Threads : /\ Elems(chainSeq'[u]) = IF u = t THEN Elems(q) \ {head}
                                                    ELSE Elems(chainSeq[u])
                           /\ head \notin Elems(chainSeq[u])
    BY <2>1, <2>2, <2>3, ApartFacts DEF TypeOK
  <2>5. Elems(queueSeq') = {} /\ Elems(chainSeq[t]) = {} /\ Elems(queueSeq) = Elems(q)
    BY <2>1, <2>2, <2>3
  <2>6. Buried' = Buried \ {head}
    <3>1. ASSUME NEW n PROVE n \in Buried' <=> n \in Buried /\ n # head
      BY <2>4, <2>5, BuriedMembers
    <3> QED BY <3>1
  <2>7. head \in Buried
    BY <2>3, <2>5 DEF Buried
  <2> QED BY <2>2, <2>3, <2>6, <2>7 DEF Contract!DigUp
<1>5. ASSUME NEW t \in Threads, PushCas(t) PROVE UNCHANGED <<Buried, held>>
  <2>1. PICK q \in Seq(Tlas), s \in Seq(Tlas) : q = queueSeq /\ s = chainSeq[t]
    BY TypeFacts
  <2>2. /\ queueSeq' = s \o q /\ chainSeq' = [chainSeq EXCEPT ![t] = <<>>]
        /\ UNCHANGED held
    BY <1>5, <2>1 DEF PushCas, Forget, ownerVars
  <2>3. Elems(s \o q) = Elems(s) \cup Elems(q) /\ Elems(<<>>) = {}
    BY ConcatFacts, EmptyFacts
  <2>4. \A u \in Threads : Elems(chainSeq'[u]) = IF u = t THEN {} ELSE Elems(chainSeq[u])
    BY <2>2, <2>3 DEF TypeOK
  <2>5. Elems(queueSeq') = Elems(chainSeq[t]) \cup Elems(queueSeq)
    BY <2>1, <2>2, <2>3
  <2>6. Buried' = Buried
    <3>1. ASSUME NEW n PROVE n \in Buried' <=> n \in Buried
      BY <2>4, <2>5, BuriedMembers
    <3> QED BY <3>1
  <2> QED BY <2>2, <2>6
<1>6. ASSUME NEW t \in Threads,
             Acquire(t) \/ SnatchNothing(t) \/ LoadHead(t) \/ TailHop(t)
               \/ TailFound(t) \/ PushRetry(t)
      PROVE UNCHANGED <<Buried, held>>
  <2>1. UNCHANGED <<queueSeq, chainSeq, held>>
    BY <1>6 DEF Acquire, SnatchNothing, LoadHead, TailHop, TailFound, PushRetry, ownerVars
  <2> QED BY <2>1, BuriedKept
<1>7. CASE UNCHANGED vars
  <2>1. UNCHANGED <<queueSeq, chainSeq, held>>
    BY <1>7 DEF vars, ownerVars
  <2> QED BY <2>1, BuriedKept
<1> QED
  BY <1>1, <1>2, <1>3, <1>4, <1>5, <1>6, <1>7 DEF Next, Step, Contract!Next

\* The graveyard keeps its promise: a TLA is dug up by one thread at a time, and what
\* was buried can be dug up again.
THEOREM Implements == Spec => ImplementsGraveyard
<1>1. Init => Contract!Init
  BY EmptyFacts DEF Init, Contract!Init, Buried
<1>2. IInv /\ [Next]_vars => [Contract!Next]_Contract!vars
  BY StepRefines DEF Contract!vars
<1> QED BY <1>1, <1>2, Invariant, PTL DEF Spec, Contract!Spec, ImplementsGraveyard

-----------------------------------------------------------------------------
(* The way to the CAS.                                                     *)

\* In a list without repetition a node has one place.
LEMMA PlaceIs ==
  ASSUME NEW s \in Seq(Tlas), NoRepeat(s), NEW i \in 1 .. Len(s)
  PROVE  PositionIn(s, s[i]) = i
<1>1. \E j \in 1 .. Len(s) : s[j] = s[i]
  OBVIOUS
<1>2. PositionIn(s, s[i]) \in 1 .. Len(s) /\ s[PositionIn(s, s[i])] = s[i]
  BY <1>1 DEF PositionIn
<1> QED BY <1>2 DEF NoRepeat

\* A hop that leads anywhere leads to a later node.
LEMMA HopGoesOn ==
  ASSUME NEW s \in Seq(Tlas), NoRepeat(s), NEW f, IsList(f, s, Null), SkipsForward(s),
         NEW i \in 1 .. Len(s)
  PROVE  \E j \in i .. Len(s) : GetSkip(s[i]) = s[j]
<1>1. Len(s) \in Nat /\ i \in i .. Len(s)
  BY SeqFacts
<1>2. next[s[i]] = IF i < Len(s) THEN s[i + 1] ELSE Null
  BY DEF IsList
<1>3. PICK j \in i .. Len(s) : skip[s[i]] = s[j]
  BY DEF SkipsForward
<1>4. i < Len(s) => i + 1 \in i .. Len(s)
  BY <1>1
<1> QED BY <1>1, <1>2, <1>3, <1>4 DEF GetSkip

\* Each access of a call but a failing CAS brings the call nearer to its end: as long as
\* a list is walked its nodes belong to the thread, and its skip pointers lead forward.
THEOREM CallsAdvance == Spec => CallAdvances
<1>1. ASSUME IInv, [Next]_vars, NEW t \in Threads, Step(t)
      PROVE  pc'[t] = "idle" \/ PushRetry(t) \/ StepsLeft(t)' < StepsLeft(t)
  <2>1. TypeOK /\ EachTlaOnce /\ ChainOK(t) /\ QueueOK
    BY <1>1 DEF IInv, Shape
  <2>2. PICK s \in Seq(Tlas) : s = chainSeq[t]
    BY <2>1 DEF TypeOK
  <2>3. NoRepeat(s) /\ Len(s) \in Nat /\ SkipsForward(s)
    BY <2>1, <2>2, ApartFacts, SeqFacts DEF ChainOK
  <2>4. CASE SnatchNothing(t) \/ PushCas(t)
    BY <2>1, <2>4 DEF SnatchNothing, PushCas, Forget, TypeOK
  <2>5. CASE PushRetry(t)
    BY <2>5
  <2>6. CASE Snatch(t) /\ pc'[t] # "idle"
    <3>1. /\ pc[t] = "exchange" /\ StartPush(t, next[head], Tail(queueSeq)) /\ head # Null
      BY <2>1, <2>6 DEF Snatch, TypeOK
    <3>2. pc'[t] = "load" /\ chainSeq'[t] = Tail(queueSeq)
      BY <2>1, <3>1 DEF StartPush, TypeOK
    <3>3. queueSeq \in Seq(Tlas) /\ queueSeq # <<>>
      BY <2>1, <3>1 DEF TypeOK, QueueOK, IsList
    <3>4. Len(Tail(queueSeq)) = Len(queueSeq) - 1 /\ Len(queueSeq) \in Nat
      BY <3>3, SeqFacts, HeadTailProperties
    <3> QED BY <3>1, <3>2, <3>4 DEF StepsLeft
  <2>7. CASE LoadHead(t)
    <3>1. /\ pc[t] = "load" /\ pc'[t] = "tail" /\ tail'[t] = GetSkip(chain[t])
          /\ chainSeq' = chainSeq
      BY <2>1, <2>7 DEF LoadHead, TypeOK
    <3>2. Len(s) >= 1 /\ chain[t] = s[1] /\ IsList(chain[t], s, Null)
      <4>1. pc[t] \in PushPcs /\ ChainEnd(t) = Null
        BY <3>1 DEF PushPcs, ChainEnd
      <4> QED BY <2>1, <2>2, <4>1, ChainFacts DEF ChainOK
    <3>3. PICK j \in 1 .. Len(s) : GetSkip(s[1]) = s[j]
      <4>1. 1 \in 1 .. Len(s)
        BY <2>3, <3>2
      <4> QED BY <2>3, <3>2, <4>1, HopGoesOn
    <3>4. PositionIn(s, tail'[t]) = j /\ chainSeq'[t] = s
      BY <2>2, <2>3, <3>1, <3>2, <3>3, PlaceIs
    <3>5. StepsLeft(t) = Len(s) + 1 /\ StepsLeft(t)' = Len(s) - j + 1
      BY <2>2, <3>1, <3>4 DEF StepsLeft
    <3> QED BY <2>3, <3>5
  <2>8. CASE TailHop(t)
    <3>1. /\ pc[t] = "tail" /\ pc'[t] = "tail" /\ tail'[t] = GetSkip(tail[t])
          /\ chainSeq' = chainSeq /\ GetSkip(tail[t]) # tail[t]
      BY <2>1, <2>8 DEF TailHop, TypeOK
    <3>2. tail[t] \in Elems(s) /\ IsList(chain[t], s, Null)
      BY <2>1, <2>2, <3>1 DEF ChainOK, ChainEnd, PushPcs
    <3>3. PICK i \in 1 .. Len(s) : tail[t] = s[i]
      BY <3>2 DEF Elems
    <3>4. PICK j \in i .. Len(s) : GetSkip(s[i]) = s[j]
      BY <2>3, <3>2, HopGoesOn
    <3>5. j \in 1 .. Len(s) /\ i < j
      BY <2>3, <3>1, <3>3, <3>4
    <3>6. PositionIn(s, tail[t]) = i /\ PositionIn(s, tail'[t]) = j /\ chainSeq'[t] = s
      BY <2>2, <2>3, <3>1, <3>3, <3>4, <3>5, PlaceIs
    <3>7. StepsLeft(t) = Len(s) - i + 1 /\ StepsLeft(t)' = Len(s) - j + 1
      BY <2>2, <3>1, <3>6 DEF StepsLeft
    <3> QED BY <2>3, <3>5, <3>7
  <2>9. CASE TailFound(t)
    <3>1. pc[t] = "tail" /\ pc'[t] = "cas"
      BY <2>1, <2>9 DEF TailFound, TypeOK
    <3>2. PICK i \in 1 .. Len(s) : tail[t] = s[i]
      BY <2>1, <2>2, <3>1 DEF ChainOK, Elems
    <3>3. PositionIn(s, tail[t]) = i
      BY <2>3, <3>2, PlaceIs
    <3>4. StepsLeft(t) = Len(s) - i + 1 /\ StepsLeft(t)' = 0
      BY <2>2, <3>1, <3>3 DEF StepsLeft
    <3> QED BY <2>3, <3>4
  <2> QED BY <1>1, <2>4, <2>5, <2>6, <2>7, <2>8, <2>9 DEF Step
<1>2. ASSUME IInv, [Next]_vars
      PROVE  [\A t \in Threads :
                Step(t) => \/ pc'[t] = "idle"
                           \/ PushRetry(t)
                           \/ StepsLeft(t)' < StepsLeft(t)]_vars
  BY <1>1, <1>2
<1> QED BY <1>2, Invariant, PTL DEF Spec, CallAdvances
=============================================================================
