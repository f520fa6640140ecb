------------------------ MODULE RetireReclaim_proofs ------------------------
(***************************************************************************)
(* Proofs about RetireReclaim, for every number of arenas, threads and     *)
(* blocks.  The properties rest on one inductive invariant, IInv; its      *)
(* conjuncts are proved preserved one lemma each.                          *)
(***************************************************************************)
EXTENDS RetireReclaim, TLAPS, FiniteSetTheorems

\* Where the TLA is and what its holder is doing agree.
Control ==
  /\ root.retired
  /\ rpc = "exchange" => rflag
  /\ rpc # "idle" => postponed = Null /\ postSeq = <<>>
  /\ rpc \in {"idle", "exchange"} => rlist = Null /\ claimSeq = <<>>
  /\ tla \in {"grave", "destroyed"} => rpc = "idle"
  /\ tla = "destroyed" => used = {}

\* The bookkeeping of one arena.
Account(a) ==
  /\ out[a] \subseteq 0 .. top[a] - 1
  /\ top[a] = freed[a] + value[a] + Cardinality(out[a])
  /\ a \notin used => top[a] = 0
  /\ value[a] > 0 => flag[a]

Accounts == \A a \in Arenas : Account(a)

\* A thread frees a block that is still out, and is the only one to free it.
Holders ==
  \A t \in Threads : pc[t] \in Freeing =>
    /\ block[t] \in out[arena[t]]
    /\ \A u \in Threads : pc[u] \in Freeing /\ arena[u] = arena[t]
                          /\ block[u] = block[t] => u = t

\* A thread pushes an arena with something to reclaim, linked to the root it saw.
Pushers ==
  \A t \in Threads : pc[t] \in Pushing =>
    /\ value[arena[t]] > 0
    /\ pc[t] = "cas_root" => next[arena[t]] = seenRoot[t]

\* So is an arena on a list or in the reclaiming thread's hands.
Waiting ==
  /\ \A a \in Arenas : Queued(a) => value[a] > 0
  /\ rpc \in {"check", "reset"} => value[rarena] > 0

\* An arena created with its flag down has it up only if it is on its way.
FlagMeansQueued ==
  ~ InitialRetired =>
    \A a \in Arenas : flag[a] => Pusher(a) \/ Queued(a) \/ InReclaim(a)

IInv == /\ TypeOK
        /\ Control
        /\ Accounts
        /\ Holders
        /\ Pushers
        /\ Waiting
        /\ QueuedOnce
        /\ ListsIntact
        /\ FlagMeansQueued

-----------------------------------------------------------------------------

USE DEF vars, tlaVars, arenaVars, rootVars, wordVars, reclaimerVars, retirerVars,
        listVars

\* A pointer is null or an arena, never both.
LEMMA PtrFacts ==
  /\ Null \in Ptr
  /\ \A a \in Arenas : a \in Ptr /\ a # Null
  /\ \A p \in Ptr : p # Null => p \in Arenas
BY NullAssumption DEF Ptr
\* The numbers of an arena, and what one of its blocks adds to them.
LEMMA ArenaFacts ==
  ASSUME TypeOK, Accounts, NEW a \in Arenas
  PROVE /\ top[a] \in Nat /\ freed[a] \in Nat /\ value[a] \in Nat
        /\ IsFiniteSet(out[a])
        /\ Cardinality(out[a]) \in Nat
        /\ top[a] = freed[a] + value[a] + Cardinality(out[a])
        /\ \A b \in out[a] : /\ b \in Nat /\ b < top[a]
                             /\ Cardinality(out[a]) >= 1
                             /\ IsFiniteSet(out[a] \ {b})
                             /\ Cardinality(out[a] \ {b}) = Cardinality(out[a]) - 1
        /\ a \notin used => freed[a] = 0 /\ value[a] = 0 /\ out[a] = {}
<1>1. top[a] \in Nat /\ freed[a] \in Nat /\ value[a] \in Nat
  BY CapacityAssumption DEF TypeOK
<1>2. IsFiniteSet(0 .. top[a] - 1)
  <2>1. top[a] - 1 \in Int
    BY <1>1
  <2> QED BY <2>1, FS_Interval
<1>3. IsFiniteSet(out[a])
  BY <1>2, FS_Subset DEF Accounts, Account
<1>4. Cardinality(out[a]) \in Nat
  BY <1>3, FS_CardinalityType
<1>5. top[a] = freed[a] + value[a] + Cardinality(out[a])
  BY DEF Accounts, Account
<1>6. ASSUME NEW b \in out[a]
      PROVE /\ b \in Nat /\ b < top[a]
            /\ Cardinality(out[a]) >= 1
            /\ IsFiniteSet(out[a] \ {b})
            /\ Cardinality(out[a] \ {b}) = Cardinality(out[a]) - 1
  <2>1. b \in 0 .. top[a] - 1
    BY DEF Accounts, Account
  <2>2. /\ IsFiniteSet(out[a] \ {b})
        /\ Cardinality(out[a] \ {b}) = Cardinality(out[a]) - 1
    BY <1>3, FS_RemoveElement
  <2>3. Cardinality(out[a] \ {b}) \in Nat
    BY <2>2, FS_CardinalityType
  <2> QED BY <1>1, <1>4, <2>1, <2>2, <2>3
<1>7. ASSUME a \notin used PROVE freed[a] = 0 /\ value[a] = 0 /\ out[a] = {}
  <2>1. top[a] = 0
    BY <1>7 DEF Accounts, Account
  <2>2. freed[a] = 0 /\ value[a] = 0 /\ Cardinality(out[a]) = 0
    BY <2>1, <1>1, <1>4, <1>5
  <2> QED BY <2>2, <1>3, FS_EmptySet
<1> QED BY <1>1, <1>3, <1>4, <1>5, <1>6, <1>7

\* Blocks that come back never make the numbers of an arena exceed its capacity.
LEMMA AddFreedType ==
  ASSUME TypeOK, NEW a \in Arenas, NEW n \in Nat, AddFreed(a, n),
         freed[a] + n <= top[a]
  PROVE /\ top' \in [Arenas -> 0 .. Capacity]
        /\ freed' \in [Arenas -> 0 .. Capacity]
        /\ used' \subseteq Arenas
<1>1. /\ top \in [Arenas -> 0 .. Capacity] /\ freed \in [Arenas -> 0 .. Capacity]
      /\ used \subseteq Arenas
  BY DEF TypeOK
<1>2. freed[a] + n \in 0 .. Capacity /\ 0 \in 0 .. Capacity
  BY <1>1, CapacityAssumption
<1> QED BY <1>1, <1>2 DEF AddFreed

\* The empty list is a list.
LEMMA EmptySeqFacts == <<>> \in Seq(Arenas)
OBVIOUS

\* A retire that returns leaves its locals as they were before it started.
LEMMA ReturnType ==
  ASSUME TypeOK, NEW t \in Threads, Return(t)
  PROVE /\ pc' \in [Threads -> RetirerPcs]
        /\ arena' \in [Threads -> Ptr]
        /\ \A u \in Threads : pc'[u] # "idle" => arena'[u] # Null
        /\ block' \in [Threads -> Blocks]
        /\ seen' \in [Threads -> Word]
        /\ seenRoot' \in [Threads -> Ptr]
<1>1. 0 \in Blocks /\ 0 \in 0 .. Capacity
  BY CapacityAssumption DEF Blocks
<1>2. [value |-> 0, retired |-> FALSE] \in Word
  BY <1>1 DEF Word
<1> QED BY <1>1, <1>2, PtrFacts DEF TypeOK, Return, RetirerPcs

\* Every step keeps the types; the numbers stay in range because they add up.
LEMMA TypeStep ==
  ASSUME TypeOK, Control, Accounts, Holders, ListsIntact, [Next]_vars
  PROVE TypeOK'
<1>1. ASSUME NEW a \in Arenas, Allocate(a) PROVE TypeOK'
  BY <1>1, CapacityAssumption DEF TypeOK, Allocate, Blocks
<1>2. ASSUME NEW a \in Arenas, AllocateNew(a) PROVE TypeOK'
  <2>1. 0 \in Blocks /\ {0} \in SUBSET Blocks /\ 1 \in 0 .. Capacity /\ 0 \in 0 .. Capacity
    BY CapacityAssumption DEF Blocks
  <2> QED BY <1>2, <2>1, PtrFacts, FlagAssumption DEF TypeOK, AllocateNew
<1>3. ASSUME NEW a \in Arenas, NEW b \in Blocks, Deallocate(a, b) PROVE TypeOK'
  <2>1. /\ top' \in [Arenas -> 0 .. Capacity]
        /\ freed' \in [Arenas -> 0 .. Capacity]
        /\ used' \subseteq Arenas
    <3>1. Cardinality(out[a]) >= 1
      BY <1>3, ArenaFacts DEF Deallocate, Held
    <3>2. freed[a] + 1 <= top[a]
      BY <3>1, ArenaFacts
    <3>3. AddFreed(a, 1)
      BY <1>3 DEF Deallocate
    <3> QED BY <3>2, <3>3, AddFreedType
  <2>2. out' \in [Arenas -> SUBSET Blocks]
    BY <1>3 DEF TypeOK, Deallocate
  <2> QED BY <1>3, <2>1, <2>2 DEF TypeOK, Deallocate
<1>4. ASSUME NEW t \in Threads, NEW a \in Arenas, NEW b \in Blocks,
            StartRetire(t, a, b)
     PROVE TypeOK'
  BY <1>4, NullAssumption DEF TypeOK, StartRetire, Ptr, RetirerPcs
<1>5. ASSUME NEW t \in Threads, RetireDataLoad(t) PROVE TypeOK'
  <2>1. CurrentWord(arena[t]) \in Word
    BY <1>5 DEF TypeOK, RetireDataLoad, Word, CurrentWord, Ptr
  <2> QED BY <1>5, <2>1 DEF TypeOK, RetireDataLoad, RetirerPcs
<1>6. ASSUME NEW t \in Threads, RetireDataCas(t) PROVE TypeOK'
  <2> DEFINE a == arena[t]
  <2>0. a \in Arenas
    BY <1>6, PtrFacts DEF TypeOK, RetireDataCas
  <2>1. Cardinality(out[a]) >= 1
    BY <1>6, <2>0, ArenaFacts DEF RetireDataCas, Holders, Freeing
  <2>2. value' \in [Arenas -> 0 .. Capacity]
    <3>1. value[a] + 1 <= top[a] /\ value[a] \in Nat
      BY <2>0, <2>1, ArenaFacts
    <3>2. value[a] + 1 \in 0 .. Capacity
      BY <2>0, <3>1, CapacityAssumption DEF TypeOK
    <3> QED BY <1>6, <2>0, <3>2 DEF TypeOK, RetireDataCas
  <2>3. /\ flag' \in [Arenas -> BOOLEAN]
        /\ out' \in [Arenas -> SUBSET Blocks]
    BY <1>6 DEF TypeOK, RetireDataCas
  <2>4. /\ pc' \in [Threads -> RetirerPcs]
        /\ arena' \in [Threads -> Ptr]
        /\ \A u \in Threads : pc'[u] # "idle" => arena'[u] # Null
        /\ block' \in [Threads -> Blocks]
        /\ seen' \in [Threads -> Word]
        /\ seenRoot' \in [Threads -> Ptr]
    <3>1. CASE seen[t].retired
      BY <1>6, <3>1, ReturnType DEF TypeOK, RetireDataCas, AfterRetireData
    <3>2. CASE ~ seen[t].retired
      BY <1>6, <3>2, ZenonT(40) DEF TypeOK, RetireDataCas, AfterRetireData, RetirerPcs
    <3> QED BY <3>1, <3>2
  <2> QED BY <1>6, <2>2, <2>3, <2>4 DEF TypeOK, RetireDataCas
<1>7. ASSUME NEW t \in Threads, RetireDataRetry(t) PROVE TypeOK'
  <2>1. CurrentWord(arena[t]) \in Word
    BY <1>7 DEF TypeOK, RetireDataRetry, Word, CurrentWord, Ptr
  <2> QED BY <1>7, <2>1 DEF TypeOK, RetireDataRetry
<1>8. ASSUME NEW t \in Threads, RetirePtrLoad(t) PROVE TypeOK'
  BY <1>8 DEF TypeOK, RetirePtrLoad, RetirerPcs
<1>9. ASSUME NEW t \in Threads, RetirePtrLink(t) PROVE TypeOK'
  BY <1>9 DEF TypeOK, RetirePtrLink, RetirerPcs
<1>10. ASSUME NEW t \in Threads, RetirePtrCas(t) PROVE TypeOK'
  <2>1. arena[t] \in Arenas
    BY <1>10, PtrFacts DEF TypeOK, RetirePtrCas
  <2>2. <<arena[t]>> \o rootSeq \in Seq(Arenas)
    BY <2>1 DEF TypeOK
  <2>3. root' \in [ptr : Ptr, retired : BOOLEAN]
    BY <1>10, <2>1, PtrFacts DEF RetirePtrCas
  <2>4. /\ pc' \in [Threads -> RetirerPcs]
        /\ arena' \in [Threads -> Ptr]
        /\ \A u \in Threads : pc'[u] # "idle" => arena'[u] # Null
        /\ block' \in [Threads -> Blocks]
        /\ seen' \in [Threads -> Word]
        /\ seenRoot' \in [Threads -> Ptr]
    BY <1>10, ReturnType DEF RetirePtrCas
  <2> QED BY <1>10, <2>2, <2>3, <2>4 DEF TypeOK, RetirePtrCas
<1>11. ASSUME NEW t \in Threads, RetirePtrRetry(t) PROVE TypeOK'
  BY <1>11 DEF TypeOK, RetirePtrRetry, RetirerPcs
<1>12. CASE ReclaimPostponed
  BY <1>12, PtrFacts, EmptySeqFacts DEF TypeOK, ReclaimPostponed, ReclaimerPcs
<1>13. CASE ReclaimLoad
  BY <1>13 DEF TypeOK, ReclaimLoad, ReclaimerPcs
<1>14. CASE ReclaimExchange
  BY <1>14, PtrFacts, EmptySeqFacts DEF TypeOK, ReclaimExchange, ReclaimerPcs
<1>15. CASE PopArena
  <2>1. claimSeq # <<>>
    BY <1>15 DEF PopArena, ListsIntact, IsList
  <2>2. Tail(claimSeq) \in Seq(Arenas)
    BY <2>1 DEF TypeOK
  <2> QED BY <1>15, <2>2 DEF TypeOK, PopArena, ReclaimerPcs, Ptr
<1>16. CASE ReclaimResetLoad
  BY <1>16 DEF TypeOK, ReclaimResetLoad, ReclaimerPcs
<1>17. CASE ReclaimResetExchange
  <2> DEFINE a == rarena
             n == value[a]
  <2>0. a \in Arenas
    BY <1>17, PtrFacts DEF TypeOK, ReclaimResetExchange
  <2>1. freed[a] + n <= top[a] /\ n \in Nat
    BY <2>0, ArenaFacts
  <2>2. /\ top' \in [Arenas -> 0 .. Capacity]
        /\ freed' \in [Arenas -> 0 .. Capacity]
        /\ used' \subseteq Arenas
    BY <1>17, <2>0, <2>1, AddFreedType DEF ReclaimResetExchange
  <2>3. value' \in [Arenas -> 0 .. Capacity] /\ flag' \in [Arenas -> BOOLEAN]
    <3>1. 0 \in 0 .. Capacity
      BY CapacityAssumption
    <3> QED BY <1>17, <3>1 DEF TypeOK, ReclaimResetExchange
  <2> QED BY <1>17, <2>2, <2>3, PtrFacts DEF TypeOK, ReclaimResetExchange, ReclaimerPcs
<1>18. CASE FinishReclaim
  BY <1>18 DEF TypeOK, FinishReclaim, ReclaimerPcs, TlaPlaces
<1>19. CASE Postpone
  BY <1>19, PtrFacts, EmptySeqFacts DEF TypeOK, Postpone, ReclaimerPcs
<1>20. CASE Exit
  BY <1>20 DEF TypeOK, Exit, TlaPlaces
<1>21. CASE Excavate
  BY <1>21 DEF TypeOK, Excavate, TlaPlaces
<1>22. CASE Adopt
  BY <1>22 DEF TypeOK, Adopt, TlaPlaces
<1>23. CASE CreateTla
  BY <1>23 DEF TypeOK, CreateTla, TlaPlaces, Ptr
<1>24. CASE UNCHANGED vars
  BY <1>24 DEF TypeOK
<1> QED
  BY <1>1, <1>2, <1>3, <1>4, <1>5, <1>6, <1>7, <1>8, <1>9, <1>10, <1>11, <1>12,
     <1>13, <1>14, <1>15, <1>16, <1>17, <1>18, <1>19, <1>20, <1>21, <1>22,
     <1>23, <1>24
  DEF Next, Retirer, Reclaimer

\* Every step keeps the TLA's place and its holder's program counter in agreement.
LEMMA ControlStep ==
  ASSUME TypeOK, Control, ListsIntact, [Next]_vars PROVE Control'
<1> USE DEF Control
<1>1. ASSUME NEW a \in Arenas, Allocate(a) \/ AllocateNew(a) PROVE Control'
  BY <1>1 DEF Allocate, AllocateNew, OwnerIdle
<1>2. ASSUME NEW a \in Arenas, NEW b \in Blocks, Deallocate(a, b) PROVE Control'
  BY <1>2 DEF Deallocate, OwnerIdle
<1>3. ASSUME NEW t \in Threads, NEW a \in Arenas, NEW b \in Blocks,
             StartRetire(t, a, b)
      PROVE Control'
  BY <1>3 DEF StartRetire
<1>4. ASSUME NEW t \in Threads, Retirer(t) PROVE Control'
  BY <1>4 DEF Retirer, RetireDataLoad, RetireDataCas, RetireDataRetry,
              RetirePtrLoad, RetirePtrLink, RetirePtrCas, RetirePtrRetry
<1>5. CASE ReclaimPostponed
  BY <1>5 DEF ReclaimPostponed
<1>12. CASE ReclaimLoad
  <2>1. postSeq = <<>>
    <3>1. Len(postSeq) \in Nat /\ (postSeq # <<>> => postSeq[1] \in Arenas)
      BY DEF TypeOK
    <3> QED BY <1>12, <3>1, NullAssumption DEF ReclaimLoad, ListsIntact, IsList
  <2> QED BY <1>12, <2>1 DEF ReclaimLoad
<1>13. CASE ReclaimExchange
  BY <1>13 DEF ReclaimExchange
<1>6. CASE PopArena \/ ReclaimResetLoad
  BY <1>6 DEF PopArena, ReclaimResetLoad
<1>7. CASE ReclaimResetExchange
  BY <1>7 DEF ReclaimResetExchange
<1>8. CASE FinishReclaim
  <2>1. claimSeq = <<>>
    <3>1. Len(claimSeq) \in Nat /\ (claimSeq # <<>> => claimSeq[1] \in Arenas)
      BY DEF TypeOK
    <3> QED BY <1>8, <3>1, NullAssumption DEF FinishReclaim, ListsIntact, IsList
  <2> QED BY <1>8, <2>1 DEF FinishReclaim
<1>9. CASE Postpone
  BY <1>9 DEF Postpone
<1>10. CASE Exit \/ Excavate \/ Adopt \/ CreateTla
  BY <1>10 DEF Exit, Excavate, Adopt, CreateTla, OwnerIdle
<1>11. CASE UNCHANGED vars
  BY <1>11
<1> QED
  BY <1>1, <1>2, <1>3, <1>4, <1>5, <1>6, <1>7, <1>8, <1>9, <1>10, <1>11,
     <1>12, <1>13
  DEF Next, Reclaimer

\* An action that touches the numbers of one arena only.
LEMMA OneAccount ==
  ASSUME Accounts, NEW a \in Arenas, Account(a)',
         \A x \in Arenas \ {a} :
           /\ top'[x] = top[x] /\ freed'[x] = freed[x] /\ value'[x] = value[x]
           /\ flag'[x] = flag[x] /\ out'[x] = out[x] /\ (x \in used => x \in used')
  PROVE Accounts'
BY DEF Accounts, Account

\* AddFreed keeps the account of an arena that gains n freed blocks.
LEMMA AddFreedAccount ==
  ASSUME TypeOK, Accounts, NEW a \in Arenas, NEW n \in Nat, AddFreed(a, n),
         IsFiniteSet(out'[a]), value'[a] = 0 \/ value'[a] = value[a],
         n + value'[a] + Cardinality(out'[a]) = value[a] + Cardinality(out[a]),
         out'[a] \subseteq out[a], value'[a] > 0 => flag'[a], a \in used
  PROVE /\ Account(a)'
        /\ \A x \in Arenas \ {a} :
             top'[x] = top[x] /\ freed'[x] = freed[x] /\ (x \in used => x \in used')
<1>1. /\ top \in [Arenas -> 0 .. Capacity] /\ freed \in [Arenas -> 0 .. Capacity]
      /\ value'[a] \in Nat
  <2>1. value[a] \in Nat
    BY ArenaFacts
  <2> QED BY <2>1 DEF TypeOK
<1>2. Cardinality(out'[a]) \in Nat
  BY FS_CardinalityType
<1>5. /\ top[a] \in Nat /\ freed[a] \in Nat /\ value[a] \in Nat
      /\ Cardinality(out[a]) \in Nat
      /\ top[a] = freed[a] + value[a] + Cardinality(out[a])
  BY ArenaFacts
<1>6. /\ top[a] = (freed[a] + n) + value'[a] + Cardinality(out'[a])
      /\ freed[a] + n = top[a] => value'[a] = 0 /\ Cardinality(out'[a]) = 0
  <2>1. PICK t \in Nat, f \in Nat, v \in Nat, c \in Nat, w \in Nat, d \in Nat :
          /\ t = top[a] /\ f = freed[a] /\ v = value[a] /\ c = Cardinality(out[a])
          /\ w = value'[a] /\ d = Cardinality(out'[a])
    BY <1>1, <1>2, <1>5
  <2>2. t = f + v + c /\ n + w + d = v + c
    BY <1>5, <2>1
  <2>3. t = (f + n) + w + d
    BY <2>2
  <2>4. f + n = t => w = 0 /\ d = 0
    BY <2>3
  <2> QED BY <2>1, <2>3, <2>4
<1>3. CASE freed[a] + n = top[a]
  <2>1. top'[a] = 0 /\ freed'[a] = 0
    BY <1>1, <1>3 DEF AddFreed
  <2>2. value'[a] = 0 /\ Cardinality(out'[a]) = 0
    BY <1>3, <1>6
  <2>3. out'[a] = {}
    BY <2>2, FS_EmptySet
  <2> QED BY <1>1, <1>3, <2>1, <2>2, <2>3 DEF AddFreed, Account
<1>4. CASE freed[a] + n # top[a]
  <2>1. top' = top /\ freed' = [freed EXCEPT ![a] = freed[a] + n] /\ used' = used
    BY <1>4 DEF AddFreed
  <2>2. top'[a] = top[a] /\ freed'[a] = freed[a] + n
    BY <1>1, <2>1
  <2>3. top'[a] = freed'[a] + value'[a] + Cardinality(out'[a])
    BY <1>6, <2>2
  <2> QED BY <1>1, <2>1, <2>2, <2>3 DEF Account, Accounts
<1> QED BY <1>3, <1>4

\* Every step keeps the books of every arena: a block is out, retired or freed.
LEMMA AccountsStep ==
  ASSUME TypeOK, Control, Accounts, Holders, Waiting, [Next]_vars PROVE Accounts'
<1>1. ASSUME NEW a \in Arenas, Allocate(a) PROVE Accounts'
  <2>1. Cardinality(out[a] \cup {top[a]}) = Cardinality(out[a]) + 1
    <3>1. top[a] \in Nat /\ out[a] \subseteq 0 .. top[a] - 1
      BY ArenaFacts DEF Accounts, Account
    <3>2. top[a] \notin out[a] /\ IsFiniteSet(out[a])
      BY <3>1, ArenaFacts
    <3> QED BY <3>2, FS_AddElement
  <2>2. /\ top'[a] = top[a] + 1 /\ out'[a] = out[a] \cup {top[a]}
        /\ UNCHANGED <<freed, value, flag, used>> /\ a \in used
        /\ \A x \in Arenas \ {a} : top'[x] = top[x] /\ out'[x] = out[x]
    BY <1>1 DEF Allocate, TypeOK
  <2>3. Account(a)'
    BY <2>1, <2>2, ArenaFacts DEF Accounts, Account
  <2> QED BY <2>2, <2>3, OneAccount
<1>2. ASSUME NEW a \in Arenas, AllocateNew(a) PROVE Accounts'
  <2>1. Cardinality({0}) = 1
    BY FS_Singleton
  <2>2. /\ top'[a] = 1 /\ out'[a] = {0} /\ freed'[a] = 0 /\ value'[a] = 0
        /\ used' = used \cup {a}
        /\ \A x \in Arenas \ {a} :
             /\ top'[x] = top[x] /\ out'[x] = out[x] /\ freed'[x] = freed[x]
             /\ value'[x] = value[x] /\ flag'[x] = flag[x]
    BY <1>2 DEF AllocateNew, TypeOK
  <2>3. Account(a)'
    BY <2>1, <2>2 DEF Account
  <2> QED BY <2>2, <2>3, OneAccount
<1>3. ASSUME NEW a \in Arenas, NEW b \in Blocks, Deallocate(a, b) PROVE Accounts'
  <2>1. /\ out'[a] = out[a] \ {b} /\ UNCHANGED <<value, flag>> /\ a \in used
        /\ b \in out[a] /\ AddFreed(a, 1)
        /\ \A x \in Arenas \ {a} : out'[x] = out[x]
    BY <1>3 DEF Deallocate, Held, TypeOK
  <2>2. /\ IsFiniteSet(out'[a])
        /\ 1 + value'[a] + Cardinality(out'[a]) = value[a] + Cardinality(out[a])
    <3>1. /\ Cardinality(out'[a]) = Cardinality(out[a]) - 1 /\ IsFiniteSet(out'[a])
          /\ Cardinality(out[a]) \in Nat /\ value[a] \in Nat
      BY <2>1, ArenaFacts
    <3> QED BY <2>1, <3>1
  <2>4. value'[a] > 0 => flag'[a]
    BY <2>1 DEF Accounts, Account
  <2>3. /\ Account(a)'
        /\ \A x \in Arenas \ {a} :
             top'[x] = top[x] /\ freed'[x] = freed[x] /\ (x \in used => x \in used')
    BY <2>1, <2>2, <2>4, AddFreedAccount
  <2>5. \A x \in Arenas \ {a} :
           /\ top'[x] = top[x] /\ freed'[x] = freed[x] /\ value'[x] = value[x]
           /\ flag'[x] = flag[x] /\ out'[x] = out[x] /\ (x \in used => x \in used')
    BY <2>1, <2>3
  <2> QED BY <2>3, <2>5, OneAccount
<1>4. ASSUME NEW t \in Threads, RetireDataCas(t) PROVE Accounts'
  <2>0. PICK a \in Arenas : a = arena[t]
    BY <1>4, PtrFacts DEF RetireDataCas, TypeOK
  <2>1. block[t] \in out[a]
    BY <1>4, <2>0 DEF RetireDataCas, Holders, Freeing
  <2>2. /\ value'[a] = value[a] + 1 /\ flag'[a] /\ out'[a] = out[a] \ {block[t]}
        /\ UNCHANGED <<top, freed, used>>
        /\ \A x \in Arenas \ {a} :
             value'[x] = value[x] /\ flag'[x] = flag[x] /\ out'[x] = out[x]
    BY <1>4, <2>0, <2>1 DEF RetireDataCas, TypeOK
  <2>3. Account(a)'
    <3>1. a \in used
      BY <2>1, ArenaFacts
    <3>2. Cardinality(out'[a]) = Cardinality(out[a]) - 1
      BY <2>1, <2>2, ArenaFacts
    <3>3. top'[a] = freed'[a] + value'[a] + Cardinality(out'[a])
      BY <2>2, <3>2, ArenaFacts
    <3>4. out'[a] \subseteq 0 .. top'[a] - 1
      BY <2>2 DEF Accounts, Account
    <3> QED BY <2>2, <3>1, <3>3, <3>4 DEF Account
  <2> QED BY <2>1, <2>2, <2>3, OneAccount
<1>5. CASE ReclaimResetExchange
  <2>0. PICK a \in Arenas : a = rarena
    BY <1>5, PtrFacts DEF ReclaimResetExchange, TypeOK
  <2>1. value[a] > 0
    BY <1>5, <2>0 DEF ReclaimResetExchange, Waiting
  <2>2. a \in used
    BY <2>1, ArenaFacts
  <2>3. /\ value'[a] = 0 /\ UNCHANGED out /\ AddFreed(a, value[a])
        /\ \A x \in Arenas \ {a} : value'[x] = value[x] /\ flag'[x] = flag[x]
    BY <1>5, <2>0, <2>1 DEF ReclaimResetExchange, TypeOK
  <2>4. /\ IsFiniteSet(out'[a]) /\ value[a] \in Nat
        /\ value[a] + value'[a] + Cardinality(out'[a]) = value[a] + Cardinality(out[a])
    BY <2>1, <2>3, ArenaFacts
  <2>5. /\ Account(a)'
        /\ \A x \in Arenas \ {a} :
             top'[x] = top[x] /\ freed'[x] = freed[x] /\ (x \in used => x \in used')
    BY <2>1, <2>2, <2>3, <2>4, AddFreedAccount
  <2> QED BY <2>1, <2>3, <2>5, OneAccount
<1>6. CASE UNCHANGED <<used, top, freed, value, flag, out>>
  BY <1>6 DEF Accounts, Account
<1>7. ASSUME NEW t \in Threads, Retirer(t), ~ RetireDataCas(t)
      PROVE UNCHANGED <<used, top, freed, value, flag, out>>
  BY <1>7 DEF Retirer, RetireDataLoad, RetireDataRetry,
              RetirePtrLoad, RetirePtrLink, RetirePtrCas, RetirePtrRetry
<1>8. ASSUME NEW t \in Threads, NEW a \in Arenas, NEW b \in Blocks,
             StartRetire(t, a, b)
      PROVE UNCHANGED <<used, top, freed, value, flag, out>>
  BY <1>8 DEF StartRetire
<1>9. ASSUME Reclaimer \/ Postpone, ~ ReclaimResetExchange
      PROVE UNCHANGED <<used, top, freed, value, flag, out>>
  BY <1>9 DEF Reclaimer, ReclaimPostponed, ReclaimLoad, ReclaimExchange,
              PopArena, ReclaimResetLoad, FinishReclaim, Postpone
<1>10. ASSUME Exit \/ Excavate \/ Adopt \/ CreateTla \/ UNCHANGED vars
       PROVE UNCHANGED <<used, top, freed, value, flag, out>>
  BY <1>10 DEF Exit, Excavate, Adopt, CreateTla
<1> QED
  BY <1>1, <1>2, <1>3, <1>4, <1>5, <1>6, <1>7, <1>8, <1>9, <1>10 DEF Next

\* Every step leaves a block that is being freed with one thread.
LEMMA HoldersStep ==
  ASSUME TypeOK, Control, Accounts, Holders, Waiting, [Next]_vars PROVE Holders'
<1> USE DEF Holders
<1>1. ASSUME NEW a \in Arenas, Allocate(a) PROVE Holders'
  <2>1. UNCHANGED <<pc, arena, block>> /\ \A x \in Arenas : out[x] \subseteq out'[x]
    BY <1>1 DEF Allocate, TypeOK
  <2> QED BY <2>1, PtrFacts DEF TypeOK, Freeing
<1>2. ASSUME NEW a \in Arenas, AllocateNew(a) PROVE Holders'
  <2>1. out[a] = {}
    BY <1>2, ArenaFacts DEF AllocateNew
  <2>2. UNCHANGED <<pc, arena, block>> /\ \A x \in Arenas : out[x] \subseteq out'[x]
    BY <1>2, <2>1 DEF AllocateNew, TypeOK
  <2> QED BY <2>2, PtrFacts DEF TypeOK, Freeing
<1>3. ASSUME NEW a \in Arenas, NEW b \in Blocks, Deallocate(a, b) PROVE Holders'
  <2>1. /\ UNCHANGED <<pc, arena, block>>
        /\ \A x \in Arenas : out'[x] = IF x = a THEN out[x] \ {b} ELSE out[x]
    BY <1>3 DEF Deallocate, TypeOK
  <2> QED BY <1>3, <2>1, PtrFacts DEF Deallocate, Held, TypeOK, Freeing
<1>4. ASSUME NEW t \in Threads, NEW a \in Arenas, NEW b \in Blocks,
             StartRetire(t, a, b)
      PROVE Holders'
  BY <1>4 DEF StartRetire, Held, TypeOK, Freeing
<1>5. ASSUME NEW t \in Threads, RetireDataLoad(t) \/ RetireDataRetry(t) PROVE Holders'
  BY <1>5 DEF RetireDataLoad, RetireDataRetry, TypeOK, Freeing
<1>6. ASSUME NEW t \in Threads, RetireDataCas(t) PROVE Holders'
  <2>1. /\ \A x \in Arenas : out'[x] = IF x = arena[t] THEN out[x] \ {block[t]} ELSE out[x]
        /\ pc'[t] \notin Freeing
        /\ \A u \in Threads \ {t} : pc'[u] = pc[u] /\ arena'[u] = arena[u] /\ block'[u] = block[u]
    BY <1>6, ZenonT(40) DEF RetireDataCas, AfterRetireData, Return, TypeOK, Freeing
  <2>2. pc[t] \in Freeing
    BY <1>6 DEF RetireDataCas, Freeing
  <2>3. ASSUME NEW u \in Threads, pc'[u] \in Freeing
        PROVE /\ u # t /\ pc[u] \in Freeing /\ arena[u] \in Arenas
              /\ arena'[u] = arena[u] /\ block'[u] = block[u]
    BY <2>1, <2>3, PtrFacts DEF TypeOK, Freeing
  <2>4. ASSUME NEW u \in Threads, pc'[u] \in Freeing
        PROVE block'[u] \in out'[arena'[u]]
    <3>1. /\ u # t /\ pc[u] \in Freeing /\ arena[u] \in Arenas
          /\ arena'[u] = arena[u] /\ block'[u] = block[u]
      BY <2>3, <2>4
    <3>2. block[u] \in out[arena[u]]
      BY <3>1
    <3>3. ~ (arena[u] = arena[t] /\ block[u] = block[t])
      BY <3>1, <2>2
    <3>4. out'[arena[u]] = IF arena[u] = arena[t] THEN out[arena[u]] \ {block[t]}
                                                  ELSE out[arena[u]]
      BY <2>1, <3>1
    <3> QED BY <3>1, <3>2, <3>3, <3>4
  <2>5. ASSUME NEW u \in Threads, pc'[u] \in Freeing,
               NEW v \in Threads, pc'[v] \in Freeing,
               arena'[v] = arena'[u], block'[v] = block'[u]
        PROVE v = u
    BY <2>3, <2>5
  <2> QED BY <2>4, <2>5
<1>7. ASSUME NEW t \in Threads,
             RetirePtrLoad(t) \/ RetirePtrLink(t) \/ RetirePtrCas(t) \/ RetirePtrRetry(t)
      PROVE Holders'
  <2>1. /\ UNCHANGED out
        /\ pc'[t] \notin Freeing
        /\ \A u \in Threads \ {t} : pc'[u] = pc[u] /\ arena'[u] = arena[u] /\ block'[u] = block[u]
    BY <1>7 DEF RetirePtrLoad, RetirePtrLink, RetirePtrCas, RetirePtrRetry, Return,
                TypeOK, Freeing
  <2> QED BY <2>1
<1>8. CASE UNCHANGED <<pc, arena, block, out>>
  BY <1>8
<1>9. ASSUME Reclaimer \/ Postpone PROVE UNCHANGED <<pc, arena, block, out>>
  BY <1>9 DEF Reclaimer, ReclaimPostponed, ReclaimLoad, ReclaimExchange, PopArena,
              ReclaimResetLoad, ReclaimResetExchange, FinishReclaim, Postpone
<1>10. ASSUME Exit \/ Excavate \/ Adopt \/ CreateTla \/ UNCHANGED vars
       PROVE UNCHANGED <<pc, arena, block, out>>
  BY <1>10 DEF Exit, Excavate, Adopt, CreateTla
<1> QED
  BY <1>1, <1>2, <1>3, <1>4, <1>5, <1>6, <1>7, <1>8, <1>9, <1>10
  DEF Next, Retirer

-----------------------------------------------------------------------------
(* The lists.                                                              *)

\* What is on a list is an arena.
LEMMA ElemsType ==
  ASSUME NEW s \in Seq(Arenas) PROVE Elems(s) \subseteq Arenas
BY DEF Elems

\* Null pointers and empty lists go together.
LEMMA ListFacts ==
  ASSUME NEW p, NEW s \in Seq(Arenas), IsList(p, s)
  PROVE /\ p = Null <=> s = <<>>
        /\ p # Null => /\ Len(s) >= 1 /\ p = s[1] /\ p \in Elems(s)
                       /\ next[p] = IF 1 < Len(s) THEN s[2] ELSE Null
<1>1. Len(s) \in Nat /\ (s # <<>> => Len(s) >= 1 /\ s[1] \in Arenas)
  OBVIOUS
<1>2. CASE s = <<>>
  BY <1>2 DEF IsList
<1>3. CASE s # <<>>
  <2>1. p = s[1] /\ p \in Arenas /\ 1 \in 1 .. Len(s)
    BY <1>1, <1>3 DEF IsList
  <2>2. next[p] = IF 1 < Len(s) THEN s[2] ELSE Null
    BY <2>1 DEF IsList
  <2>3. p \in Elems(s)
    BY <2>1 DEF Elems
  <2> QED BY <1>1, <1>3, <2>1, <2>2, <2>3, NullAssumption
<1> QED BY <1>2, <1>3

\* What is on a list is what was on it, when no next field of it is written.
LEMMA ListKept ==
  ASSUME NEW p, NEW s \in Seq(Arenas), IsList(p, s),
         \A a \in Elems(s) : next'[a] = next[a]
  PROVE /\ p = IF s = <<>> THEN Null ELSE s[1]
        /\ \A i \in 1 .. Len(s) :
             next'[s[i]] = IF i < Len(s) THEN s[i + 1] ELSE Null
BY DEF IsList, Elems

\* Steps that write no next field of a queued arena keep the lists.
LEMMA AllListsKept ==
  ASSUME TypeOK, ListsIntact, UNCHANGED <<root, rlist, postponed, listVars>>,
         \A x \in Elems(rootSeq) \cup Elems(claimSeq) \cup Elems(postSeq) :
           next'[x] = next[x]
  PROVE ListsIntact'
<1>1. rootSeq \in Seq(Arenas) /\ claimSeq \in Seq(Arenas) /\ postSeq \in Seq(Arenas)
  BY DEF TypeOK
<1>2. IsList(root.ptr, rootSeq)'
  BY <1>1, ListKept DEF ListsIntact, IsList
<1>3. IsList(rlist, claimSeq)'
  BY <1>1, ListKept, SMTT(20) DEF ListsIntact, IsList
<1>4. IsList(postponed, postSeq)'
  BY <1>1, ListKept, SMTT(20) DEF ListsIntact, IsList
<1> QED BY <1>2, <1>3, <1>4 DEF ListsIntact

\* Pushing in front.
LEMMA ConsFacts ==
  ASSUME NEW a \in Arenas, NEW s \in Seq(Arenas)
  PROVE /\ <<a>> \o s \in Seq(Arenas)
        /\ Len(<<a>> \o s) = Len(s) + 1
        /\ (<<a>> \o s)[1] = a
        /\ \A i \in 2 .. Len(s) + 1 : (<<a>> \o s)[i] = s[i - 1]
        /\ Elems(<<a>> \o s) = Elems(s) \cup {a}
<1>1. /\ <<a>> \o s \in Seq(Arenas)
      /\ Len(<<a>> \o s) = Len(s) + 1
      /\ (<<a>> \o s)[1] = a
      /\ \A i \in 2 .. Len(s) + 1 : (<<a>> \o s)[i] = s[i - 1]
      /\ \A i \in 1 .. Len(s) : (<<a>> \o s)[i + 1] = s[i]
      /\ Len(s) \in Nat
  OBVIOUS
<1>2. Elems(<<a>> \o s) \subseteq Elems(s) \cup {a}
  BY <1>1 DEF Elems
<1>3. Elems(s) \cup {a} \subseteq Elems(<<a>> \o s)
  <2>1. ASSUME NEW i \in 1 .. Len(s) PROVE s[i] \in Elems(<<a>> \o s)
    <3>1. i + 1 \in 1 .. Len(<<a>> \o s) /\ (<<a>> \o s)[i + 1] = s[i]
      BY <1>1
    <3> QED BY <3>1 DEF Elems
  <2>2. a \in Elems(<<a>> \o s)
    BY <1>1 DEF Elems
  <2> QED BY <2>1, <2>2 DEF Elems
<1> QED BY <1>1, <1>2, <1>3

\* Popping the first.
LEMMA TailFacts ==
  ASSUME NEW s \in Seq(Arenas), s # <<>>
  PROVE /\ Tail(s) \in Seq(Arenas)
        /\ Len(Tail(s)) = Len(s) - 1
        /\ Len(s) \in Nat /\ Len(s) >= 1
        /\ \A i \in 1 .. Len(s) - 1 : Tail(s)[i] = s[i + 1]
        /\ s[1] \in Arenas
        /\ Elems(s) = Elems(Tail(s)) \cup {s[1]}
<1>1. /\ Tail(s) \in Seq(Arenas)
      /\ Len(Tail(s)) = Len(s) - 1
      /\ Len(s) \in Nat /\ Len(s) >= 1
      /\ \A i \in 1 .. Len(s) - 1 : Tail(s)[i] = s[i + 1]
      /\ s[1] \in Arenas
  OBVIOUS
<1>2. Elems(s) \subseteq Elems(Tail(s)) \cup {s[1]}
  <2> SUFFICES ASSUME NEW i \in 1 .. Len(s), i # 1 PROVE s[i] \in Elems(Tail(s))
    BY DEF Elems
  <2>1. i - 1 \in 1 .. Len(s) - 1 /\ Tail(s)[i - 1] = s[i]
    BY <1>1
  <2> QED BY <1>1, <2>1 DEF Elems
<1>3. Elems(Tail(s)) \cup {s[1]} \subseteq Elems(s)
  BY <1>1 DEF Elems
<1> QED BY <1>1, <1>2, <1>3

\* The part of the invariant that is about lists.
Lists == Pushers /\ Waiting /\ QueuedOnce /\ ListsIntact /\ FlagMeansQueued

\* Steps that move nothing the lists depend on.
LEMMA ListsKept ==
  ASSUME TypeOK, Lists,
         UNCHANGED <<wordVars, rootVars, rlist, rarena, listVars>>,
         rpc' = rpc \/ {rpc, rpc'} \in {{"check", "reset"}, {"idle", "exchange"}, {"pop", "idle"}},
         \A t \in Threads :
           /\ pc'[t] \in Pushing <=> pc[t] \in Pushing
           /\ pc[t] \in Pushing => arena'[t] = arena[t]
           /\ pc'[t] = "cas_root" => pc[t] = "cas_root" /\ seenRoot'[t] = seenRoot[t]
  PROVE Lists'
<1>1. rpc' \in {"check", "reset"} <=> rpc \in {"check", "reset"}
  OBVIOUS
<1>2. \A a \in Arenas : /\ InReclaim(a)' <=> InReclaim(a)
                        /\ Pusher(a)' <=> Pusher(a)
                        /\ Queued(a)' <=> Queued(a)
  BY <1>1 DEF InReclaim, Pusher, Queued, Elems
<1>3. Pushers'
  BY DEF Lists, Pushers
<1>4. Waiting'
  BY <1>1, <1>2 DEF Lists, Waiting
<1>5. QueuedOnce'
  <2>1. OnOneList'
    BY DEF Lists, QueuedOnce, OnOneList
  <2>2. OnePusher'
    BY DEF Lists, QueuedOnce, OnePusher
  <2> QED BY <1>2, <2>1, <2>2 DEF Lists, QueuedOnce
<1>6. ListsIntact'
  BY DEF Lists, ListsIntact, IsList
<1>7. FlagMeansQueued'
  BY <1>2 DEF Lists, FlagMeansQueued
<1> QED BY <1>3, <1>4, <1>5, <1>6, <1>7 DEF Lists

\* The steps that read shared words or move blocks in and out of clients' hands.
LEMMA ListsOfOthers ==
  ASSUME TypeOK, Lists,
         \/ \E a \in Arenas : Allocate(a) \/ \E b \in Blocks : Deallocate(a, b)
         \/ \E t \in Threads, a \in Arenas, b \in Blocks : StartRetire(t, a, b)
         \/ \E t \in Threads : RetireDataLoad(t) \/ RetireDataRetry(t)
                               \/ RetirePtrLoad(t) \/ RetirePtrRetry(t)
         \/ ReclaimLoad \/ ReclaimResetLoad \/ FinishReclaim
         \/ Exit \/ Excavate \/ Adopt \/ UNCHANGED vars
  PROVE Lists'
<1>1. ASSUME NEW a \in Arenas, Allocate(a) PROVE Lists'
  BY <1>1, ListsKept DEF Allocate
<1>2. ASSUME NEW a \in Arenas, NEW b \in Blocks, Deallocate(a, b) PROVE Lists'
  BY <1>2, ListsKept DEF Deallocate
<1>3. ASSUME NEW t \in Threads, NEW a \in Arenas, NEW b \in Blocks,
             StartRetire(t, a, b)
      PROVE Lists'
  <2>1. \A u \in Threads :
           /\ pc'[u] \in Pushing <=> pc[u] \in Pushing
           /\ pc[u] \in Pushing => arena'[u] = arena[u]
           /\ pc'[u] = "cas_root" => pc[u] = "cas_root" /\ seenRoot'[u] = seenRoot[u]
    BY <1>3 DEF StartRetire, TypeOK, Pushing
  <2> QED BY <1>3, <2>1, ListsKept DEF StartRetire
<1>4. ASSUME NEW t \in Threads,
             RetireDataLoad(t) \/ RetireDataRetry(t) \/ RetirePtrLoad(t) \/ RetirePtrRetry(t)
      PROVE Lists'
  <2>1. \A u \in Threads :
           /\ pc'[u] \in Pushing <=> pc[u] \in Pushing
           /\ pc[u] \in Pushing => arena'[u] = arena[u]
           /\ pc'[u] = "cas_root" => pc[u] = "cas_root" /\ seenRoot'[u] = seenRoot[u]
    BY <1>4 DEF RetireDataLoad, RetireDataRetry, RetirePtrLoad, RetirePtrRetry,
                TypeOK, Pushing
  <2>2. UNCHANGED <<wordVars, rootVars, reclaimerVars, listVars>>
    BY <1>4 DEF RetireDataLoad, RetireDataRetry, RetirePtrLoad, RetirePtrRetry
  <2> QED BY <2>1, <2>2, ListsKept
<1>5. CASE ReclaimLoad
  BY <1>5, ListsKept DEF ReclaimLoad
<1>6. CASE ReclaimResetLoad
  BY <1>6, ListsKept DEF ReclaimResetLoad
<1>7. CASE FinishReclaim
  BY <1>7, ListsKept DEF FinishReclaim
<1>8. CASE Exit \/ Excavate \/ Adopt \/ UNCHANGED vars
  BY <1>8, ListsKept DEF Exit, Excavate, Adopt
<1> QED BY <1>1, <1>2, <1>3, <1>4, <1>5, <1>6, <1>7, <1>8

\* A new arena is on no list, so clearing its next field breaks none.
LEMMA ListsOfAllocateNew ==
  ASSUME TypeOK, Accounts, Lists, NEW a \in Arenas, AllocateNew(a)
  PROVE Lists'
<1>1. value[a] = 0
  BY ArenaFacts DEF AllocateNew
<1>2. /\ value' = value
      /\ \A x \in Arenas \ {a} : next'[x] = next[x] /\ flag'[x] = flag[x]
      /\ flag'[a] = InitialRetired
      /\ UNCHANGED <<rpc, rlist, rarena, pc, arena, seenRoot, listVars, root, postponed>>
  BY <1>1 DEF AllocateNew, TypeOK
<1>3. ~ Queued(a) /\ ~ Pusher(a) /\ ~ InReclaim(a)
  BY <1>1 DEF Lists, Waiting, Pushers, Pusher, InReclaim
<1>4. \A x \in Arenas : /\ InReclaim(x)' <=> InReclaim(x)
                        /\ Pusher(x)' <=> Pusher(x)
                        /\ Queued(x)' <=> Queued(x)
  BY <1>2 DEF InReclaim, Pusher, Queued, Elems
<1>5. Pushers'
  <2> SUFFICES ASSUME NEW t \in Threads, pc[t] \in Pushing
               PROVE /\ value[arena[t]] > 0
                     /\ pc[t] = "cas_root" => next'[arena[t]] = seenRoot[t]
    BY <1>2 DEF Pushers
  <2>1. arena[t] \in Arenas \ {a}
    BY <1>3, PtrFacts DEF Pusher, TypeOK, Pushing
  <2> QED BY <1>2, <2>1 DEF Lists, Pushers
<1>6. Waiting'
  BY <1>2, <1>4 DEF Lists, Waiting
<1>7. QueuedOnce'
  <2>1. OnOneList'
    BY <1>2 DEF Lists, QueuedOnce, OnOneList
  <2>2. OnePusher'
    BY <1>2 DEF Lists, QueuedOnce, OnePusher
  <2> QED BY <1>4, <2>1, <2>2 DEF Lists, QueuedOnce
<1>8. ListsIntact'
  <2>1. \A x \in Elems(rootSeq) \cup Elems(claimSeq) \cup Elems(postSeq) :
           next'[x] = next[x]
    <3>1. \A x \in Elems(rootSeq) \cup Elems(claimSeq) \cup Elems(postSeq) : x \in Arenas
      BY ElemsType DEF TypeOK
    <3> QED BY <1>2, <1>3, <3>1 DEF Queued
  <2> QED BY <1>2, <2>1, AllListsKept DEF Lists
<1>9. FlagMeansQueued'
  BY <1>2, <1>4 DEF Lists, FlagMeansQueued
<1> QED BY <1>5, <1>6, <1>7, <1>8, <1>9 DEF Lists

\* The first to retire a block of an arena becomes its pusher.
LEMMA ListsOfRetireDataCas ==
  ASSUME TypeOK, Accounts, Lists, NEW t \in Threads, RetireDataCas(t)
  PROVE Lists'
<1>0. PICK a \in Arenas : a = arena[t]
  BY PtrFacts DEF RetireDataCas, TypeOK
<1>1. /\ pc[t] = "cas" /\ seen[t] = CurrentWord(a)
      /\ value'[a] = value[a] + 1 /\ flag'[a]
      /\ \A x \in Arenas \ {a} : value'[x] = value[x] /\ flag'[x] = flag[x]
      /\ UNCHANGED <<rootVars, rpc, rlist, rarena, listVars>>
  BY <1>0 DEF RetireDataCas, TypeOK
<1>3. value'[a] > 0
  BY <1>1, ArenaFacts
<1>2. \A x \in Arenas : value[x] > 0 => value'[x] > 0
  BY <1>1, <1>3
<1>4. \A x \in Arenas : /\ InReclaim(x)' <=> InReclaim(x)
                        /\ Queued(x)' <=> Queued(x)
  BY <1>1 DEF InReclaim, Queued
<1>5. OnOneList'
  BY <1>1 DEF Lists, QueuedOnce, OnOneList
<1>6. ListsIntact'
  BY <1>1, AllListsKept DEF Lists
<1>7. Waiting'
  <2>1. \A x \in Arenas : Queued(x)' => value'[x] > 0
    BY <1>2, <1>4 DEF Lists, Waiting
  <2>2. ASSUME rpc' \in {"check", "reset"} PROVE value'[rarena'] > 0
    <3>1. rarena \in Arenas /\ rpc \in {"check", "reset"} /\ rarena' = rarena
      BY <2>2, <1>1, PtrFacts DEF TypeOK
    <3> QED BY <3>1, <1>2 DEF Lists, Waiting
  <2> QED BY <2>1, <2>2 DEF Waiting
<1>8. \A u \in Threads \ {t} : /\ pc'[u] = pc[u] /\ arena'[u] = arena[u]
                              /\ seenRoot'[u] = seenRoot[u]
  BY DEF RetireDataCas, AfterRetireData, Return, TypeOK
<1>9. CASE flag[a]
  <2>1. pc'[t] = "idle"
    BY <1>0, <1>1, <1>9 DEF RetireDataCas, AfterRetireData, Return, CurrentWord, TypeOK
  <2>2. \A x \in Arenas : Pusher(x)' <=> Pusher(x)
    BY <1>1, <1>8, <2>1 DEF Pusher, Pushing
  <2>3. Pushers'
    <3> SUFFICES ASSUME NEW u \in Threads, pc'[u] \in Pushing
                 PROVE /\ value'[arena'[u]] > 0
                       /\ pc'[u] = "cas_root" => next'[arena'[u]] = seenRoot'[u]
      BY DEF Pushers
    <3>1. u # t /\ pc[u] \in Pushing /\ arena[u] \in Arenas /\ arena'[u] = arena[u]
      BY <1>8, <2>1, PtrFacts DEF TypeOK, Pushing
    <3> QED BY <1>1, <1>2, <1>8, <3>1 DEF Lists, Pushers
  <2>4. OnePusher'
    BY <1>8, <2>1 DEF Lists, QueuedOnce, OnePusher, Pushing
  <2>5. QueuedOnce'
    BY <1>4, <1>5, <2>2, <2>4 DEF Lists, QueuedOnce
  <2>6. FlagMeansQueued'
    BY <1>1, <1>4, <1>9, <2>2 DEF Lists, FlagMeansQueued
  <2> QED BY <1>6, <1>7, <2>3, <2>5, <2>6 DEF Lists
<1>10. CASE ~ flag[a]
  <2>1. pc'[t] = "load_root" /\ arena'[t] = a
    BY <1>0, <1>1, <1>10 DEF RetireDataCas, AfterRetireData, CurrentWord, TypeOK
  <2>2. value[a] = 0
    BY <1>10, ArenaFacts DEF Accounts, Account
  <2>3. ~ Queued(a) /\ ~ Pusher(a) /\ ~ InReclaim(a)
    BY <2>2 DEF Lists, Waiting, Pushers, Pusher, InReclaim
  <2>4. \A x \in Arenas : Pusher(x)' <=> Pusher(x) \/ x = a
    BY <1>1, <1>8, <2>1 DEF Pusher, Pushing
  <2>5. Pushers'
    <3> SUFFICES ASSUME NEW u \in Threads, pc'[u] \in Pushing
                 PROVE /\ value'[arena'[u]] > 0
                       /\ pc'[u] = "cas_root" => next'[arena'[u]] = seenRoot'[u]
      BY DEF Pushers
    <3>1. CASE u = t
      BY <3>1, <1>3, <2>1
    <3>2. CASE u # t
      <4>1. pc[u] \in Pushing /\ arena[u] \in Arenas /\ arena'[u] = arena[u]
        BY <1>8, <3>2, PtrFacts DEF TypeOK, Pushing
      <4> QED BY <1>1, <1>2, <1>8, <3>2, <4>1 DEF Lists, Pushers
    <3> QED BY <3>1, <3>2
  <2>6. OnePusher'
    BY <1>8, <2>1, <2>3 DEF Lists, QueuedOnce, OnePusher, Pusher
  <2>7. QueuedOnce'
    BY <1>4, <1>5, <2>3, <2>4, <2>6 DEF Lists, QueuedOnce
  <2>8. FlagMeansQueued'
    BY <1>1, <1>4, <2>4 DEF Lists, FlagMeansQueued
  <2> QED BY <1>6, <1>7, <2>5, <2>7, <2>8 DEF Lists
<1> QED BY <1>9, <1>10

\* A pusher writes the next field of an arena that is on no list.
LEMMA ListsOfRetirePtrLink ==
  ASSUME TypeOK, Lists, NEW t \in Threads, RetirePtrLink(t)
  PROVE Lists'
<1>0. PICK a \in Arenas : a = arena[t]
  BY PtrFacts DEF RetirePtrLink, TypeOK
<1>1. /\ pc[t] = "link" /\ pc'[t] = "cas_root"
      /\ next'[a] = seenRoot[t]
      /\ \A x \in Arenas \ {a} : next'[x] = next[x]
      /\ \A u \in Threads \ {t} : pc'[u] = pc[u]
      /\ UNCHANGED <<wordVars, root, postponed, rpc, rlist, rarena, listVars, arena, seenRoot>>
  BY <1>0 DEF RetirePtrLink, TypeOK
<1>2. \A u \in Threads : pc'[u] \in Pushing <=> pc[u] \in Pushing
  BY <1>1 DEF Pushing
<1>3. \A x \in Arenas : /\ InReclaim(x)' <=> InReclaim(x)
                        /\ Queued(x)' <=> Queued(x)
                        /\ Pusher(x)' <=> Pusher(x)
  BY <1>1, <1>2 DEF InReclaim, Queued, Pusher
<1>4. ~ Queued(a)
  BY <1>0, <1>1 DEF Lists, QueuedOnce, Pusher, Pushing
<1>5. Pushers'
  <2> SUFFICES ASSUME NEW u \in Threads, pc'[u] \in Pushing
               PROVE /\ value[arena[u]] > 0
                     /\ pc'[u] = "cas_root" => next'[arena[u]] = seenRoot[u]
    BY <1>1 DEF Pushers
  <2>1. value[arena[u]] > 0
    BY <1>2 DEF Lists, Pushers
  <2>2. CASE u = t
    BY <1>0, <1>1, <2>1, <2>2
  <2>3. CASE u # t
    <3>1. arena[u] # a /\ arena[u] \in Arenas
      BY <1>0, <1>1, <1>2, <2>3, PtrFacts DEF Lists, QueuedOnce, OnePusher, Pushing, TypeOK
    <3> QED BY <1>1, <1>2, <2>1, <2>3, <3>1 DEF Lists, Pushers
  <2> QED BY <2>2, <2>3
<1>6. Waiting'
  BY <1>1, <1>3 DEF Lists, Waiting
<1>7. QueuedOnce'
  <2>1. OnOneList'
    BY <1>1 DEF Lists, QueuedOnce, OnOneList
  <2>2. OnePusher'
    BY <1>1, <1>2 DEF Lists, QueuedOnce, OnePusher
  <2> QED BY <1>3, <2>1, <2>2 DEF Lists, QueuedOnce
<1>8. ListsIntact'
  <2>1. \A x \in Elems(rootSeq) \cup Elems(claimSeq) \cup Elems(postSeq) : x \in Arenas
    BY ElemsType DEF TypeOK
  <2> QED BY <1>1, <1>4, <2>1, AllListsKept DEF Lists, Queued
<1>9. FlagMeansQueued'
  BY <1>1, <1>3 DEF Lists, FlagMeansQueued
<1> QED BY <1>5, <1>6, <1>7, <1>8, <1>9 DEF Lists

\* A successful push: the root was what the pusher linked its arena to.
LEMMA ListsOfRetirePtrCas ==
  ASSUME TypeOK, Lists, NEW t \in Threads, RetirePtrCas(t)
  PROVE Lists'
<1>0. PICK a \in Arenas : a = arena[t]
  BY PtrFacts DEF RetirePtrCas, TypeOK
<1>1. /\ pc[t] = "cas_root" /\ pc'[t] = "idle"
      /\ seenRoot[t] = root.ptr /\ root'.ptr = a
      /\ rootSeq' = <<a>> \o rootSeq
      /\ \A u \in Threads \ {t} : /\ pc'[u] = pc[u] /\ arena'[u] = arena[u]
                                  /\ seenRoot'[u] = seenRoot[u]
      /\ UNCHANGED <<wordVars, postponed, next, rpc, rlist, rarena, claimSeq, postSeq>>
  BY <1>0 DEF RetirePtrCas, Return, TypeOK
<1>2. /\ ~ Queued(a) /\ ~ InReclaim(a) /\ value[a] > 0
      /\ next[a] = root.ptr
      /\ \A u \in Threads \ {t} : pc[u] \in Pushing => arena[u] # a
  BY <1>0, <1>1 DEF Lists, QueuedOnce, OnePusher, Pushers, Pusher, Pushing
<1>3. /\ rootSeq \in Seq(Arenas) /\ Len(rootSeq) \in Nat
      /\ Elems(rootSeq') = Elems(rootSeq) \cup {a}
  BY <1>1, ConsFacts DEF TypeOK
<1>4. \A x \in Arenas : /\ InReclaim(x)' <=> InReclaim(x)
                        /\ Queued(x)' <=> Queued(x) \/ x = a
                        /\ Pusher(x)' <=> Pusher(x) /\ x # a
  <2>1. \A x \in Arenas : /\ InReclaim(x)' <=> InReclaim(x)
                          /\ Queued(x)' <=> Queued(x) \/ x = a
    BY <1>1, <1>3 DEF InReclaim, Queued
  <2>2. \A x \in Arenas : Pusher(x)' <=> Pusher(x) /\ x # a
    BY <1>0, <1>1, <1>2 DEF Pusher, Pushing
  <2> QED BY <2>1, <2>2
<1>5. Pushers'
  <2> SUFFICES ASSUME NEW u \in Threads, pc'[u] \in Pushing
               PROVE /\ value'[arena'[u]] > 0
                     /\ pc'[u] = "cas_root" => next'[arena'[u]] = seenRoot'[u]
    BY DEF Pushers
  <2>1. u # t
    BY <1>1 DEF Pushing
  <2> QED BY <1>1, <2>1 DEF Lists, Pushers
<1>6. Waiting'
  BY <1>1, <1>2, <1>4 DEF Lists, Waiting
<1>7. QueuedOnce'
  <2>1. NoRepeat(rootSeq')
    <3>1. a \notin Elems(rootSeq)
      BY <1>2 DEF Queued
    <3>2. SUFFICES ASSUME NEW i \in 1 .. Len(rootSeq) + 1, NEW j \in 1 .. Len(rootSeq) + 1,
                          rootSeq'[i] = rootSeq'[j]
                   PROVE i = j
      BY <1>1, <1>3, ConsFacts DEF NoRepeat
    <3>3. \A k \in 2 .. Len(rootSeq) + 1 : /\ rootSeq'[k] = rootSeq[k - 1]
                                           /\ k - 1 \in 1 .. Len(rootSeq)
                                           /\ rootSeq[k - 1] # a
      BY <1>1, <1>3, <3>1, ConsFacts DEF Elems
    <3>4. rootSeq'[1] = a
      BY <1>1, <1>3, ConsFacts
    <3>5. CASE i = 1 \/ j = 1
      BY <1>3, <3>2, <3>3, <3>4, <3>5
    <3>6. CASE i # 1 /\ j # 1
      <4>1. i \in 2 .. Len(rootSeq) + 1 /\ j \in 2 .. Len(rootSeq) + 1
        BY <1>3, <3>6
      <4>2. rootSeq[i - 1] = rootSeq[j - 1]
        BY <3>2, <3>3, <4>1
      <4>3. i - 1 = j - 1
        BY <3>3, <4>1, <4>2 DEF Lists, QueuedOnce, OnOneList, NoRepeat
      <4> QED BY <1>3, <4>1, <4>3
    <3> QED BY <3>5, <3>6
  <2>2. OnOneList'
    BY <1>1, <1>2, <1>3, <2>1 DEF Lists, QueuedOnce, OnOneList, Queued
  <2>3. OnePusher'
    BY <1>1 DEF Lists, QueuedOnce, OnePusher, Pushing
  <2> QED BY <1>2, <1>4, <2>2, <2>3 DEF Lists, QueuedOnce
<1>8. ListsIntact'
  <2>1. IsList(root.ptr, rootSeq)'
    <3>1. rootSeq'[1] = a /\ Len(rootSeq') = Len(rootSeq) + 1 /\ rootSeq' # <<>>
      BY <1>1, <1>3, ConsFacts
    <3>2. SUFFICES ASSUME NEW i \in 1 .. Len(rootSeq) + 1
                   PROVE next[rootSeq'[i]] = IF i < Len(rootSeq) + 1 THEN rootSeq'[i + 1] ELSE Null
      BY <1>1, <3>1 DEF IsList
    <3>3. CASE i = 1
      <4>1. CASE rootSeq = <<>>
        <5>1. Len(rootSeq) = 0 /\ root.ptr = Null
          BY <4>1 DEF Lists, ListsIntact, IsList
        <5> QED BY <1>2, <3>1, <3>3, <5>1
      <4>2. CASE rootSeq # <<>>
        <5>1. Len(rootSeq) >= 1 /\ root.ptr = rootSeq[1]
          BY <1>3, <4>2 DEF Lists, ListsIntact, IsList
        <5>2. rootSeq'[2] = rootSeq[1]
          <6>1. 2 \in 2 .. Len(rootSeq) + 1
            BY <1>3, <5>1
          <6> QED BY <1>1, <1>3, <6>1, ConsFacts
        <5> QED BY <1>2, <1>3, <3>1, <3>3, <5>1, <5>2
      <4> QED BY <4>1, <4>2
    <3>4. CASE i # 1
      <4>1. /\ i - 1 \in 1 .. Len(rootSeq)
            /\ rootSeq'[i] = rootSeq[i - 1]
            /\ i < Len(rootSeq) + 1 => rootSeq'[i + 1] = rootSeq[i]
        <5>1. i \in 2 .. Len(rootSeq) + 1
          BY <1>3, <3>4
        <5>2. i < Len(rootSeq) + 1 => i + 1 \in 2 .. Len(rootSeq) + 1
          BY <1>3, <5>1
        <5>3. (i + 1) - 1 = i /\ i - 1 \in 1 .. Len(rootSeq)
          BY <1>3, <5>1
        <5> QED BY <1>1, <1>3, <5>1, <5>2, <5>3, ConsFacts
      <4>2. next[rootSeq[i - 1]] = IF i - 1 < Len(rootSeq) THEN rootSeq[(i - 1) + 1] ELSE Null
        BY <4>1 DEF Lists, ListsIntact, IsList
      <4>3. (i - 1) + 1 = i /\ (i - 1 < Len(rootSeq) <=> i < Len(rootSeq) + 1)
        BY <1>3, <3>4
      <4> QED BY <4>1, <4>2, <4>3
    <3> QED BY <3>3, <3>4
  <2> QED BY <1>1, <2>1 DEF Lists, ListsIntact, IsList
<1>9. FlagMeansQueued'
  BY <1>1, <1>4 DEF Lists, FlagMeansQueued
<1> QED BY <1>5, <1>6, <1>7, <1>8, <1>9 DEF Lists

\* A list changes hands as a whole, nothing else moves.
LEMMA ListsMoved ==
  ASSUME TypeOK, Lists, UNCHANGED <<wordVars, next, pc, arena, seenRoot>>,
         rpc \notin {"check", "reset"}, rpc' \notin {"check", "reset"},
         \A a \in Arenas : Queued(a)' <=> Queued(a),
         OnOneList', ListsIntact'
  PROVE Lists'
<1>1. \A a \in Arenas : /\ InReclaim(a)' <=> InReclaim(a)
                        /\ Pusher(a)' <=> Pusher(a)
  BY DEF InReclaim, Pusher
<1>2. Pushers'
  BY DEF Lists, Pushers
<1>3. Waiting'
  BY DEF Lists, Waiting
<1>4. QueuedOnce'
  <2>1. OnePusher'
    BY DEF Lists, QueuedOnce, OnePusher
  <2> QED BY <1>1, <2>1 DEF Lists, QueuedOnce
<1>5. FlagMeansQueued'
  BY <1>1 DEF Lists, FlagMeansQueued
<1> QED BY <1>2, <1>3, <1>4, <1>5 DEF Lists

\* The empty list.
LEMMA EmptyFacts ==
  /\ Elems(<<>>) = {} /\ NoRepeat(<<>>)
  /\ \A s \in Seq(Arenas) : s = <<>> <=> Len(s) = 0
BY DEF Elems, NoRepeat

\* The holder takes the list it had put aside.
LEMMA ListsOfReclaimPostponed ==
  ASSUME TypeOK, Control, Lists, ReclaimPostponed
  PROVE Lists'
<1>1. /\ claimSeq' = postSeq /\ postSeq' = <<>> /\ rootSeq' = rootSeq
      /\ claimSeq = <<>> /\ rlist' = postponed /\ postponed' = Null
      /\ rpc = "idle" /\ rpc' = "pop"
      /\ UNCHANGED <<wordVars, next, root, pc, arena, seenRoot>>
  BY DEF ReclaimPostponed, Control
<1>2. \A a \in Arenas : Queued(a)' <=> Queued(a)
  BY <1>1, EmptyFacts DEF Queued
<1>3. OnOneList'
  BY <1>1, EmptyFacts DEF Lists, QueuedOnce, OnOneList
<1>4. ListsIntact'
  BY <1>1 DEF Lists, ListsIntact, IsList
<1> QED BY <1>1, <1>2, <1>3, <1>4, ListsMoved

\* The holder takes the whole list of the root.
LEMMA ListsOfReclaimExchange ==
  ASSUME TypeOK, Control, Lists, ReclaimExchange
  PROVE Lists'
<1>1. /\ claimSeq' = rootSeq /\ rootSeq' = <<>> /\ postSeq' = postSeq
      /\ claimSeq = <<>> /\ rlist' = root.ptr /\ root'.ptr = Null
      /\ rpc = "exchange" /\ rpc' = "pop"
      /\ UNCHANGED <<wordVars, next, postponed, pc, arena, seenRoot>>
  BY DEF ReclaimExchange, Control
<1>2. \A a \in Arenas : Queued(a)' <=> Queued(a)
  BY <1>1, EmptyFacts DEF Queued
<1>3. OnOneList'
  BY <1>1, EmptyFacts DEF Lists, QueuedOnce, OnOneList
<1>4. ListsIntact'
  BY <1>1 DEF Lists, ListsIntact, IsList
<1> QED BY <1>1, <1>2, <1>3, <1>4, ListsMoved

\* The holder puts the rest of its list aside, where no other list is.
LEMMA ListsOfPostpone ==
  ASSUME TypeOK, Control, Lists, Postpone
  PROVE Lists'
<1>1. /\ postSeq' = claimSeq /\ claimSeq' = <<>> /\ rootSeq' = rootSeq
      /\ postSeq = <<>> /\ postponed' = rlist /\ rlist' = Null
      /\ rpc = "pop" /\ rpc' = "idle"
      /\ UNCHANGED <<wordVars, next, root, pc, arena, seenRoot>>
  BY DEF Postpone, Control
<1>2. \A a \in Arenas : Queued(a)' <=> Queued(a)
  BY <1>1, EmptyFacts DEF Queued
<1>3. OnOneList'
  BY <1>1, EmptyFacts DEF Lists, QueuedOnce, OnOneList
<1>4. ListsIntact'
  BY <1>1 DEF Lists, ListsIntact, IsList
<1> QED BY <1>1, <1>2, <1>3, <1>4, ListsMoved

\* The root of a TLA created anew is empty; so was the destroyed one's.
LEMMA ListsOfCreateTla ==
  ASSUME TypeOK, Control, Accounts, Lists, CreateTla
  PROVE Lists'
<1>1. \A a \in Arenas : ~ Queued(a)
  BY ArenaFacts DEF Control, CreateTla, Lists, Waiting
<1>2. rootSeq = <<>> /\ postSeq = <<>>
  <2>1. \A s \in Seq(Arenas) : s # <<>> => s[1] \in Arenas /\ s[1] \in Elems(s)
    BY DEF Elems
  <2> QED BY <1>1, <2>1 DEF Queued, TypeOK
<1>3. /\ UNCHANGED <<wordVars, next, rpc, rlist, pc, arena, seenRoot, listVars>>
      /\ root'.ptr = Null /\ postponed' = Null
      /\ rpc = "idle"
  BY <1>2 DEF CreateTla, Control
<1>4. \A a \in Arenas : Queued(a)' <=> Queued(a)
  BY <1>3 DEF Queued
<1>5. OnOneList'
  BY <1>3 DEF Lists, QueuedOnce, OnOneList
<1>6. ListsIntact'
  BY <1>2, <1>3 DEF Lists, ListsIntact, IsList
<1> QED BY <1>3, <1>4, <1>5, <1>6, ListsMoved

\* The first arena of the list goes from the list into the holder's hands.
LEMMA ListsOfPopArena ==
  ASSUME TypeOK, Control, Lists, PopArena
  PROVE Lists'
<1>0. PICK a \in Arenas : a = rlist
  BY PtrFacts DEF PopArena, TypeOK
<1>1. /\ rpc = "pop" /\ rpc' = "check" /\ rarena' = a /\ rlist' = next[a]
      /\ next'[a] = Null /\ \A x \in Arenas \ {a} : next'[x] = next[x]
      /\ claimSeq' = Tail(claimSeq)
      /\ UNCHANGED <<wordVars, root, postponed, pc, arena, seenRoot, rootSeq, postSeq>>
  BY <1>0 DEF PopArena, TypeOK
<1>2. /\ claimSeq \in Seq(Arenas) /\ claimSeq # <<>> /\ claimSeq[1] = a
      /\ next[a] = IF 1 < Len(claimSeq) THEN claimSeq[2] ELSE Null
      /\ a \in Elems(claimSeq)
  BY <1>0, NullAssumption, ListFacts DEF TypeOK, Lists, ListsIntact
<1>3. /\ Tail(claimSeq) \in Seq(Arenas)
      /\ Len(Tail(claimSeq)) = Len(claimSeq) - 1
      /\ Len(claimSeq) \in Nat /\ Len(claimSeq) >= 1
      /\ \A i \in 1 .. Len(claimSeq) - 1 : Tail(claimSeq)[i] = claimSeq[i + 1]
      /\ Elems(claimSeq) = Elems(Tail(claimSeq)) \cup {a}
  BY <1>2, TailFacts
<1>4. NoRepeat(Tail(claimSeq)) /\ a \notin Elems(Tail(claimSeq))
  <2>1. \A i, j \in 1 .. Len(claimSeq) : claimSeq[i] = claimSeq[j] => i = j
    BY DEF Lists, QueuedOnce, OnOneList, NoRepeat
  <2>2. ASSUME NEW i \in 1 .. Len(Tail(claimSeq)) PROVE Tail(claimSeq)[i] # a
    <3>1. i + 1 \in 1 .. Len(claimSeq) /\ i + 1 # 1 /\ 1 \in 1 .. Len(claimSeq)
          /\ Tail(claimSeq)[i] = claimSeq[i + 1]
      BY <1>3
    <3> QED BY <1>2, <2>1, <3>1
  <2>3. ASSUME NEW i \in 1 .. Len(Tail(claimSeq)), NEW j \in 1 .. Len(Tail(claimSeq)),
               Tail(claimSeq)[i] = Tail(claimSeq)[j]
        PROVE i = j
    <3>1. /\ i + 1 \in 1 .. Len(claimSeq) /\ Tail(claimSeq)[i] = claimSeq[i + 1]
          /\ j + 1 \in 1 .. Len(claimSeq) /\ Tail(claimSeq)[j] = claimSeq[j + 1]
      BY <1>3
    <3>2. i + 1 = j + 1
      BY <2>1, <2>3, <3>1
    <3> QED BY <1>3, <3>2
  <2> QED BY <2>2, <2>3 DEF NoRepeat, Elems
<1>5. a \notin Elems(rootSeq) /\ a \notin Elems(postSeq) /\ ~ Pusher(a)
  BY <1>2 DEF Lists, QueuedOnce, OnOneList, Queued
<1>6. \A x \in Arenas : /\ Queued(x)' <=> Queued(x) /\ x # a
                        /\ InReclaim(x)' <=> x = a
                        /\ ~ InReclaim(x)
                        /\ Pusher(x)' <=> Pusher(x)
  <2>1. \A x \in Arenas : Queued(x)' <=> Queued(x) /\ x # a
    BY <1>1, <1>3, <1>4, <1>5 DEF Queued
  <2>2. \A x \in Arenas : (InReclaim(x)' <=> x = a) /\ ~ InReclaim(x)
    BY <1>1 DEF InReclaim
  <2>3. \A x \in Arenas : Pusher(x)' <=> Pusher(x)
    BY <1>1 DEF Pusher
  <2> QED BY <2>1, <2>2, <2>3
<1>7. Queued(a)
  BY <1>2 DEF Queued
<1>8. Pushers'
  <2> SUFFICES ASSUME NEW t \in Threads, pc[t] \in Pushing
               PROVE /\ value[arena[t]] > 0
                     /\ pc[t] = "cas_root" => next'[arena[t]] = seenRoot[t]
    BY <1>1 DEF Pushers
  <2>1. arena[t] \in Arenas \ {a}
    BY <1>5, PtrFacts DEF Pusher, TypeOK, Pushing
  <2> QED BY <1>1, <2>1 DEF Lists, Pushers
<1>9. Waiting'
  BY <1>1, <1>6, <1>7 DEF Lists, Waiting
<1>10. QueuedOnce'
  <2>1. OnOneList'
    BY <1>1, <1>3, <1>4 DEF Lists, QueuedOnce, OnOneList
  <2>2. OnePusher'
    BY <1>1 DEF Lists, QueuedOnce, OnePusher
  <2> QED BY <1>5, <1>6, <2>1, <2>2 DEF Lists, QueuedOnce
<1>11. ListsIntact'
  <2>1. \A x \in Elems(rootSeq) \cup Elems(Tail(claimSeq)) \cup Elems(postSeq) :
           next'[x] = next[x]
    <3>1. \A x \in Elems(rootSeq) \cup Elems(Tail(claimSeq)) \cup Elems(postSeq) :
             x \in Arenas
      BY <1>3, ElemsType DEF TypeOK
    <3> QED BY <1>1, <1>4, <1>5, <3>1
  <2>2. IsList(root.ptr, rootSeq)' /\ IsList(postponed, postSeq)'
    <3>1. rootSeq \in Seq(Arenas) /\ postSeq \in Seq(Arenas)
      BY DEF TypeOK
    <3>2. IsList(root.ptr, rootSeq)'
      BY <1>1, <2>1, <3>1, ListKept DEF Lists, ListsIntact, IsList
    <3>3. IsList(postponed, postSeq)'
      BY <1>1, <2>1, <3>1, ListKept DEF Lists, ListsIntact, IsList
    <3> QED BY <3>2, <3>3
  <2>3. IsList(next[a], Tail(claimSeq))
    <3>1. next[a] = IF Tail(claimSeq) = <<>> THEN Null ELSE Tail(claimSeq)[1]
      <4>1. CASE Tail(claimSeq) = <<>>
        <5>1. Len(Tail(claimSeq)) = 0
          BY <1>3, <4>1, EmptyFacts
        <5> QED BY <1>2, <1>3, <4>1, <5>1
      <4>2. CASE Tail(claimSeq) # <<>>
        <5>1. Len(Tail(claimSeq)) >= 1
          BY <1>3, <4>2
        <5>2. 1 < Len(claimSeq) /\ Tail(claimSeq)[1] = claimSeq[2]
          BY <1>3, <5>1
        <5> QED BY <1>2, <4>2, <5>2
      <4> QED BY <4>1, <4>2
    <3>2. ASSUME NEW i \in 1 .. Len(Tail(claimSeq))
          PROVE next[Tail(claimSeq)[i]] =
                  IF i < Len(Tail(claimSeq)) THEN Tail(claimSeq)[i + 1] ELSE Null
      <4>1. /\ i + 1 \in 1 .. Len(claimSeq) /\ Tail(claimSeq)[i] = claimSeq[i + 1]
            /\ (i < Len(Tail(claimSeq)) <=> i + 1 < Len(claimSeq))
            /\ i < Len(Tail(claimSeq)) => Tail(claimSeq)[i + 1] = claimSeq[(i + 1) + 1]
        BY <1>3
      <4> QED BY <4>1 DEF Lists, ListsIntact, IsList
    <3> QED BY <3>1, <3>2 DEF IsList
  <2>4. IsList(rlist, claimSeq)'
    BY <1>1, <1>3, <2>1, <2>3, ListKept, ZenonT(40) DEF IsList
  <2> QED BY <2>2, <2>4 DEF ListsIntact
<1>12. FlagMeansQueued'
  BY <1>1, <1>6 DEF Lists, FlagMeansQueued
<1> QED BY <1>8, <1>9, <1>10, <1>11, <1>12 DEF Lists

\* The arena in the holder's hands is emptied and its flag taken down.
LEMMA ListsOfReclaimResetExchange ==
  ASSUME TypeOK, Lists, ReclaimResetExchange
  PROVE Lists'
<1>0. PICK a \in Arenas : a = rarena
  BY PtrFacts DEF ReclaimResetExchange, TypeOK
<1>1. /\ rpc = "reset" /\ rpc' = "pop" /\ flag'[a] = FALSE
      /\ \A x \in Arenas \ {a} : value'[x] = value[x] /\ flag'[x] = flag[x]
      /\ UNCHANGED <<rootVars, rlist, pc, arena, seenRoot, listVars>>
  BY <1>0 DEF ReclaimResetExchange, TypeOK
<1>2. ~ Queued(a) /\ ~ Pusher(a)
  BY <1>0, <1>1 DEF Lists, QueuedOnce, InReclaim
<1>3. \A x \in Arenas : /\ Queued(x)' <=> Queued(x)
                        /\ Pusher(x)' <=> Pusher(x)
                        /\ InReclaim(x) <=> x = a
                        /\ ~ InReclaim(x)'
  BY <1>0, <1>1 DEF InReclaim, Queued, Pusher
<1>4. Pushers'
  <2> SUFFICES ASSUME NEW t \in Threads, pc[t] \in Pushing
               PROVE /\ value'[arena[t]] > 0
                     /\ pc[t] = "cas_root" => next[arena[t]] = seenRoot[t]
    BY <1>1 DEF Pushers
  <2>1. arena[t] \in Arenas \ {a}
    BY <1>2, PtrFacts DEF Pusher, TypeOK, Pushing
  <2> QED BY <1>1, <2>1 DEF Lists, Pushers
<1>5. Waiting'
  BY <1>1, <1>2, <1>3 DEF Lists, Waiting
<1>6. QueuedOnce'
  <2>1. OnOneList'
    BY <1>1 DEF Lists, QueuedOnce, OnOneList
  <2>2. OnePusher'
    BY <1>1 DEF Lists, QueuedOnce, OnePusher
  <2> QED BY <1>3, <2>1, <2>2 DEF Lists, QueuedOnce
<1>7. ListsIntact'
  BY <1>1, AllListsKept DEF Lists
<1>8. FlagMeansQueued'
  BY <1>1, <1>3 DEF Lists, FlagMeansQueued
<1> QED BY <1>4, <1>5, <1>6, <1>7, <1>8 DEF Lists

\* Every step keeps the lists.
LEMMA ListsStep ==
  ASSUME TypeOK, Control, Accounts, Lists, [Next]_vars PROVE Lists'
<1>1. ASSUME NEW a \in Arenas, AllocateNew(a) PROVE Lists'
  BY <1>1, ListsOfAllocateNew
<1>2. ASSUME NEW t \in Threads, Retirer(t) PROVE Lists'
  <2>1. CASE RetireDataLoad(t) \/ RetireDataRetry(t)
             \/ RetirePtrLoad(t) \/ RetirePtrRetry(t)
    BY <2>1, ListsOfOthers
  <2>2. CASE RetireDataCas(t)
    BY <2>2, ListsOfRetireDataCas
  <2>3. CASE RetirePtrLink(t)
    BY <2>3, ListsOfRetirePtrLink
  <2>4. CASE RetirePtrCas(t)
    BY <2>4, ListsOfRetirePtrCas
  <2> QED BY <1>2, <2>1, <2>2, <2>3, <2>4 DEF Retirer
<1>3. ASSUME NEW a \in Arenas, Allocate(a) \/ \E b \in Blocks : Deallocate(a, b)
      PROVE Lists'
  BY <1>3, ListsOfOthers
<1>4. ASSUME NEW t \in Threads, NEW a \in Arenas, NEW b \in Blocks,
             StartRetire(t, a, b)
      PROVE Lists'
  BY <1>4, ListsOfOthers
<1>5. CASE Reclaimer \/ Postpone
  BY <1>5, ListsOfOthers, ListsOfReclaimPostponed, ListsOfReclaimExchange,
     ListsOfPopArena, ListsOfReclaimResetExchange, ListsOfPostpone
  DEF Reclaimer
<1>6. CASE Exit \/ Excavate \/ Adopt \/ UNCHANGED vars
  BY <1>6, ListsOfOthers
<1>7. CASE CreateTla
  BY <1>7, ListsOfCreateTla
<1> QED BY <1>1, <1>2, <1>3, <1>4, <1>5, <1>6, <1>7 DEF Next

-----------------------------------------------------------------------------
(* The invariant, and what follows from it.                                *)

\* IInv holds at the start.
LEMMA InitInv == Init => IInv
<1> SUFFICES ASSUME Init PROVE IInv
  OBVIOUS
<1>1. 0 \in 0 .. Capacity /\ 0 \in Blocks
  BY CapacityAssumption DEF Blocks
<1>2. TypeOK
  BY <1>1, PtrFacts, EmptySeqFacts
  DEF Init, TypeOK, TlaPlaces, ReclaimerPcs, RetirerPcs, Word
<1>3. Control
  BY DEF Init, Control
<1>4. Accounts
  BY FS_EmptySet DEF Init, Accounts, Account
<1>5. Holders /\ Pushers
  BY DEF Init, Holders, Pushers, Freeing, Pushing
<1>6. \A a \in Arenas : ~ Queued(a) /\ ~ Pusher(a) /\ ~ InReclaim(a)
  BY EmptyFacts DEF Init, Queued, Pusher, InReclaim, Pushing
<1>7. Waiting
  BY <1>6 DEF Init, Waiting
<1>8. QueuedOnce
  <2>1. OnOneList
    BY EmptyFacts DEF Init, OnOneList
  <2>2. OnePusher
    BY DEF Init, OnePusher, Pushing
  <2> QED BY <1>6, <2>1, <2>2 DEF QueuedOnce
<1>9. ListsIntact
  BY DEF Init, ListsIntact, IsList
<1>10. FlagMeansQueued
  BY DEF Init, FlagMeansQueued
<1> QED BY <1>2, <1>3, <1>4, <1>5, <1>7, <1>8, <1>9, <1>10 DEF IInv

\* IInv is inductive.
LEMMA InvStep == IInv /\ [Next]_vars => IInv'
<1> SUFFICES ASSUME IInv, [Next]_vars PROVE IInv'
  OBVIOUS
<1>1. TypeOK' /\ Control' /\ Accounts' /\ Holders'
  BY TypeStep, ControlStep, AccountsStep, HoldersStep DEF IInv
<1>2. Lists'
  BY ListsStep DEF IInv, Lists
<1> QED BY <1>1, <1>2 DEF IInv, Lists

\* IInv is an invariant of the protocol.
THEOREM Invariant == Spec => []IInv
BY InitInv, InvStep, PTL DEF Spec

\* The variables hold what the declarations in the code allow them to.
THEOREM TypeCorrect == Spec => []TypeOK
<1>1. IInv => TypeOK
  BY DEF IInv
<1> QED BY Invariant, <1>1, PTL

\* A retire is never stranded: if arenas are created with their flag down, an
\* arena that holds retired blocks is on a list of the TLA, in the hands of
\* the reclaiming thread, or of a thread that is queueing it.
THEOREM NeverStranded ==
  ASSUME ~ InitialRetired PROVE Spec => []RetiredIsQueued
<1>1. IInv => RetiredIsQueued
  BY DEF IInv, FlagMeansQueued, Accounts, Account, RetiredIsQueued
<1> QED BY Invariant, <1>1, PTL

\* The next field of an arena has one user at a time.
THEOREM OneUserOfNext == Spec => []QueuedOnce
<1>1. IInv => QueuedOnce
  BY DEF IInv
<1> QED BY Invariant, <1>1, PTL

\* Concurrent retires and reclaims never break a list of arenas.
THEOREM ListsStayIntact == Spec => []ListsIntact
<1>1. IInv => ListsIntact
  BY DEF IInv
<1> QED BY Invariant, <1>1, PTL

\* Each block of an arena is in use, retired or freed, and counted once.
THEOREM BlocksCountedOnce == Spec => []BlocksAccounted
<1>1. IInv => BlocksAccounted
  BY DEF IInv, TypeOK, Accounts, Account, BlocksAccounted
<1> QED BY Invariant, <1>1, PTL

\* A retiring thread never touches an arena or a TLA that was given away.
THEOREM MemoryStays == Spec => []NoUseAfterRelease
<1>1. ASSUME IInv PROVE NoUseAfterRelease
  <2>1. \A a \in Arenas : out[a] # {} => a \in used
    BY <1>1, ArenaFacts DEF IInv
  <2>2. \A a \in Arenas : value[a] > 0 => a \in used
    BY <1>1, ArenaFacts DEF IInv
  <2>3. ASSUME NEW t \in Threads, pc[t] # "idle" PROVE arena[t] \in used
    <3>1. arena[t] \in Arenas /\ pc[t] \in Freeing \cup Pushing
      BY <1>1, <2>3, PtrFacts DEF IInv, TypeOK, RetirerPcs, Freeing, Pushing
    <3>2. CASE pc[t] \in Freeing
      BY <1>1, <2>1, <3>1, <3>2 DEF IInv, Holders
    <3>3. CASE pc[t] \in Pushing
      BY <1>1, <2>2, <3>1, <3>3 DEF IInv, Pushers
    <3> QED BY <3>1, <3>2, <3>3
  <2>4. used # {} => tla # "destroyed"
    BY <1>1 DEF IInv, Control
  <2> QED BY <2>1, <2>3, <2>4 DEF NoUseAfterRelease
<1> QED BY Invariant, <1>1, PTL

\* No check of the code on the way of a reclaim fails.
THEOREM ChecksNeverFail == Spec => []ChecksHold
<1>1. ASSUME IInv PROVE ChecksHold
  <2>1. ASSUME rpc \in {"check", "reset"}
        PROVE flag[rarena] /\ freed[rarena] + value[rarena] <= top[rarena]
    <3>1. rarena \in Arenas
      BY <1>1, <2>1, PtrFacts DEF IInv, TypeOK
    <3>2. value[rarena] > 0
      BY <1>1, <2>1 DEF IInv, Waiting
    <3>3. flag[rarena]
      BY <1>1, <3>1, <3>2 DEF IInv, Accounts, Account
    <3>4. freed[rarena] + value[rarena] <= top[rarena]
      BY <1>1, <3>1, ArenaFacts DEF IInv
    <3> QED BY <3>3, <3>4
  <2>2. root.retired /\ (rpc = "exchange" => rflag) /\ (rpc = "pop" => postponed = Null)
    BY <1>1 DEF IInv, Control
  <2> QED BY <2>1, <2>2 DEF ChecksHold
<1> QED BY Invariant, <1>1, PTL

-----------------------------------------------------------------------------
(* The protocol implements the allocator's contract.                       *)

\* Steps in which nothing happens that the contract speaks of.
LEMMA QuietSteps ==
  ASSUME Control,
         \/ \E t \in Threads, a \in Arenas, b \in Blocks : StartRetire(t, a, b)
         \/ \E t \in Threads : Retirer(t) /\ ~ RetireDataCas(t)
         \/ Reclaimer /\ ~ ReclaimResetExchange /\ ~ FinishReclaim
         \/ Postpone \/ Exit \/ Excavate \/ Adopt \/ UNCHANGED vars
  PROVE /\ (tla # "destroyed")' <=> tla # "destroyed"
        /\ UNCHANGED <<used, out>>
<1>1. ASSUME NEW t \in Threads, NEW a \in Arenas, NEW b \in Blocks,
             StartRetire(t, a, b)
      PROVE ((tla # "destroyed")' <=> tla # "destroyed") /\ UNCHANGED <<used, out>>
  BY <1>1 DEF StartRetire
<1>2. ASSUME NEW t \in Threads, Retirer(t), ~ RetireDataCas(t)
      PROVE ((tla # "destroyed")' <=> tla # "destroyed") /\ UNCHANGED <<used, out>>
  BY <1>2 DEF Retirer, RetireDataLoad, RetireDataRetry, RetirePtrLoad,
              RetirePtrLink, RetirePtrCas, RetirePtrRetry
<1>3. ASSUME \/ Reclaimer /\ ~ ReclaimResetExchange /\ ~ FinishReclaim
             \/ Postpone
      PROVE ((tla # "destroyed")' <=> tla # "destroyed") /\ UNCHANGED <<used, out>>
  BY <1>3 DEF Reclaimer, ReclaimPostponed, ReclaimLoad, ReclaimExchange,
              PopArena, ReclaimResetLoad, Postpone
<1>4. ASSUME Exit \/ Excavate \/ Adopt
      PROVE ((tla # "destroyed")' <=> tla # "destroyed") /\ UNCHANGED <<used, out>>
  BY <1>4 DEF Exit, Excavate, Adopt, OwnerIdle
<1>5. CASE UNCHANGED vars
  BY <1>5
<1> QED BY <1>1, <1>2, <1>3, <1>4, <1>5

\* Every step of the protocol is a step of the contract or none.
LEMMA ContractStep == IInv /\ [Next]_vars => [Contract!Next]_(Contract!vars)
<1> SUFFICES ASSUME IInv, [Next]_vars PROVE [Contract!Next]_(Contract!vars)
  OBVIOUS
<1>0. TypeOK /\ Control /\ Accounts /\ Holders /\ Waiting
  BY DEF IInv
<1> USE DEF Contract!vars, Contract!Next
<1>1. ASSUME NEW a \in Arenas, Allocate(a) PROVE Contract!Next
  <2>1. top[a] \in Blocks /\ top[a] \notin out[a]
    <3>1. out[a] \subseteq 0 .. top[a] - 1 /\ top[a] \in Nat /\ top[a] < Capacity
      BY <1>0, <1>1, ArenaFacts DEF Accounts, Account, Allocate
    <3> QED BY <3>1, CapacityAssumption DEF Blocks
  <2>2. Contract!Alloc(a, top[a])
    BY <1>1, <2>1 DEF Allocate, OwnerIdle, Contract!Alloc
  <2> QED BY <2>1, <2>2
<1>2. ASSUME NEW a \in Arenas, AllocateNew(a) PROVE Contract!Next
  <2>1. out[a] = {}
    BY <1>0, <1>2, ArenaFacts DEF AllocateNew
  <2>2. 0 \in Blocks
    BY CapacityAssumption DEF Blocks
  <2>3. Contract!Alloc(a, 0)
    BY <1>0, <1>2, <2>1 DEF AllocateNew, OwnerIdle, Contract!Alloc, TypeOK
  <2> QED BY <2>2, <2>3
<1>3. ASSUME NEW a \in Arenas, NEW b \in Blocks, Deallocate(a, b)
      PROVE Contract!Next
  <2>1. /\ a \in used /\ b \in out[a] /\ tla = "owned" /\ tla' = tla
        /\ out' = [out EXCEPT ![a] = @ \ {b}] /\ out'[a] = out[a] \ {b}
        /\ AddFreed(a, 1) /\ UNCHANGED value
    BY <1>0, <1>3 DEF Deallocate, Held, OwnerIdle, TypeOK
  <2>2. used' # used => used' = used \ {a} /\ out'[a] = {}
    <3>1. ASSUME freed[a] + 1 = top[a] PROVE out'[a] = {}
      <4>1. Cardinality(out'[a]) = 0 /\ IsFiniteSet(out'[a])
        BY <1>0, <2>1, <3>1, ArenaFacts
      <4> QED BY <4>1, FS_EmptySet
    <3> QED BY <2>1, <3>1 DEF AddFreed
  <2>3. Contract!Free(a, b)
    BY <2>1, <2>2 DEF Contract!Free
  <2> QED BY <2>3
<1>4. ASSUME NEW t \in Threads, RetireDataCas(t) PROVE Contract!Next
  <2>1. PICK a \in Arenas : a = arena[t]
    BY <1>0, <1>4, PtrFacts DEF RetireDataCas, TypeOK
  <2>2. block[t] \in out[a] /\ a \in used /\ tla # "destroyed" /\ block[t] \in Blocks
    <3>1. block[t] \in out[a] /\ block[t] \in Blocks
      BY <1>0, <1>4, <2>1 DEF RetireDataCas, Holders, Freeing, TypeOK
    <3> QED BY <1>0, <3>1, ArenaFacts DEF Control
  <2>3. Contract!Free(a, block[t])
    BY <1>4, <2>1, <2>2 DEF RetireDataCas, Contract!Free
  <2> QED BY <2>2, <2>3
<1>5. CASE ReclaimResetExchange
  <2>1. PICK a \in Arenas : a = rarena
    BY <1>0, <1>5, PtrFacts DEF ReclaimResetExchange, TypeOK
  <2>2. /\ a \in used /\ tla # "destroyed" /\ AddFreed(a, value[a])
        /\ UNCHANGED <<tla, out>>
    <3>1. value[a] > 0
      BY <1>0, <1>5, <2>1 DEF ReclaimResetExchange, Waiting
    <3> QED BY <1>0, <1>5, <2>1, <3>1, ArenaFacts DEF ReclaimResetExchange, Control
  <2>3. CASE freed[a] + value[a] = top[a]
    <3>1. Cardinality(out[a]) = 0 /\ IsFiniteSet(out[a])
      BY <1>0, <2>3, ArenaFacts
    <3>2. out[a] = {}
      BY <3>1, FS_EmptySet
    <3>3. Contract!Release(a)
      BY <2>2, <2>3, <3>2 DEF AddFreed, Contract!Release
    <3> QED BY <3>3
  <2>4. CASE freed[a] + value[a] # top[a]
    BY <2>2, <2>4 DEF AddFreed
  <2> QED BY <2>3, <2>4
<1>6. CASE FinishReclaim
  <2>1. tla # "destroyed" /\ UNCHANGED <<used, out>>
    BY <1>0, <1>6 DEF FinishReclaim, Control
  <2>2. tla' = "destroyed" => used = {}
    BY <1>6 DEF FinishReclaim
  <2> QED BY <2>1, <2>2 DEF Contract!Destroy
<1>7. CASE CreateTla
  BY <1>7 DEF CreateTla, Contract!Create
<1> QED
  BY <1>0, <1>1, <1>2, <1>3, <1>4, <1>5, <1>6, <1>7, QuietSteps DEF Next, Reclaimer

\* To the clients of a TLA, deferred and direct frees look alike: a block is
\* handed out again, and an arena or the TLA given away, only after its free.
THEOREM Implements == Spec => ImplementsContract
<1>1. Init => Contract!Init
  BY DEF Init, Contract!Init
<1> QED BY <1>1, ContractStep, Invariant, PTL DEF Spec, ImplementsContract, Contract!Spec

-----------------------------------------------------------------------------
(* What becomes of deferred frees if arenas are created with the flag up.  *)

\* No thread can see a flag that is down, so none queues an arena.
FlagStaysUp ==
  /\ \A a \in used : flag[a]
  /\ \A t \in Threads : pc[t] = "cas" => seen[t].retired
  /\ \A t \in Threads : pc[t] \notin Pushing
  /\ rpc \notin {"check", "reset"}
  /\ rootSeq = <<>> /\ claimSeq = <<>> /\ postSeq = <<>>

\* A flag that is up stays up, and its arena is queued by nobody.
LEMMA FlagStaysUpStep ==
  ASSUME InitialRetired, IInv, FlagStaysUp, [Next]_vars PROVE FlagStaysUp'
<1>0. /\ TypeOK /\ Control /\ Accounts /\ Holders
      /\ rlist = Null /\ root.ptr = Null /\ postponed = Null
  BY DEF IInv, ListsIntact, IsList, FlagStaysUp
<1> USE DEF FlagStaysUp
<1>1. ASSUME NEW a \in Arenas, Allocate(a) PROVE FlagStaysUp'
  BY <1>1 DEF Allocate
<1>2. ASSUME NEW a \in Arenas, AllocateNew(a) PROVE FlagStaysUp'
  BY <1>0, <1>2 DEF AllocateNew, TypeOK
<1>3. ASSUME NEW a \in Arenas, NEW b \in Blocks, Deallocate(a, b)
      PROVE FlagStaysUp'
  BY <1>3 DEF Deallocate, AddFreed
<1>4. ASSUME NEW t \in Threads, NEW a \in Arenas, NEW b \in Blocks,
             StartRetire(t, a, b)
      PROVE FlagStaysUp'
  BY <1>0, <1>4 DEF StartRetire, TypeOK, Pushing
<1>5. ASSUME NEW t \in Threads, RetireDataLoad(t) \/ RetireDataRetry(t)
      PROVE FlagStaysUp'
  <2>1. pc[t] \in Freeing /\ arena[t] \in Arenas
    BY <1>0, <1>5, PtrFacts DEF RetireDataLoad, RetireDataRetry, Freeing, TypeOK
  <2>2. arena[t] \in used
    BY <1>0, <2>1, ArenaFacts DEF Holders
  <2>3. CurrentWord(arena[t]).retired
    BY <2>2 DEF CurrentWord
  <2> QED BY <1>0, <1>5, <2>3
          DEF RetireDataLoad, RetireDataRetry, TypeOK, Pushing
<1>6. ASSUME NEW t \in Threads, RetireDataCas(t) PROVE FlagStaysUp'
  <2>1. /\ pc'[t] = "idle" /\ \A u \in Threads \ {t} : pc'[u] = pc[u] /\ seen'[u] = seen[u]
        /\ UNCHANGED <<used, rpc, listVars>>
    BY <1>0, <1>6 DEF RetireDataCas, AfterRetireData, Return, TypeOK
  <2>2. \A a \in used : flag'[a]
    BY <1>0, <1>6 DEF RetireDataCas, TypeOK
  <2> QED BY <2>1, <2>2 DEF Pushing
<1>7. ASSUME NEW t \in Threads,
             RetirePtrLoad(t) \/ RetirePtrLink(t) \/ RetirePtrCas(t) \/ RetirePtrRetry(t)
      PROVE FALSE
  BY <1>7 DEF RetirePtrLoad, RetirePtrLink, RetirePtrCas, RetirePtrRetry, Pushing
<1>8. CASE Reclaimer \/ Postpone
  BY <1>0, <1>8 DEF Reclaimer, ReclaimPostponed, ReclaimLoad, ReclaimExchange, PopArena,
                    ReclaimResetLoad, ReclaimResetExchange, FinishReclaim, Postpone
<1>9. CASE Exit \/ Excavate \/ Adopt \/ CreateTla \/ UNCHANGED vars
  BY <1>9 DEF Exit, Excavate, Adopt, CreateTla
<1> QED BY <1>1, <1>2, <1>3, <1>4, <1>5, <1>6, <1>7, <1>8, <1>9 DEF Next, Retirer

\* With arenas created as construct_arena_ creates them, whatever the threads
\* do, no arena is ever queued for its owner: what other threads free is lost.
THEOREM NeverQueued ==
  ASSUME InitialRetired PROVE Spec => []NothingQueued
<1>1. Init => FlagStaysUp
  BY DEF Init, FlagStaysUp, Pushing
<1>2. FlagStaysUp => NothingQueued
  BY EmptyFacts DEF FlagStaysUp, NothingQueued, Pusher, Queued, InReclaim
<1>3. IInv /\ FlagStaysUp /\ [Next]_vars => FlagStaysUp'
  BY FlagStaysUpStep
<1> QED BY Invariant, <1>1, <1>2, <1>3, PTL DEF Spec

\* A block that is missing from an arena keeps the arena from being reset.
LEMMA RetiredStays ==
  ASSUME IInv, FlagStaysUp, [Next]_vars,
         NEW a \in Arenas, value[a] > 0
  PROVE  a \in used' /\ value'[a] >= value[a]
<1>0. TypeOK /\ Accounts /\ rpc # "reset"
  BY DEF IInv, FlagStaysUp
<1>1. /\ a \in used /\ value \in [Arenas -> 0 .. Capacity]
      /\ value[a] \in Nat /\ freed[a] \in Nat /\ Cardinality(out[a]) \in Nat
      /\ top[a] = freed[a] + value[a] + Cardinality(out[a])
  <2>1. value \in [Arenas -> 0 .. Capacity] /\ value[a] \in Nat /\ freed[a] \in Nat
        /\ Cardinality(out[a]) \in Nat
        /\ top[a] = freed[a] + value[a] + Cardinality(out[a])
    BY <1>0, ArenaFacts DEF TypeOK
  <2>2. a \notin used => value[a] = 0
    BY <1>0, ArenaFacts
  <2> QED BY <2>1, <2>2
<1>2. ASSUME NEW c \in Arenas, AllocateNew(c) PROVE a \in used' /\ value'[a] >= value[a]
  BY <1>1, <1>2 DEF AllocateNew
<1>3. ASSUME NEW c \in Arenas, NEW b \in Blocks, Deallocate(c, b)
      PROVE a \in used' /\ value'[a] >= value[a]
  <2>1. c = a => freed[c] + 1 # top[c]
    <3> SUFFICES ASSUME c = a PROVE freed[a] + 1 < top[a]
      BY <1>1
    <3>1. Cardinality(out[a]) >= 1
      BY <1>0, <1>3, ArenaFacts DEF Deallocate, Held
    <3> QED BY <1>1, <3>1
  <2> QED BY <1>1, <1>3, <2>1 DEF Deallocate, AddFreed
<1>4. ASSUME NEW t \in Threads, RetireDataCas(t) PROVE a \in used' /\ value'[a] >= value[a]
  BY <1>1, <1>4 DEF RetireDataCas
<1>5. ASSUME UNCHANGED <<used, value>> PROVE a \in used' /\ value'[a] >= value[a]
  BY <1>1, <1>5
<1>6. ASSUME NEW c \in Arenas, Allocate(c) PROVE UNCHANGED <<used, value>>
  BY <1>6 DEF Allocate
<1>7. ASSUME NEW t \in Threads, Retirer(t), ~ RetireDataCas(t) PROVE UNCHANGED <<used, value>>
  BY <1>7 DEF Retirer, RetireDataLoad, RetireDataRetry, RetirePtrLoad, RetirePtrLink,
              RetirePtrCas, RetirePtrRetry
<1>8. ASSUME NEW t \in Threads, NEW c \in Arenas, NEW b \in Blocks, StartRetire(t, c, b)
      PROVE UNCHANGED <<used, value>>
  BY <1>8 DEF StartRetire
<1>9. CASE Reclaimer \/ Postpone \/ Exit \/ Excavate \/ Adopt \/ CreateTla \/ UNCHANGED vars
  <2>1. UNCHANGED <<used, value>>
    BY <1>0, <1>9 DEF Reclaimer, ReclaimPostponed, ReclaimLoad, ReclaimExchange, PopArena,
                      ReclaimResetLoad, ReclaimResetExchange, FinishReclaim, Postpone,
                      Exit, Excavate, Adopt, CreateTla
  <2> QED BY <1>5, <2>1
<1> QED BY <1>2, <1>3, <1>4, <1>5, <1>6, <1>7, <1>8, <1>9 DEF Next

\* Nor is the loss made good: with arenas created as construct_arena_ creates
\* them, an arena some of whose blocks another thread freed keeps its chunk for
\* ever, and with it (MemoryStays) the TLA it belongs to.
THEOREM NoneComesHome ==
  ASSUME InitialRetired PROVE Spec => NeverComesHome
<1>1. Init => FlagStaysUp
  BY DEF Init, FlagStaysUp, Pushing
<1>2. IInv /\ FlagStaysUp /\ [Next]_vars => FlagStaysUp'
  BY FlagStaysUpStep
<1>3. IInv /\ FlagStaysUp /\ [Next]_vars
      => [\A a \in Arenas : value[a] > 0 => a \in used' /\ value'[a] >= value[a]]_vars
  BY RetiredStays
<1> QED BY Invariant, <1>1, <1>2, <1>3, PTL DEF Spec, NeverComesHome
=============================================================================
