---------------------------- MODULE ThreadGraveyard ----------------------------
(***************************************************************************)
(* The graveyard of dead thread-local allocators as it is built, with      *)
(* CUW3_SIMPLIFY_GRAVEYARD (thread_graveyard.hpp), on the list it rests on *)
(* (AtomicPushSnatchList, atomic.hpp).  The list can only be snatched as a *)
(* whole: whoever digs takes it all, keeps the first TLA and pushes the    *)
(* rest back, which takes a walk to the tail of the rest, along links and  *)
(* along skip pointers that were set when a node was at the front of some  *)
(* other list.  Accesses to the shared head are actions of their own; the  *)
(* links belong to the thread that has the nodes.                          *)
(***************************************************************************)
EXTENDS Naturals, Sequences

CONSTANTS
  Tlas,      \* graveyard entries, one in each thread-local allocator
  Threads,
  Null       \* nullptr

ASSUME NullAssumption == Null \notin Tlas

VARIABLES
  head,      \* ThreadGraveyard::dead_queue
  next,      \* DefaultThreadGraveyardEntry::next
  skip,      \* DefaultThreadGraveyardEntry::skip, a hint at the tail
  spare,     \* TLAs that are no more than memory
  held,      \* held[t]: the TLAs in the hands of thread t
  pc,
  chain,     \* list_head of push
  old,       \* head_old of push
  tail,      \* skip, then list_tail, of push
  queueSeq,  \* history: the list at head
  chainSeq   \* history: the list thread t is pushing

entryVars == <<next, skip>>
ownerVars == <<spare, held>>
pushVars == <<chain, old, tail>>
vars == <<head, entryVars, ownerVars, pc, pushVars, queueSeq, chainSeq>>

Links == Tlas \cup {Null}
PushPcs == {"load", "tail", "cas"}
Pcs == {"idle", "exchange"} \cup PushPcs

Init ==
  /\ head = Null
  /\ next = [n \in Tlas |-> Null]
  /\ skip = [n \in Tlas |-> Null]
  /\ spare = Tlas
  /\ held = [t \in Threads |-> {}]
  /\ pc = [t \in Threads |-> "idle"]
  /\ chain = [t \in Threads |-> Null]
  /\ old = [t \in Threads |-> Null]
  /\ tail = [t \in Threads |-> Null]
  /\ queueSeq = <<>>
  /\ chainSeq = [t \in Threads |-> <<>>]

-----------------------------------------------------------------------------
(* The life of a TLA outside.                                              *)

\* ThreadLocalAllocator::create, for a thread that has no TLA yet: the entry is
\* value-initialized.
Create(t, n) ==
  /\ pc[t] = "idle" /\ held[t] = {}
  /\ n \in spare
  /\ spare' = spare \ {n}
  /\ held' = [held EXCEPT ![t] = @ \cup {n}]
  /\ next' = [next EXCEPT ![n] = Null]
  /\ skip' = [skip EXCEPT ![n] = Null]
  /\ UNCHANGED <<head, pc, pushVars, queueSeq, chainSeq>>

\* A TLA that gave everything back is destroyed and its memory unmapped;
\* empty_grave() has nothing to do in this build.
Destroy(t, n) ==
  /\ pc[t] = "idle"
  /\ n \in held[t]
  /\ held' = [held EXCEPT ![t] = @ \ {n}]
  /\ spare' = spare \cup {n}
  /\ next' = [next EXCEPT ![n] = Null]
  /\ skip' = [skip EXCEPT ![n] = Null]
  /\ UNCHANGED <<head, pc, pushVars, queueSeq, chainSeq>>

-----------------------------------------------------------------------------
(* AtomicPushSnatchList::push                                              *)

\* The list that starts with node is pushed; s is that list.
StartPush(t, node, s) ==
  /\ pc' = [pc EXCEPT ![t] = "load"]
  /\ chain' = [chain EXCEPT ![t] = node]
  /\ chainSeq' = [chainSeq EXCEPT ![t] = s]
  /\ UNCHANGED <<old, tail>>

\* Wrong on purpose: a node without next is not told apart.
GetSkip_NoTailTest(n) == IF skip[n] # n THEN skip[n] ELSE next[n]

\* get_skip: the skip pointer, unless it says nothing.
GetSkip(n) == IF next[n] = Null THEN n
              ELSE IF skip[n] # n THEN skip[n] ELSE next[n]

\* The head is read before the tail is searched.
LoadHead(t) ==
  /\ pc[t] = "load"
  /\ old' = [old EXCEPT ![t] = head]
  /\ tail' = [tail EXCEPT ![t] = GetSkip(chain[t])]
  /\ pc' = [pc EXCEPT ![t] = "tail"]
  /\ UNCHANGED <<head, entryVars, ownerVars, chain, queueSeq, chainSeq>>

\* get_tail, one hop.
TailHop(t) ==
  /\ pc[t] = "tail"
  /\ GetSkip(tail[t]) # tail[t]
  /\ tail' = [tail EXCEPT ![t] = GetSkip(@)]
  /\ UNCHANGED <<head, entryVars, ownerVars, pc, chain, old, queueSeq, chainSeq>>

\* The first node is told where the tail is, and the tail gets the list seen.
TailFound(t) ==
  /\ pc[t] = "tail"
  /\ GetSkip(tail[t]) = tail[t]
  /\ skip' = [skip EXCEPT ![chain[t]] = tail[t]]
  /\ next' = [next EXCEPT ![tail[t]] = old[t]]
  /\ pc' = [pc EXCEPT ![t] = "cas"]
  /\ UNCHANGED <<head, ownerVars, pushVars, queueSeq, chainSeq>>

\* The locals of a push that is over.
Forget(t) ==
  /\ pc' = [pc EXCEPT ![t] = "idle"]
  /\ chain' = [chain EXCEPT ![t] = Null]
  /\ old' = [old EXCEPT ![t] = Null]
  /\ tail' = [tail EXCEPT ![t] = Null]
  /\ chainSeq' = [chainSeq EXCEPT ![t] = <<>>]

\* Wrong on purpose: a store in place of the CAS.
PushCas_Store(t) ==
  /\ pc[t] = "cas"
  /\ head' = chain[t]
  /\ queueSeq' = IF head = old[t] THEN chainSeq[t] \o queueSeq ELSE chainSeq[t]
  /\ Forget(t)
  /\ UNCHANGED <<entryVars, ownerVars>>

\* The head may have been another in between: all that counts is that it is the
\* one the tail is linked to.
PushCas(t) ==
  /\ pc[t] = "cas"
  /\ head = old[t]
  /\ head' = chain[t]
  /\ queueSeq' = chainSeq[t] \o queueSeq
  /\ Forget(t)
  /\ UNCHANGED <<entryVars, ownerVars>>

\* Wrong on purpose: the tail is linked again, to the head that was seen first.
PushRetry_Stale(t) ==
  /\ pc[t] = "cas"
  /\ head # old[t]
  /\ next' = [next EXCEPT ![tail[t]] = old[t]]
  /\ UNCHANGED <<head, skip, ownerVars, pc, pushVars, queueSeq, chainSeq>>

\* A failed CAS leaves the head it found; the tail is linked to that one.
PushRetry(t) ==
  /\ pc[t] = "cas"
  /\ head # old[t]
  /\ old' = [old EXCEPT ![t] = head]
  /\ next' = [next EXCEPT ![tail[t]] = head]
  /\ UNCHANGED <<head, skip, ownerVars, pc, chain, tail, queueSeq, chainSeq>>

-----------------------------------------------------------------------------
(* ThreadGraveyard                                                         *)

\* Wrong on purpose: the skip pointer of an earlier stay is kept.
PutThread_NoResetSkip(t, n) ==
  /\ pc[t] = "idle"
  /\ n \in held[t]
  /\ held' = [held EXCEPT ![t] = @ \ {n}]
  /\ next' = [next EXCEPT ![n] = Null]
  /\ StartPush(t, n, <<n>>)
  /\ UNCHANGED <<head, skip, spare, queueSeq>>

\* Wrong on purpose: the link of an earlier stay is kept.
PutThread_NoResetNext(t, n) ==
  /\ pc[t] = "idle"
  /\ n \in held[t]
  /\ held' = [held EXCEPT ![t] = @ \ {n}]
  /\ skip' = [skip EXCEPT ![n] = n]
  /\ StartPush(t, n, <<n>>)
  /\ UNCHANGED <<head, next, spare, queueSeq>>

\* put_thread and release_thread: a TLA dies, or goes back after a cleanup.
PutThread(t, n) ==
  /\ pc[t] = "idle"
  /\ n \in held[t]
  /\ held' = [held EXCEPT ![t] = @ \ {n}]
  /\ next' = [next EXCEPT ![n] = Null]
  /\ skip' = [skip EXCEPT ![n] = n]
  /\ StartPush(t, n, <<n>>)
  /\ UNCHANGED <<head, spare, queueSeq>>

\* acquire, by a thread without a TLA or with its own alone, the first look of
\* snatch(): nothing there, nothing done.
Acquire(t) ==
  /\ pc[t] = "idle" /\ \A m, n \in held[t] : m = n
  /\ head # Null
  /\ pc' = [pc EXCEPT ![t] = "exchange"]
  /\ UNCHANGED <<head, entryVars, ownerVars, pushVars, queueSeq, chainSeq>>

\* The list is empty by the time it is snatched: acquire returns nothing.
SnatchNothing(t) ==
  /\ pc[t] = "exchange"
  /\ head = Null
  /\ pc' = [pc EXCEPT ![t] = "idle"]
  /\ UNCHANGED <<head, entryVars, ownerVars, pushVars, queueSeq, chainSeq>>

\* Wrong on purpose: the list is read, not taken, while its rest is pushed back.
Snatch_Load(t) ==
  /\ pc[t] = "exchange"
  /\ head # Null
  /\ held' = [held EXCEPT ![t] = @ \cup {head}]
  /\ IF next[head] = Null
       THEN /\ pc' = [pc EXCEPT ![t] = "idle"]
            /\ head' = Null /\ queueSeq' = <<>>
            /\ UNCHANGED <<pushVars, chainSeq>>
       ELSE /\ StartPush(t, next[head], Tail(queueSeq))
            /\ UNCHANGED <<head, queueSeq>>
  /\ UNCHANGED <<entryVars, spare>>

\* The list is snatched: its first TLA is the caller's, the rest is pushed back
\* before acquire returns.
Snatch(t) ==
  /\ pc[t] = "exchange"
  /\ head # Null
  /\ head' = Null
  /\ queueSeq' = <<>>
  /\ held' = [held EXCEPT ![t] = @ \cup {head}]
  /\ IF next[head] = Null
       THEN /\ pc' = [pc EXCEPT ![t] = "idle"]
            /\ UNCHANGED <<pushVars, chainSeq>>
       ELSE StartPush(t, next[head], Tail(queueSeq))
  /\ UNCHANGED <<entryVars, spare>>

-----------------------------------------------------------------------------
Step(t) == \/ SnatchNothing(t) \/ Snatch(t) \/ LoadHead(t) \/ TailHop(t)
           \/ TailFound(t) \/ PushCas(t) \/ PushRetry(t)

Next == \E t \in Threads :
          \/ \E n \in Tlas : Create(t, n) \/ Destroy(t, n) \/ PutThread(t, n)
          \/ Acquire(t)
          \/ Step(t)

Spec == Init /\ [][Next]_vars

-----------------------------------------------------------------------------
(* Properties.                                                             *)

\* A push has a list to push, and from its first hop on a node to hop from.
TypeOK ==
  /\ head \in Links
  /\ next \in [Tlas -> Links]
  /\ skip \in [Tlas -> Links]
  /\ spare \subseteq Tlas
  /\ held \in [Threads -> SUBSET Tlas]
  /\ pc \in [Threads -> Pcs]
  /\ chain \in [Threads -> Links]
  /\ old \in [Threads -> Links]
  /\ tail \in [Threads -> Links]
  /\ queueSeq \in Seq(Tlas)
  /\ chainSeq \in [Threads -> Seq(Tlas)]
  /\ \A t \in Threads : /\ pc[t] \in PushPcs => chain[t] \in Tlas
                        /\ pc[t] \in {"tail", "cas"} => tail[t] \in Tlas

Elems(s) == {s[i] : i \in 1 .. Len(s)}

\* The TLAs in the graveyard: on its list, or in a list that is pushed back.
Buried == Elems(queueSeq) \cup UNION {Elems(chainSeq[t]) : t \in Threads}

NoRepeat(s) == \A i, j \in 1 .. Len(s) : s[i] = s[j] => i = j

\* A TLA is in one place: memory, one thread's hands, or one list of the graveyard,
\* at one position; a snatch takes a list away from everybody else.
EachTlaOnce ==
  /\ Tlas = spare \cup Buried \cup UNION {held[t] : t \in Threads}
  /\ spare \cap Buried = {}
  /\ NoRepeat(queueSeq)
  /\ \A t \in Threads :
       /\ held[t] \cap (spare \cup Buried) = {}
       /\ NoRepeat(chainSeq[t])
       /\ Elems(chainSeq[t]) \cap Elems(queueSeq) = {}
       /\ \A u \in Threads \ {t} : /\ held[t] \cap held[u] = {}
                                   /\ Elems(chainSeq[t]) \cap Elems(chainSeq[u]) = {}

\* The links from first spell out s, and its last node is linked to end.
IsList(first, s, end) ==
  /\ first = IF s = <<>> THEN end ELSE s[1]
  /\ \A i \in 1 .. Len(s) : next[s[i]] = IF i < Len(s) THEN s[i + 1] ELSE end

\* What is in the graveyard can be reached by links: from the head to a null link,
\* and in a list that is pushed back from its first node to a null link, or, once
\* the tail was found, to the head the CAS expects.
ListsIntact ==
  /\ IsList(head, queueSeq, Null)
  /\ \A t \in Threads :
       /\ pc[t] \in PushPcs <=> chainSeq[t] # <<>>
       /\ pc[t] \in PushPcs =>
            IsList(chain[t], chainSeq[t], IF pc[t] = "cas" THEN old[t] ELSE Null)

\* The skip pointer of a node of s is at that node or at a later one.
SkipsForward(s) ==
  \A i \in 1 .. Len(s) : \E j \in i .. Len(s) : skip[s[i]] = s[j]

\* However old a skip pointer is, and whatever lists its node was in since, it never
\* leads back or out of the list, so the walk that uses it ends at the tail: the
\* node that is linked to the old head is the last one of the list.
SkipsLeadToTail ==
  /\ SkipsForward(queueSeq)
  /\ \A t \in Threads :
       /\ SkipsForward(chainSeq[t])
       /\ pc[t] = "tail" => tail[t] \in Elems(chainSeq[t])
       /\ pc[t] = "cas" => tail[t] = chainSeq[t][Len(chainSeq[t])]

PositionIn(s, n) == CHOOSE i \in 1 .. Len(s) : s[i] = n

\* The accesses a call needs at most before its CAS.
StepsLeft(t) ==
  CASE pc[t] = "exchange" -> Len(queueSeq) + 1
    [] pc[t] = "load" -> Len(chainSeq[t]) + 1
    [] pc[t] = "tail" -> Len(chainSeq[t]) - PositionIn(chainSeq[t], tail[t]) + 1
    [] OTHER -> 0

\* The walk to the tail goes forward with every hop, whatever skip pointers it finds, so
\* that acquire and put_thread return after two steps more than there are TLAs at most,
\* not counting the CASes that fail because another thread was faster (push, get_tail).
CallAdvances ==
  [][\A t \in Threads :
       Step(t) => \/ pc'[t] = "idle"
                  \/ PushRetry(t)
                  \/ StepsLeft(t)' < StepsLeft(t)]_vars

\* The list and its pushers are a graveyard: no TLA is lost or dug up twice.
Contract == INSTANCE Graveyard WITH buried <- Buried
ImplementsGraveyard == Contract!Spec

\* A thread in the middle of a call is scheduled again.
Fairness == \A t \in Threads : WF_vars(Step(t))

FairSpec == Spec /\ Fairness

\* A call that ends: acquire with nothing or with the only TLA, or a push.
Return(t) == pc[t] # "idle" /\ Step(t) /\ pc'[t] = "idle"

\* A thread that fails at its CAS for ever does so because others get through:
\* while a call is under way again and again, calls end again and again.
LockFree ==
  []<>(\E t \in Threads : pc[t] # "idle") =>
    []<><<\E t \in Threads : Return(t)>>_vars

\* A thread that is not in a call digs again and again.
DiggingSpec ==
  FairSpec /\ \A t \in Threads : WF_vars(Acquire(t)) /\ SF_vars(Snatch(t))

BirthOrDeath == \E t \in Threads, n \in Tlas : Create(t, n) \/ Destroy(t, n)

\* What "pick random tla" (allocator.hpp:466) says of the digging: when it goes on
\* and on, among the same TLAs, every buried TLA has its turn.  The code digs where
\* it buried last, so this is false.
NoneForgotten ==
  <>[][~ BirthOrDeath]_vars => \A n \in Tlas : n \in Buried ~> n \notin Buried
=============================================================================
