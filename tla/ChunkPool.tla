------------------------------- MODULE ChunkPool -------------------------------
(***************************************************************************)
(* The pools that hand out the chunks of one region                        *)
(* (region_chunk_allocator.hpp, atomic.hpp).  The handles of a region are  *)
(* dealt out to NumSplits pools; each pool is a stack of handles that were *)
(* never used, which only ever grows, and a list of handles that came      *)
(* back, whose head carries a version.  All of it is shared by all threads *)
(* without locks, so every access to a shared word is one action.          *)
(* Regions share nothing; the choice of a region is not modelled here.     *)
(***************************************************************************)
EXTENDS Integers, Sequences, FiniteSets

CONSTANTS
  NumHandles,    \* handles (chunks) of the region
  NumSplits,     \* Pools::num_splits, a power of two
  Threads,
  NullLink,      \* region_chunk_pool_null_link
  Rounds,        \* RegionChunkAllocParams::rounds, -1 for no limit
  Attempts,      \* RegionChunkAllocParams::attempts, -1 for no limit
  VersionLimit   \* versions a list head can have, 2^32 in the code

ASSUME SizeAssumption == NumHandles \in Nat /\ NumSplits \in Nat \ {0}
ASSUME NullAssumption == NullLink \notin 0 .. NumHandles - 1
ASSUME ParamAssumption == /\ Rounds \in Int /\ Attempts \in Int
                          /\ VersionLimit \in Nat \ {0}
ASSUME ThreadsAssumption == IsFiniteSet(Threads)

VARIABLES
  head,    \* RegionPoolEntry::free_list of each split
  top,     \* RegionPoolEntry::free_stack of each split
  next,    \* pool_handles: the link of each handle, kept while the chunk is used
  given,   \* the handles of the chunks in clients' hands
  pc,
  rounds, start, k, split, failed,  \* allocate_chunk, allocate_chunk_
  old, link, attempts,              \* push, pop
  mine,    \* the handle a thread is giving back
  list     \* history: the handles on each split's list, in order

sharedVars == <<head, top, next, list>>
scanVars == <<rounds, start, k, split, failed>>
casVars == <<old, link, attempts>>
vars == <<sharedVars, given, pc, scanVars, casVars, mine>>

Handles == 0 .. NumHandles - 1
Links == Handles \cup {NullLink}
Splits == 0 .. NumSplits - 1
Versions == 0 .. VersionLimit - 1
HeadType == [version : Versions, next : Links]

Smaller(i, j) == IF i < j THEN i ELSE j   \* std::min

\* RegionChunkAllocatorPools::create: the splits get equal shares, the last ones
\* what is left.
HandlesPerSplit == (NumHandles + NumSplits - 1) \div NumSplits
FirstHandle(s) == Smaller(HandlesPerSplit * s, NumHandles)
LastHandle(s) == Smaller(HandlesPerSplit * (s + 1), NumHandles)

\* search_pool_split: the first split whose sentinel is above the handle.
SplitOf(h) == CHOOSE s \in Splits : /\ h < LastHandle(s)
                                    /\ \A r \in Splits : r < s => h >= LastHandle(r)

\* Wrong on purpose: an even step leaves splits out.
NextSplit_Even(s, step) == (s + 2 * step) % NumSplits

\* Wrong on purpose: the mask is forgotten.
NextSplit_NoMask(s, step) == s + step

NextSplit(s, step) == (s + step) % NumSplits

NoHead == [version |-> 0, next |-> NullLink]

Elems(s) == {s[i] : i \in 1 .. Len(s)}

PopPcs == {"pop_load", "pop_next", "pop_cas"}
BumpPcs == {"bump_load", "bump_add", "bump_sub"}
PushPcs == {"push_load", "push_link", "push_cas"}
Pcs == {"idle"} \cup PopPcs \cup BumpPcs \cup PushPcs

Pushers(s) == {t \in Threads : pc[t] \in PushPcs /\ split[t] = s}

\* The versions a split uses up before it rests: one for each handle on its list,
\* two for each on its way there.  A handle is given back only when it leaves
\* some over, so no version comes round again in the model.
VersionsDue(s) == Len(list[s]) + 2 * Cardinality(Pushers(s))
VersionsLeft(s) == head[s].version + VersionsDue(s) + 2 < VersionLimit

Init ==
  /\ head = [s \in Splits |-> NoHead]
  /\ top = [s \in Splits |-> FirstHandle(s)]
  /\ next = [h \in Handles |-> 0]   \* fresh pages
  /\ given = {}
  /\ pc = [t \in Threads |-> "idle"]
  /\ rounds = [t \in Threads |-> 0]
  /\ start = [t \in Threads |-> 0]
  /\ k = [t \in Threads |-> 0]
  /\ split = [t \in Threads |-> 0]
  /\ failed = [t \in Threads |-> FALSE]
  /\ old = [t \in Threads |-> NoHead]
  /\ link = [t \in Threads |-> NullLink]
  /\ attempts = [t \in Threads |-> 0]
  /\ mine = [t \in Threads |-> NullLink]
  /\ list = [s \in Splits |-> <<>>]

-----------------------------------------------------------------------------
(* allocate_chunk: up to Rounds times over all splits, from start on; the  *)
(* list of a split first, then its stack.                                  *)

\* tla->last_chunk_pool_split_id can be any split a chunk came from before.
StartAllocate(t, s) ==
  /\ pc[t] = "idle"
  /\ Rounds # 0
  /\ rounds' = [rounds EXCEPT ![t] = Rounds]
  /\ start' = [start EXCEPT ![t] = s]
  /\ k' = [k EXCEPT ![t] = 0]
  /\ split' = [split EXCEPT ![t] = NextSplit(s, 0)]
  /\ failed' = [failed EXCEPT ![t] = FALSE]
  /\ pc' = [pc EXCEPT ![t] = "pop_load"]
  /\ UNCHANGED <<sharedVars, given, casVars, mine>>

\* The locals of pop() and push() when they return.
ForgetList(t) ==
  /\ old' = [old EXCEPT ![t] = NoHead]
  /\ link' = [link EXCEPT ![t] = NullLink]
  /\ attempts' = [attempts EXCEPT ![t] = 0]

\* A call that is over leaves nothing in its locals.
Forget(t) ==
  /\ pc' = [pc EXCEPT ![t] = "idle"]
  /\ rounds' = [rounds EXCEPT ![t] = 0]
  /\ start' = [start EXCEPT ![t] = 0]
  /\ k' = [k EXCEPT ![t] = 0]
  /\ split' = [split EXCEPT ![t] = 0]
  /\ failed' = [failed EXCEPT ![t] = FALSE]
  /\ mine' = [mine EXCEPT ![t] = NullLink]
  /\ ForgetList(t)

\* Wrong on purpose: rounds are counted the other way round.
RoundsLeft_Swapped(left, givenUp) ==
  IF ~ givenUp \/ left < 0 THEN left ELSE left - 1

\* A round that found every split empty counts, one that gave a list up does not.
RoundsLeft(left, givenUp) ==
  IF givenUp \/ left < 0 THEN left ELSE left - 1

\* Nothing in this split; f says whether its list was given up under contention.
\* After the last split the next round starts, if there is one.
LeaveSplit(t, f) ==
  LET givenUp == failed[t] \/ f
      left == RoundsLeft(rounds[t], givenUp)
  IN IF k[t] + 1 < NumSplits
       THEN /\ k' = [k EXCEPT ![t] = @ + 1]
            /\ split' = [split EXCEPT ![t] = NextSplit(@, 1)]
            /\ failed' = [failed EXCEPT ![t] = givenUp]
            /\ pc' = [pc EXCEPT ![t] = "pop_load"]
            /\ ForgetList(t)
            /\ UNCHANGED <<rounds, start, mine>>
       ELSE IF left = 0
         THEN Forget(t)
         ELSE /\ rounds' = [rounds EXCEPT ![t] = left]
              /\ k' = [k EXCEPT ![t] = 0]
              /\ split' = [split EXCEPT ![t] = NextSplit(start[t], 0)]
              /\ failed' = [failed EXCEPT ![t] = FALSE]
              /\ pc' = [pc EXCEPT ![t] = "pop_load"]
              /\ ForgetList(t)
              /\ UNCHANGED <<start, mine>>

\* The chunk of h belongs to the caller.
Acquire(t, h) == /\ given' = given \cup {h}
                 /\ Forget(t)

\* pop() looks at a head: an empty list sends it to the stack, without attempts
\* left it gives up.
LookAt(t, hd, left) ==
  IF left = 0
    THEN LeaveSplit(t, TRUE)
    ELSE IF hd.next = NullLink
      THEN /\ pc' = [pc EXCEPT ![t] = "bump_load"]
           /\ ForgetList(t)
           /\ UNCHANGED <<scanVars, mine>>
      ELSE /\ pc' = [pc EXCEPT ![t] = "pop_next"]
           /\ old' = [old EXCEPT ![t] = hd]
           /\ attempts' = [attempts EXCEPT ![t] = left]
           /\ UNCHANGED <<scanVars, link, mine>>

PopLoad(t) ==
  /\ pc[t] = "pop_load"
  /\ LookAt(t, head[split[t]], Attempts)
  /\ UNCHANGED <<sharedVars, given>>

\* get_next of a node that may have left the list since it was seen, or be on it
\* again with another link.
PopNext(t) ==
  /\ pc[t] = "pop_next"
  /\ link' = [link EXCEPT ![t] = next[old[t].next]]
  /\ pc' = [pc EXCEPT ![t] = "pop_cas"]
  /\ UNCHANGED <<sharedVars, given, scanVars, old, attempts, mine>>

Bumped(hd, node) ==
  [version |-> (hd.version + 1) % VersionLimit, next |-> node]

\* Wrong on purpose: a head without a version.
PopCas_NoVersion(t) ==
  LET s == split[t] IN
  /\ pc[t] = "pop_cas"
  /\ head[s].next = old[t].next
  /\ head' = [head EXCEPT ![s] = Bumped(@, link[t])]
  /\ list' = [list EXCEPT ![s] = Tail(@)]
  /\ Acquire(t, old[t].next)
  /\ UNCHANGED <<top, next>>

PopCas(t) ==
  LET s == split[t] IN
  /\ pc[t] = "pop_cas"
  /\ head[s] = old[t]
  /\ head' = [head EXCEPT ![s] = Bumped(old[t], link[t])]
  /\ list' = [list EXCEPT ![s] = Tail(@)]
  /\ Acquire(t, old[t].next)
  /\ UNCHANGED <<top, next>>

PopRetry(t) ==
  LET s == split[t] IN
  /\ pc[t] = "pop_cas"
  /\ head[s] # old[t]
  /\ LookAt(t, head[s], IF attempts[t] > 0 THEN attempts[t] - 1 ELSE attempts[t])
  /\ UNCHANGED <<sharedVars, given>>

\* Wrong on purpose: the overshoot is taken back though there was none.
BumpLoad_TakesBack(t) ==
  /\ pc[t] = "bump_load"
  /\ pc' = [pc EXCEPT ![t] = IF top[split[t]] >= LastHandle(split[t])
                              THEN "bump_sub" ELSE "bump_add"]
  /\ UNCHANGED <<sharedVars, given, scanVars, casVars, mine>>

BumpLoad(t) ==
  /\ pc[t] = "bump_load"
  /\ IF top[split[t]] >= LastHandle(split[t])
       THEN LeaveSplit(t, FALSE)
       ELSE /\ pc' = [pc EXCEPT ![t] = "bump_add"]
            /\ UNCHANGED <<scanVars, casVars, mine>>
  /\ UNCHANGED <<sharedVars, given>>

\* Wrong on purpose: the limit taken for the last handle.
BumpAdd_OffByOne(t) ==
  LET s == split[t] IN
  /\ pc[t] = "bump_add"
  /\ top' = [top EXCEPT ![s] = @ + 1]
  /\ IF top[s] <= LastHandle(s) /\ top[s] < NumHandles
       THEN Acquire(t, top[s])
       ELSE /\ pc' = [pc EXCEPT ![t] = "bump_sub"]
            /\ UNCHANGED <<given, scanVars, casVars, mine>>
  /\ UNCHANGED <<head, next, list>>

\* fetch_add; others may have taken the last handle since the load.
BumpAdd(t) ==
  LET s == split[t] IN
  /\ pc[t] = "bump_add"
  /\ top' = [top EXCEPT ![s] = @ + 1]
  /\ IF top[s] < LastHandle(s)
       THEN Acquire(t, top[s])
       ELSE /\ pc' = [pc EXCEPT ![t] = "bump_sub"]
            /\ UNCHANGED <<given, scanVars, casVars, mine>>
  /\ UNCHANGED <<head, next, list>>

\* An overshoot is taken back.
BumpSub(t) ==
  /\ pc[t] = "bump_sub"
  /\ top' = [top EXCEPT ![split[t]] = @ - 1]
  /\ LeaveSplit(t, FALSE)
  /\ UNCHANGED <<head, next, list, given>>

-----------------------------------------------------------------------------
(* deallocate_chunk: the handle is pushed on its split's list.             *)

StartDeallocate(t, h) ==
  /\ pc[t] = "idle"
  /\ h \in given
  /\ VersionsLeft(SplitOf(h))
  /\ given' = given \ {h}
  /\ mine' = [mine EXCEPT ![t] = h]
  /\ split' = [split EXCEPT ![t] = SplitOf(h)]
  /\ pc' = [pc EXCEPT ![t] = "push_load"]
  /\ UNCHANGED <<sharedVars, rounds, start, k, failed, casVars>>

PushLoad(t) ==
  /\ pc[t] = "push_load"
  /\ old' = [old EXCEPT ![t] = head[split[t]]]
  /\ pc' = [pc EXCEPT ![t] = "push_link"]
  /\ UNCHANGED <<sharedVars, given, scanVars, link, attempts, mine>>

PushLink(t) ==
  /\ pc[t] = "push_link"
  /\ next' = [next EXCEPT ![mine[t]] = old[t].next]
  /\ pc' = [pc EXCEPT ![t] = "push_cas"]
  /\ UNCHANGED <<head, top, list, given, scanVars, casVars, mine>>

PushCas(t) ==
  LET s == split[t] IN
  /\ pc[t] = "push_cas"
  /\ head[s] = old[t]
  /\ head' = [head EXCEPT ![s] = Bumped(old[t], mine[t])]
  /\ list' = [list EXCEPT ![s] = <<mine[t]>> \o @]
  /\ Forget(t)
  /\ UNCHANGED <<top, next, given>>

\* Wrong on purpose: set_next stands before the loop, not in it.
PushRetry_NoRelink(t) ==
  /\ pc[t] = "push_cas"
  /\ head[split[t]] # old[t]
  /\ old' = [old EXCEPT ![t] = head[split[t]]]
  /\ UNCHANGED <<sharedVars, given, pc, scanVars, link, attempts, mine>>

PushRetry(t) ==
  /\ pc[t] = "push_cas"
  /\ head[split[t]] # old[t]
  /\ old' = [old EXCEPT ![t] = head[split[t]]]
  /\ pc' = [pc EXCEPT ![t] = "push_link"]
  /\ UNCHANGED <<sharedVars, given, scanVars, link, attempts, mine>>

-----------------------------------------------------------------------------
Step(t) == \/ PopLoad(t) \/ PopNext(t) \/ PopCas(t) \/ PopRetry(t)
           \/ BumpLoad(t) \/ BumpAdd(t) \/ BumpSub(t)
           \/ PushLoad(t) \/ PushLink(t) \/ PushCas(t) \/ PushRetry(t)

Next == \/ \E t \in Threads, s \in Splits : StartAllocate(t, s)
        \/ \E t \in Threads, h \in Handles : StartDeallocate(t, h)
        \/ \E t \in Threads : Step(t)

Spec == Init /\ [][Next]_vars

-----------------------------------------------------------------------------
(* Properties.                                                             *)

TypeOK ==
  /\ head \in [Splits -> HeadType]
  /\ top \in [Splits -> Nat]
  /\ next \in [Handles -> Links]
  /\ given \subseteq Handles
  /\ pc \in [Threads -> Pcs]
  /\ rounds \in [Threads -> Int]
  /\ start \in [Threads -> Splits]
  /\ k \in [Threads -> Splits]
  /\ split \in [Threads -> Splits]
  /\ failed \in [Threads -> BOOLEAN]
  /\ old \in [Threads -> HeadType]
  /\ link \in [Threads -> Links]
  /\ attempts \in [Threads -> Int]
  /\ mine \in [Threads -> Links]
  /\ list \in [Splits -> Seq(Handles)]

\* The handles of split s that were never handed out.
Fresh(s) == {h \in Handles : SplitOf(h) = s /\ h >= top[s]}

\* The handles that can be handed out.
Free == UNION {Elems(list[s]) \cup Fresh(s) : s \in Splits}

\* The handle a thread is giving back.
Returning(t) == IF pc[t] \in PushPcs THEN {mine[t]} ELSE {}

NoRepeat(s) == \A i, j \in 1 .. Len(s) : s[i] = s[j] => i = j

\* A chunk is in one place: free, or in a client's hands, or on its way back to
\* the pool it came from; never in two of them, and never nowhere.
EachChunkOnce ==
  /\ Handles = Free \cup given \cup UNION {Returning(t) : t \in Threads}
  /\ Free \cap given = {}
  /\ \A s \in Splits :
       /\ NoRepeat(list[s])
       /\ \A h \in Elems(list[s]) : SplitOf(h) = s /\ h \notin Fresh(s)
  /\ \A t \in Threads :
       /\ Returning(t) \cap (Free \cup given) = {}
       /\ \A u \in Threads \ {t} : Returning(t) \cap Returning(u) = {}

\* The head and the links of a pool spell out its list of free handles, down to
\* the null link: the version makes every CAS against a stale head fail, so no
\* pop installs a link it read before the handle was handed out and given back.
FreeListIntact ==
  \A s \in Splits :
    /\ head[s].next = IF list[s] = <<>> THEN NullLink ELSE list[s][1]
    /\ \A i \in 1 .. Len(list[s]) :
         next[list[s][i]] = IF i < Len(list[s]) THEN list[s][i + 1] ELSE NullLink

\* No list goes back to a head it had: whoever holds an old one finds another version
\* there, whatever handle is in front (VersionedListHead, and the comment on it).
VersionsRise ==
  [][\A s \in Splits : head'[s] # head[s] => head'[s].version > head[s].version]_vars

\* The threads that moved the top of s past its end and have not moved it back.
Overshooters(s) == {t \in Threads : pc[t] = "bump_sub" /\ split[t] = s}

\* The top of a stack is past its end only by the threads about to move it back,
\* so it neither climbs with every failed bump nor falls below what was given.
StackSettles ==
  \A s \in Splits :
    IF Overshooters(s) = {}
      THEN top[s] \in FirstHandle(s) .. LastHandle(s)
      ELSE top[s] = LastHandle(s) + Cardinality(Overshooters(s))

\* The pools are a store of chunks, whatever the threads do at the same time.
Store == INSTANCE ChunkStore
           WITH Chunks <- Handles, Clients <- Threads, free <- Free,
                returning <- [t \in Threads |-> Returning(t)]
ImplementsStore == Store!Spec

\* A thread in the middle of a call is scheduled again.
Fairness == \A t \in Threads : WF_vars(Step(t))

FairSpec == Spec /\ Fairness

AnyDeallocation == \E t \in Threads, h \in Handles : StartDeallocate(t, h)

\* Once no more chunks are given back, every call returns: a round that gave a
\* list up is repeated for free, but only while other threads get somewhere.
EveryCallReturns ==
  <>[][~ AnyDeallocation]_vars =>
    \A t \in Threads : (pc[t] # "idle") ~> (pc[t] = "idle")
=============================================================================
