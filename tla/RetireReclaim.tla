---------------------------- MODULE RetireReclaim ----------------------------
(***************************************************************************)
(* The retire-reclaim protocol of cuw3 (retire_reclaim.hpp) as one         *)
(* thread-local allocator (TLA) and its fast arenas use it: threads that   *)
(* do not own an arena retire the blocks they free, the thread that holds  *)
(* the TLA reclaims them.                                                  *)
(*                                                                         *)
(* An arena's packed word holds the number of retired bytes and the        *)
(* retired flag; the TLA's root word holds the head of the list of retired *)
(* arenas, threaded through the arenas' next fields, and a flag that stays *)
(* up.  Every access to a shared word is one action.  Bytes are counted in *)
(* blocks: an arena has Capacity of them and block i is the i-th one the   *)
(* bump pointer gave out.  Sizes and alignment are modelled in FastArena,  *)
(* the choice of an arena for a request in the modules of the bins.        *)
(***************************************************************************)
EXTENDS Naturals, Sequences, FiniteSets

CONSTANTS
  Arenas,          \* the arenas (chunks with a handle) the TLA can get
  Threads,         \* the threads that free blocks the TLA's holder handed out
  Capacity,        \* blocks in an arena
  Null,            \* the null pointer
  InitialRetired,  \* the flag an arena's word is created with
  CanPostpone      \* does the holder ever put a half-reclaimed list aside

ASSUME CapacityAssumption == Capacity \in Nat \ {0}
ASSUME NullAssumption == Null \notin Arenas
ASSUME FlagAssumption == InitialRetired \in BOOLEAN /\ CanPostpone \in BOOLEAN

VARIABLES
  tla,        \* where the TLA is: with its owner, on its way out, in a grave...
  used,       \* the arenas constructed and in the TLA's bins
  lost,       \* the arenas whose chunk belongs to nobody any more
  top, freed, \* FastArena::top and freed, in blocks
  value,      \* FastArena::retire_reclaim_entry.head: number of retired blocks
  flag,       \* ... and its RetiredFlag
  next,       \* FastArena::retire_reclaim_entry.next
  root,       \* FastArenaRetiredArenasRoot::entry.head, [ptr, retired]
  postponed,  \* FastArenaRetiredArenasRoot::entry.next_postponed
  out,        \* out[a]: the blocks of a that are allocated and not yet freed
  rpc, rlist, rarena, rflag,         \* the locals of the reclaiming thread
  pc, arena, block, seen, seenRoot,  \* the locals of the retiring threads
  rootSeq, claimSeq, postSeq         \* history: the three lists, in order

tlaVars == <<tla, used, lost>>
arenaVars == <<top, freed, out>>
rootVars == <<root, postponed, next>>
wordVars == <<value, flag>>
reclaimerVars == <<rpc, rlist, rarena, rflag>>
retirerVars == <<pc, arena, block, seen, seenRoot>>
listVars == <<rootSeq, claimSeq, postSeq>>
vars == <<tlaVars, arenaVars, wordVars, rootVars, reclaimerVars, retirerVars,
          listVars>>

Blocks == 0 .. Capacity - 1
Ptr == Arenas \cup {Null}
Word == [value : 0 .. Capacity, retired : BOOLEAN]

TlaPlaces == {"owned", "exiting", "grave", "excavated", "destroyed"}
ReclaimerPcs == {"idle", "exchange", "pop", "check", "reset"}
RetirerPcs == {"idle", "load", "cas", "load_root", "link", "cas_root"}

Freeing == {"load", "cas"}                    \* holds a block it is freeing
Pushing == {"load_root", "link", "cas_root"}  \* holds an arena it is queueing

Elems(s) == {s[i] : i \in 1 .. Len(s)}

\* The TLA is held by a thread of its own that runs no reclaim at the moment.
OwnerIdle == tla = "owned" /\ rpc = "idle"

\* Block b of arena a is in the hands of a client that is not freeing it yet.
Held(a, b) == /\ a \in used
              /\ b \in out[a]
              /\ \A t \in Threads : pc[t] \in Freeing =>
                                       ~ (arena[t] = a /\ block[t] = b)

Init ==
  /\ tla = "owned"
  /\ used = {} /\ lost = {}
  /\ top = [a \in Arenas |-> 0]
  /\ freed = [a \in Arenas |-> 0]
  /\ value = [a \in Arenas |-> 0]
  /\ flag = [a \in Arenas |-> FALSE]
  /\ next = [a \in Arenas |-> Null]
  /\ root = [ptr |-> Null, retired |-> TRUE]
  /\ postponed = Null
  /\ out = [a \in Arenas |-> {}]
  /\ rpc = "idle" /\ rlist = Null /\ rarena = Null /\ rflag = FALSE
  /\ pc = [t \in Threads |-> "idle"]
  /\ arena = [t \in Threads |-> Null]
  /\ block = [t \in Threads |-> 0]
  /\ seen = [t \in Threads |-> [value |-> 0, retired |-> FALSE]]
  /\ seenRoot = [t \in Threads |-> Null]
  /\ rootSeq = <<>> /\ claimSeq = <<>> /\ postSeq = <<>>

-----------------------------------------------------------------------------
(* The holder allocates and frees; both touch only what the holder owns.   *)

\* Wrong on purpose: the remaining space is not looked at.
Allocate_NoRoomCheck(a) ==
  /\ OwnerIdle
  /\ a \in used
  /\ top' = [top EXCEPT ![a] = @ + 1]
  /\ out' = [out EXCEPT ![a] = @ \cup {top[a]}]
  /\ UNCHANGED <<tlaVars, freed, wordVars, rootVars, reclaimerVars,
                 retirerVars, listVars>>

\* FastArena::acquire on an arena of the bins that has room.
Allocate(a) ==
  /\ OwnerIdle
  /\ a \in used
  /\ top[a] < Capacity
  /\ top' = [top EXCEPT ![a] = @ + 1]
  /\ out' = [out EXCEPT ![a] = @ \cup {top[a]}]
  /\ UNCHANGED <<tlaVars, freed, wordVars, rootVars, reclaimerVars,
                 retirerVars, listVars>>

\* A new arena is constructed in a free chunk and serves the request.
AllocateNew(a) ==
  /\ OwnerIdle
  /\ a \notin used \cup lost
  /\ used' = used \cup {a}
  /\ top' = [top EXCEPT ![a] = 1]
  /\ freed' = [freed EXCEPT ![a] = 0]
  /\ out' = [out EXCEPT ![a] = {0}]
  /\ value' = [value EXCEPT ![a] = 0]
  /\ flag' = [flag EXCEPT ![a] = InitialRetired]
  /\ next' = [next EXCEPT ![a] = Null]
  /\ UNCHANGED <<tla, lost, root, postponed, reclaimerVars, retirerVars,
                 listVars>>

\* Wrong on purpose: an arena with one block missing passes for resettable.
AddFreed_OffByOne(a, n) ==
  IF freed[a] + n + 1 >= top[a]
    THEN /\ top' = [top EXCEPT ![a] = 0]
         /\ freed' = [freed EXCEPT ![a] = 0]
         /\ used' = used \ {a}
    ELSE /\ freed' = [freed EXCEPT ![a] = @ + n]
         /\ UNCHANGED <<top, used>>

\* n more blocks of a are known to be free; an arena that has all its blocks
\* back is reset and taken out of the bins.
AddFreed(a, n) ==
  IF freed[a] + n = top[a]
    THEN /\ top' = [top EXCEPT ![a] = 0]
         /\ freed' = [freed EXCEPT ![a] = 0]
         /\ used' = used \ {a}
    ELSE /\ freed' = [freed EXCEPT ![a] = @ + n]
         /\ UNCHANGED <<top, used>>

\* The owner frees a block; a chunk that gets empty is given back.
Deallocate(a, b) ==
  /\ OwnerIdle
  /\ Held(a, b)
  /\ out' = [out EXCEPT ![a] = @ \ {b}]
  /\ AddFreed(a, 1)
  /\ UNCHANGED <<tla, lost, wordVars, rootVars, reclaimerVars, retirerVars,
                 listVars>>

-----------------------------------------------------------------------------
(* A thread that does not hold the TLA frees block b of arena a: it adds   *)
(* the block to the arena's word, and whoever raises the flag pushes the   *)
(* arena on the root list.                                                 *)

\* The chunk and the handle are found; the block is the thread's until the CAS.
StartRetire(t, a, b) ==
  /\ pc[t] = "idle"
  /\ Held(a, b)
  /\ arena' = [arena EXCEPT ![t] = a]
  /\ block' = [block EXCEPT ![t] = b]
  /\ pc' = [pc EXCEPT ![t] = "load"]
  /\ UNCHANGED <<tlaVars, arenaVars, wordVars, rootVars, reclaimerVars, seen,
                 seenRoot, listVars>>

CurrentWord(a) == [value |-> value[a], retired |-> flag[a]]

RetireDataLoad(t) ==
  /\ pc[t] = "load"
  /\ seen' = [seen EXCEPT ![t] = CurrentWord(arena[t])]
  /\ pc' = [pc EXCEPT ![t] = "cas"]
  /\ UNCHANGED <<tlaVars, arenaVars, wordVars, rootVars, reclaimerVars, arena,
                 block, seenRoot, listVars>>

\* What a retire leaves of its locals when it returns.
Return(t) ==
  /\ pc' = [pc EXCEPT ![t] = "idle"]
  /\ arena' = [arena EXCEPT ![t] = Null]
  /\ block' = [block EXCEPT ![t] = 0]
  /\ seen' = [seen EXCEPT ![t] = [value |-> 0, retired |-> FALSE]]
  /\ seenRoot' = [seenRoot EXCEPT ![t] = Null]

\* Wrong on purpose: the old flag is not looked at, everybody queues the arena.
AfterRetireData_AlwaysPush(t) ==
  /\ pc' = [pc EXCEPT ![t] = "load_root"]
  /\ UNCHANGED <<arena, block, seen, seenRoot>>

\* The old flag decides: raised, somebody else queues the arena; else we do.
AfterRetireData(t) ==
  IF seen[t].retired
    THEN Return(t)
    ELSE /\ pc' = [pc EXCEPT ![t] = "load_root"]
         /\ UNCHANGED <<arena, block, seen, seenRoot>>

\* Wrong on purpose: a plain store of the loaded count plus one.
RetireDataCas_Store(t) ==
  LET a == arena[t] IN
  /\ pc[t] = "cas"
  /\ value' = [value EXCEPT ![a] = seen[t].value + 1]
  /\ flag' = [flag EXCEPT ![a] = TRUE]
  /\ out' = [out EXCEPT ![a] = @ \ {block[t]}]
  /\ AfterRetireData(t)
  /\ UNCHANGED <<tlaVars, top, freed, rootVars, reclaimerVars, listVars>>

\* Wrong on purpose: the count is updated and the flag forgotten.
RetireDataCas_NoFlag(t) ==
  LET a == arena[t] IN
  /\ pc[t] = "cas"
  /\ seen[t] = CurrentWord(a)
  /\ value' = [value EXCEPT ![a] = @ + 1]
  /\ out' = [out EXCEPT ![a] = @ \ {block[t]}]
  /\ AfterRetireData(t)
  /\ UNCHANGED <<tlaVars, flag, top, freed, rootVars, reclaimerVars, listVars>>

RetireDataCas(t) ==
  LET a == arena[t] IN
  /\ pc[t] = "cas"
  /\ seen[t] = CurrentWord(a)
  /\ value' = [value EXCEPT ![a] = @ + 1]
  /\ flag' = [flag EXCEPT ![a] = TRUE]
  /\ out' = [out EXCEPT ![a] = @ \ {block[t]}]
  /\ AfterRetireData(t)
  /\ UNCHANGED <<tlaVars, top, freed, rootVars, reclaimerVars, listVars>>

\* A failed compare_exchange_strong leaves the current value in its argument.
RetireDataRetry(t) ==
  /\ pc[t] = "cas"
  /\ seen[t] # CurrentWord(arena[t])
  /\ seen' = [seen EXCEPT ![t] = CurrentWord(arena[t])]
  /\ UNCHANGED <<tlaVars, arenaVars, wordVars, rootVars, reclaimerVars, pc,
                 arena, block, seenRoot, listVars>>

RetirePtrLoad(t) ==
  /\ pc[t] = "load_root"
  /\ seenRoot' = [seenRoot EXCEPT ![t] = root.ptr]
  /\ pc' = [pc EXCEPT ![t] = "link"]
  /\ UNCHANGED <<tlaVars, arenaVars, wordVars, rootVars, reclaimerVars, arena,
                 block, seen, listVars>>

\* resource_ops.set_next(retired, resource_old.ptr())
RetirePtrLink(t) ==
  /\ pc[t] = "link"
  /\ next' = [next EXCEPT ![arena[t]] = seenRoot[t]]
  /\ pc' = [pc EXCEPT ![t] = "cas_root"]
  /\ UNCHANGED <<tlaVars, arenaVars, wordVars, root, postponed, reclaimerVars,
                 arena, block, seen, seenRoot, listVars>>

RetirePtrCas(t) ==
  /\ pc[t] = "cas_root"
  /\ seenRoot[t] = root.ptr
  /\ root' = [ptr |-> arena[t], retired |-> TRUE]
  /\ rootSeq' = <<arena[t]>> \o rootSeq
  /\ Return(t)
  /\ UNCHANGED <<tlaVars, arenaVars, wordVars, postponed, next, reclaimerVars,
                 claimSeq, postSeq>>

\* Wrong on purpose: set_next stands before the loop, not in it.
RetirePtrRetry_NoRelink(t) ==
  /\ pc[t] = "cas_root"
  /\ seenRoot[t] # root.ptr
  /\ seenRoot' = [seenRoot EXCEPT ![t] = root.ptr]
  /\ UNCHANGED <<tlaVars, arenaVars, wordVars, rootVars, reclaimerVars, pc,
                 arena, block, seen, listVars>>

RetirePtrRetry(t) ==
  /\ pc[t] = "cas_root"
  /\ seenRoot[t] # root.ptr
  /\ seenRoot' = [seenRoot EXCEPT ![t] = root.ptr]
  /\ pc' = [pc EXCEPT ![t] = "link"]
  /\ UNCHANGED <<tlaVars, arenaVars, wordVars, rootVars, reclaimerVars, arena,
                 block, seen, listVars>>

Retirer(t) ==
  \/ RetireDataLoad(t) \/ RetireDataCas(t) \/ RetireDataRetry(t)
  \/ RetirePtrLoad(t) \/ RetirePtrLink(t)
  \/ RetirePtrCas(t) \/ RetirePtrRetry(t)

-----------------------------------------------------------------------------
(* The holder of the TLA (its owner, or the thread that excavated it)      *)
(* takes a list of retired arenas and reclaims them one by one.            *)

\* reclaim_arenas: a postponed list goes first.
ReclaimPostponed ==
  /\ rpc = "idle"
  /\ tla \in {"owned", "exiting", "excavated"}
  /\ postponed # Null
  /\ rlist' = postponed
  /\ claimSeq' = postSeq
  /\ postponed' = Null
  /\ postSeq' = <<>>
  /\ rpc' = "pop"
  /\ UNCHANGED <<tlaVars, arenaVars, wordVars, next, root, rarena, rflag,
                 retirerVars, rootSeq>>

\* reclaim(): the word is loaded and its flag checked ...
ReclaimLoad ==
  /\ rpc = "idle"
  /\ tla \in {"owned", "exiting", "excavated"}
  /\ postponed = Null
  /\ root.retired
  /\ rflag' = root.retired
  /\ rpc' = "exchange"
  /\ UNCHANGED <<tlaVars, arenaVars, wordVars, rootVars, rlist, rarena,
                 retirerVars, listVars>>

\* ... and the list exchanged for an empty one with the flags loaded before.
ReclaimExchange ==
  /\ rpc = "exchange"
  /\ rlist' = root.ptr
  /\ claimSeq' = rootSeq
  /\ root' = [ptr |-> Null, retired |-> rflag]
  /\ rootSeq' = <<>>
  /\ rflag' = FALSE
  /\ rpc' = "pop"
  /\ UNCHANGED <<tlaVars, arenaVars, wordVars, next, postponed, rarena,
                 retirerVars, postSeq>>

\* Wrong on purpose: next is cleared before it is read.
PopArena_ClearFirst ==
  /\ rpc = "pop"
  /\ rlist # Null
  /\ rarena' = rlist
  /\ rlist' = Null
  /\ next' = [next EXCEPT ![rlist] = Null]
  /\ claimSeq' = Tail(claimSeq)
  /\ rpc' = "check"
  /\ UNCHANGED <<tlaVars, arenaVars, wordVars, root, postponed, rflag,
                 retirerVars, rootSeq, postSeq>>

\* FastArenaReclaimList::pop clears the arena's next field ...
PopArena ==
  /\ rpc = "pop"
  /\ rlist # Null
  /\ rarena' = rlist
  /\ rlist' = next[rlist]
  /\ next' = [next EXCEPT ![rlist] = Null]
  /\ claimSeq' = Tail(claimSeq)
  /\ rpc' = "check"
  /\ UNCHANGED <<tlaVars, arenaVars, wordVars, root, postponed, rflag,
                 retirerVars, rootSeq, postSeq>>

\* ... reclaim_reset() loads the arena's word and checks its flag ...
ReclaimResetLoad ==
  /\ rpc = "check"
  /\ flag[rarena]
  /\ rpc' = "reset"
  /\ UNCHANGED <<tlaVars, arenaVars, wordVars, rootVars, rlist, rarena, rflag,
                 retirerVars, listVars>>

\* Wrong on purpose: reclaim() in place of reclaim_reset(), the flag stays up.
ReclaimResetExchange_KeepFlag ==
  /\ rpc = "reset"
  /\ value' = [value EXCEPT ![rarena] = 0]
  /\ AddFreed(rarena, value[rarena])
  /\ rarena' = Null
  /\ rpc' = "pop"
  /\ lost' = lost \cup (used \ used')
  /\ UNCHANGED <<tla, flag, out, rootVars, rlist, rflag, retirerVars, listVars>>

\* ... and takes everything retired by now, with the flag.  Nobody gives the
\* chunk of an arena that gets empty this way back.
ReclaimResetExchange ==
  /\ rpc = "reset"
  /\ value' = [value EXCEPT ![rarena] = 0]
  /\ flag' = [flag EXCEPT ![rarena] = FALSE]
  /\ AddFreed(rarena, value[rarena])
  /\ rarena' = Null
  /\ rpc' = "pop"
  /\ lost' = lost \cup (used \ used')
  /\ UNCHANGED <<tla, out, rootVars, rlist, rflag, retirerVars, listVars>>

\* The holder puts the rest of the list aside for its next reclaim.
Postpone ==
  /\ CanPostpone
  /\ rpc = "pop"
  /\ rlist # Null
  /\ tla = "owned"
  /\ postponed' = rlist
  /\ postSeq' = claimSeq
  /\ rlist' = Null
  /\ claimSeq' = <<>>
  /\ rpc' = "idle"
  /\ UNCHANGED <<tlaVars, arenaVars, wordVars, next, root, rarena, rflag,
                 retirerVars, rootSeq>>

\* Wrong on purpose: an empty list passes for an empty TLA.
FinishReclaim_NotEmpty ==
  /\ rpc = "pop"
  /\ rlist = Null
  /\ rpc' = "idle"
  /\ tla' = IF tla = "owned" THEN "owned" ELSE "destroyed"
  /\ UNCHANGED <<used, lost, arenaVars, wordVars, rootVars, rlist, rarena,
                 rflag, retirerVars, listVars>>

\* Wrong on purpose: an empty TLA goes back to its grave.
FinishReclaim_Rebury ==
  /\ rpc = "pop"
  /\ rlist = Null
  /\ rpc' = "idle"
  /\ tla' = IF tla = "owned" THEN "owned" ELSE "grave"
  /\ UNCHANGED <<used, lost, arenaVars, wordVars, rootVars, rlist, rarena,
                 rflag, retirerVars, listVars>>

\* The list is done.  A TLA without arenas is destroyed by the thread that
\* empties it on its way out or in the graveyard; otherwise it is (re)buried.
FinishReclaim ==
  /\ rpc = "pop"
  /\ rlist = Null
  /\ rpc' = "idle"
  /\ tla' = IF tla = "owned" THEN "owned"
            ELSE IF used = {} THEN "destroyed" ELSE "grave"
  /\ UNCHANGED <<used, lost, arenaVars, wordVars, rootVars, rlist, rarena,
                 rflag, retirerVars, listVars>>

Reclaimer == \/ ReclaimPostponed \/ ReclaimLoad \/ ReclaimExchange
             \/ PopArena \/ ReclaimResetLoad \/ ReclaimResetExchange
             \/ FinishReclaim

-----------------------------------------------------------------------------
(* The TLA between threads.                                                *)

\* The owner's thread ends: its guard reclaims once more, then decides.
Exit ==
  /\ OwnerIdle
  /\ tla' = "exiting"
  /\ UNCHANGED <<used, lost, arenaVars, wordVars, rootVars, reclaimerVars,
                 retirerVars, listVars>>

\* grave_tla_cleanup takes a dead TLA to reclaim what was retired meanwhile.
Excavate ==
  /\ tla = "grave"
  /\ tla' = "excavated"
  /\ UNCHANGED <<used, lost, arenaVars, wordVars, rootVars, reclaimerVars,
                 retirerVars, listVars>>

\* A new thread adopts a dead TLA as it is.
Adopt ==
  /\ tla = "grave"
  /\ tla' = "owned"
  /\ UNCHANGED <<used, lost, arenaVars, wordVars, rootVars, reclaimerVars,
                 retirerVars, listVars>>

\* A new TLA is created, in the worst case in the memory of the destroyed one.
CreateTla ==
  /\ tla = "destroyed"
  /\ tla' = "owned"
  /\ root' = [ptr |-> Null, retired |-> TRUE]
  /\ postponed' = Null
  /\ rootSeq' = <<>> /\ postSeq' = <<>>
  /\ UNCHANGED <<used, lost, arenaVars, wordVars, next, reclaimerVars,
                 retirerVars, claimSeq>>

Next ==
  \/ \E a \in Arenas : Allocate(a) \/ AllocateNew(a)
  \/ \E a \in Arenas, b \in Blocks : Deallocate(a, b)
  \/ \E t \in Threads, a \in Arenas, b \in Blocks : StartRetire(t, a, b)
  \/ \E t \in Threads : Retirer(t)
  \/ Reclaimer
  \/ Postpone
  \/ Exit \/ Excavate \/ Adopt \/ CreateTla

Spec == Init /\ [][Next]_vars

-----------------------------------------------------------------------------
(* Properties.                                                             *)

TypeOK ==
  /\ tla \in TlaPlaces
  /\ used \subseteq Arenas /\ lost \subseteq Arenas
  /\ top \in [Arenas -> 0 .. Capacity]
  /\ freed \in [Arenas -> 0 .. Capacity]
  /\ value \in [Arenas -> 0 .. Capacity]
  /\ flag \in [Arenas -> BOOLEAN]
  /\ next \in [Arenas -> Ptr]
  /\ root \in [ptr : Ptr, retired : BOOLEAN]
  /\ postponed \in Ptr
  /\ out \in [Arenas -> SUBSET Blocks]
  /\ rpc \in ReclaimerPcs
  /\ rlist \in Ptr /\ rarena \in Ptr /\ rflag \in BOOLEAN
  /\ rpc \in {"check", "reset"} => rarena # Null
  /\ pc \in [Threads -> RetirerPcs]
  /\ arena \in [Threads -> Ptr]
  /\ \A t \in Threads : pc[t] # "idle" => arena[t] # Null
  /\ block \in [Threads -> Blocks]
  /\ seen \in [Threads -> Word]
  /\ seenRoot \in [Threads -> Ptr]
  /\ rootSeq \in Seq(Arenas)
  /\ claimSeq \in Seq(Arenas)
  /\ postSeq \in Seq(Arenas)

\* Some thread raised a's flag and has not queued a yet.
Pusher(a) == \E t \in Threads : pc[t] \in Pushing /\ arena[t] = a

Queued(a) == a \in Elems(rootSeq) \cup Elems(claimSeq) \cup Elems(postSeq)

\* The reclaiming thread has taken a off its list and not yet emptied its word.
InReclaim(a) == rpc \in {"check", "reset"} /\ rarena = a

\* A retire is never stranded: an arena with retired blocks is on one of the
\* holder's lists, in its hands, or in the hands of a thread about to queue it
\* (retire_reclaim.hpp: the owning thread reclaims what others retired).
RetiredIsQueued ==
  \A a \in Arenas : value[a] > 0 => Pusher(a) \/ Queued(a) \/ InReclaim(a)

\* What becomes of that if arenas are created with their flag up, as
\* allocator.hpp does (construct_arena_): no thread ever sees a flag that is
\* down, so nobody queues an arena and no deferred free is ever reclaimed.
NothingQueued ==
  \A a \in Arenas : ~ Pusher(a) /\ ~ Queued(a) /\ ~ InReclaim(a)

\* ... and what was freed that way is gone: an arena that was handed one such
\* block has it missing ever after, and its chunk is never given back.
NeverComesHome ==
  [][\A a \in Arenas : value[a] > 0 => a \in used' /\ value'[a] >= value[a]]_vars

NoRepeat(s) == \A i, j \in 1 .. Len(s) : s[i] = s[j] => i = j

OnOneList ==
  /\ NoRepeat(rootSeq) /\ NoRepeat(claimSeq) /\ NoRepeat(postSeq)
  /\ Elems(rootSeq) \cap Elems(claimSeq) = {}
  /\ Elems(rootSeq) \cap Elems(postSeq) = {}
  /\ Elems(claimSeq) \cap Elems(postSeq) = {}

OnePusher ==
  \A t, u \in Threads :
    pc[t] \in Pushing /\ pc[u] \in Pushing /\ arena[t] = arena[u] => t = u

\* The next field of an arena has one user at a time: an arena is on one list
\* once, or reclaimed, or being queued by one thread, never two of them.
QueuedOnce ==
  /\ OnOneList
  /\ OnePusher
  /\ \A a \in Arenas : Queued(a) => ~ Pusher(a) /\ ~ InReclaim(a)
  /\ \A a \in Arenas : InReclaim(a) => ~ Pusher(a)

\* p is the head of a null-terminated list of exactly the arenas of s.
IsList(p, s) ==
  /\ p = IF s = <<>> THEN Null ELSE s[1]
  /\ \A i \in 1 .. Len(s) :
       next[s[i]] = IF i < Len(s) THEN s[i + 1] ELSE Null

\* The next fields spell out the three lists: no concurrent push or pop ever
\* loses the tail of a list, links two lists together or makes a cycle.
ListsIntact == /\ IsList(root.ptr, rootSeq)
               /\ IsList(rlist, claimSeq)
               /\ IsList(postponed, postSeq)

\* Every block of an arena is in a client's hands, retired or freed, and is
\* counted once: the arena becomes resettable exactly when all are back.
BlocksAccounted ==
  \A a \in used : top[a] = freed[a] + value[a] + Cardinality(out[a])

\* While a block of an arena is in use, or a thread is in the middle of
\* retiring one, the arena's chunk and the TLA stay where they are, so the
\* thread never touches a handle or a root that was given away.
NoUseAfterRelease ==
  /\ \A a \in Arenas : out[a] # {} => a \in used
  /\ \A t \in Threads : pc[t] # "idle" => arena[t] \in used
  /\ used # {} => tla # "destroyed"

\* No CUW3_CHECK on the way of a reclaim fails: the root's flag is up, the
\* flag of every arena taken off a list is up, no more blocks come back than
\* went out, and a list is never put aside on top of another one.
ChecksHold ==
  /\ root.retired
  /\ rpc = "exchange" => rflag
  /\ rpc \in {"check", "reset"} => flag[rarena]
  /\ rpc = "reset" => freed[rarena] + value[rarena] <= top[rarena]
  /\ rpc = "pop" => postponed = Null

\* The protocol keeps the allocator's contract with its clients.
Contract == INSTANCE HeapContract
              WITH Addrs <- Blocks, alive <- (tla # "destroyed"),
                   mapped <- used, live <- out
ImplementsContract == Contract!Spec

\* Every thread in the middle of an operation goes on, the holder of the TLA
\* keeps reclaiming (each cuw3_try_reclaim_each_op frees, and when it ends),
\* and some thread keeps visiting the graveyard.
Fairness == /\ \A t \in Threads : WF_vars(Retirer(t))
            /\ WF_vars(Reclaimer)
            /\ WF_vars(Excavate)

FairSpec == Spec /\ Fairness

AnyAllocation == \E a \in Arenas : Allocate(a) \/ AllocateNew(a)

\* Once the clients stop allocating (a retire can starve only while others
\* succeed), every retired block is given back to its arena.
EventuallyReclaimed ==
  <>[][~ AnyAllocation]_vars =>
    \A a \in Arenas : (value[a] > 0) ~> (value[a] = 0)

\* A dead TLA all of whose blocks were freed does not stay in the graveyard.
DeadTlaLeaves ==
  (tla = "grave" /\ \A a \in Arenas : out[a] = {})
    ~> (tla \in {"owned", "destroyed"})
=============================================================================
