---------------------------- MODULE ChunkPoolRounds ----------------------------
(***************************************************************************)
(* What a round of allocate_chunk that comes back without a chunk says     *)
(* about the region: ChunkPool with two history variables that follow the  *)
(* round a thread is in.                                                   *)
(***************************************************************************)
EXTENDS ChunkPool

VARIABLES
  alone,  \* the thread whose round no other thread has interfered with
  dry     \* the threads in whose round no chunk was free at some moment

roundVars == <<vars, alone, dry>>

RoundsInit == Init /\ alone = {} /\ dry = {}

Allocating(t) == pc[t] \in PopPcs \cup BumpPcs

RoundStarts(t) == pc'[t] = "pop_load" /\ k'[t] = 0

Move(t) == \/ \E s \in Splits : StartAllocate(t, s)
           \/ \E h \in Handles : StartDeallocate(t, h)
           \/ Step(t)

RoundsNext ==
  \E t \in Threads :
    /\ Move(t)
    /\ alone' = {u \in {t} : Allocating(u)' /\ (RoundStarts(u) \/ u \in alone)}
    /\ dry' = {u \in Threads :
                 /\ Allocating(u)'
                 /\ Free' = {} \/ (u \in dry /\ ~ (u = t /\ RoundStarts(u)))}

RoundsSpec == RoundsInit /\ [][RoundsNext]_roundVars

\* The step ends a round of t that found nothing, and counts it.
RoundCounts(t) == rounds'[t] < rounds[t] /\ given' = given

\* A thread that nobody interferes with finds a chunk if there is one: its
\* round goes over every list and every stack of the region.
AloneFinds == [][\A t \in alone : RoundCounts(t) => Free = {}]_roundVars

\* The step ends the call of t, or its round, and then counts the round if rounds
\* are counted.
RoundEnds(t) ==
  \/ pc'[t] = "idle"
  \/ /\ RoundStarts(t)
     /\ rounds[t] > 0 /\ Attempts # 0 => rounds'[t] < rounds[t]

\* A split takes three accesses at most: its list's head, a link and the head again,
\* or the head and twice the stack.
StepsLeft(t) ==
  3 * (NumSplits - k[t])
    - CASE pc[t] = "pop_load" -> 0
        [] pc[t] \in {"pop_next", "bump_load"} -> 1
        [] OTHER -> 2

\* A thread that nobody interferes with loses no CAS and moves no stack past its end:
\* each of its steps brings it nearer to the end of its round, so that a call that is
\* left alone returns (allocate_chunk_, pop, bump).
AloneAdvances ==
  [][\A t \in alone : Step(t) => RoundEnds(t) \/ StepsLeft(t)' < StepsLeft(t)]_roundVars

\* "`rounds` counts genuine emptiness (null), not contention"
\* (region_chunk_allocator.hpp): when a round counts, there was a moment in it
\* when the region had no free chunk.
NullIsGenuine ==
  [][\A t \in Threads : RoundCounts(t) => t \in dry]_roundVars
=============================================================================
