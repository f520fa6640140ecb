---------------------------- MODULE HeapContract ----------------------------
(***************************************************************************)
(* What one thread-local allocator (TLA) promises the threads that use its *)
(* memory, with no word about how deferred frees travel between threads:   *)
(*   - a block that is handed out is not handed out again until it was     *)
(*     freed;                                                              *)
(*   - the chunk of memory under an arena is given away only when no block *)
(*     of it is in use;                                                    *)
(*   - the allocator's own memory is given away only when it has no arena. *)
(* RetireReclaim is shown to implement this specification.                 *)
(***************************************************************************)
EXTENDS Naturals

CONSTANTS Arenas, Addrs

VARIABLES alive,   \* does the allocator exist
          mapped,  \* the arenas whose chunk the allocator owns
          live     \* live[a]: the addresses of arena a in the clients' hands

vars == <<alive, mapped, live>>

Init == /\ alive = TRUE
        /\ mapped = {}
        /\ live = [a \in Arenas |-> {}]

\* A block of a mapped arena, or of one mapped for it, is handed out.
Alloc(a, b) == /\ alive
               /\ b \notin live[a]
               /\ mapped' = mapped \cup {a}
               /\ live' = [live EXCEPT ![a] = @ \cup {b}]
               /\ UNCHANGED alive

\* A block is freed; the last one of an arena may take the arena with it.
Free(a, b) == /\ alive
              /\ a \in mapped
              /\ b \in live[a]
              /\ live' = [live EXCEPT ![a] = @ \ {b}]
              /\ mapped' \in {mapped} \cup {m \in {mapped \ {a}} : live'[a] = {}}
              /\ UNCHANGED alive

\* An arena without live blocks is given away.
Release(a) == /\ alive
              /\ a \in mapped
              /\ live[a] = {}
              /\ mapped' = mapped \ {a}
              /\ UNCHANGED <<alive, live>>

\* The allocator's memory is given away, or a new allocator is created there.
Destroy == /\ alive
           /\ mapped = {}
           /\ alive' = FALSE
           /\ UNCHANGED <<mapped, live>>

Create == /\ ~alive
          /\ alive' = TRUE
          /\ UNCHANGED <<mapped, live>>

Next == \/ \E a \in Arenas, b \in Addrs : Alloc(a, b) \/ Free(a, b)
        \/ \E a \in Arenas : Release(a)
        \/ Destroy
        \/ Create

Spec == Init /\ [][Next]_vars
=============================================================================
