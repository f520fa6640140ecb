------------------------------- MODULE Graveyard -------------------------------
(***************************************************************************)
(* What the graveyard of dead thread-local allocators (TLAs) promises: a   *)
(* TLA is unborn, in one thread's hands, or buried, and only a buried TLA  *)
(* can be dug up.  ThreadGraveyard is shown to implement this.             *)
(***************************************************************************)
CONSTANTS Tlas, Threads

VARIABLES buried,   \* the TLAs in the graveyard
          held      \* held[t]: the TLAs in the hands of thread t

vars == <<buried, held>>

Init == /\ buried = {}
        /\ held = [t \in Threads |-> {}]

\* A thread gets a TLA nobody has, from fresh memory.
Create(t, n) == /\ n \notin buried
                /\ \A u \in Threads : n \notin held[u]
                /\ held' = [held EXCEPT ![t] = @ \cup {n}]
                /\ UNCHANGED buried

\* A TLA that was emptied is destroyed by the thread that holds it.
Destroy(t, n) == /\ n \in held[t]
                 /\ held' = [held EXCEPT ![t] = @ \ {n}]
                 /\ UNCHANGED buried

Bury(t, n) == /\ n \in held[t]
              /\ held' = [held EXCEPT ![t] = @ \ {n}]
              /\ buried' = buried \cup {n}

DigUp(t, n) == /\ n \in buried
               /\ buried' = buried \ {n}
               /\ held' = [held EXCEPT ![t] = @ \cup {n}]

Next == \E t \in Threads, n \in Tlas :
          Create(t, n) \/ Destroy(t, n) \/ Bury(t, n) \/ DigUp(t, n)

Spec == Init /\ [][Next]_vars
=============================================================================
