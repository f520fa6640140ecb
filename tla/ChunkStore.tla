------------------------------ MODULE ChunkStore ------------------------------
(***************************************************************************)
(* What the pools of a region promise: a chunk is free, in one client's    *)
(* hands, or on its way back, and only a free chunk is handed out.         *)
(* ChunkPool is shown to implement this specification.                     *)
(***************************************************************************)
CONSTANTS Chunks, Clients

VARIABLES free,      \* the chunks that can be handed out
          given,     \* the chunks that are in use
          returning  \* returning[c]: the chunks client c is giving back

vars == <<free, given, returning>>

Init == /\ free = Chunks
        /\ given = {}
        /\ returning = [c \in Clients |-> {}]

Give(h) == /\ h \in free
           /\ free' = free \ {h}
           /\ given' = given \cup {h}
           /\ UNCHANGED returning

StartReturn(c, h) == /\ h \in given
                     /\ returning[c] = {}
                     /\ given' = given \ {h}
                     /\ returning' = [returning EXCEPT ![c] = {h}]
                     /\ UNCHANGED free

Return(c) == /\ returning[c] # {}
             /\ free' = free \cup returning[c]
             /\ returning' = [returning EXCEPT ![c] = {}]
             /\ UNCHANGED given

Next == \/ \E h \in Chunks : Give(h)
        \/ \E c \in Clients, h \in Chunks : StartReturn(c, h)
        \/ \E c \in Clients : Return(c)

Spec == Init /\ [][Next]_vars
=============================================================================
