------------------------------ MODULE Allocator ------------------------------
(***************************************************************************)
(* What the packing block allocator promises to its users: a block that is *)
(* handed out belongs to one mem_t until that mem_t gives it back, and the *)
(* memory of a block is not returned to the system while a mem_t holds it. *)
(***************************************************************************)
CONSTANTS Mems, Blocks, NULL

VARIABLES
    held,       \* held[m]: the block that m holds, NULL for none
    live        \* the blocks obtained from the system and not returned

vars == <<held, live>>

Held == {held[m] : m \in Mems} \ {NULL}

Init ==
    /\ held = [m \in Mems |-> NULL]
    /\ live \in SUBSET Blocks

Acquire(m) ==
    /\ held[m] = NULL
    /\ \E b \in live \ Held : held' = [held EXCEPT ![m] = b]
    /\ UNCHANGED live

\* The block may go back to the system at once.
Release(m) ==
    /\ held[m] # NULL
    /\ held' = [held EXCEPT ![m] = NULL]
    /\ live' \in {live, live \ {held[m]}}

\* Free blocks come and go as the allocator sees fit.
Manage ==
    /\ live' \in SUBSET Blocks
    /\ Held \subseteq live'
    /\ UNCHANGED held

Next == Manage \/ \E m \in Mems : Acquire(m) \/ Release(m)

Spec == Init /\ [][Next]_vars
=============================================================================
