------------------------------- MODULE Barrier -------------------------------
(***************************************************************************)
(* What a reusable barrier promises to the threads of one communicator,    *)
(* whatever its implementation: no thread leaves its k-th crossing before  *)
(* every thread has entered its k-th crossing, and if all have entered it, *)
(* all of them leave it.  BLIS has several implementations (the atomic     *)
(* sense-reversing barrier, the OpenMP tree barrier, the condition-        *)
(* variable barrier); each is compared with this specification.            *)
(***************************************************************************)
EXTENDS Naturals

CONSTANT Threads        \* the threads that share the barrier

VARIABLES
    entered,            \* entered[t]: crossings thread t has begun
    left                \* left[t]: crossings thread t has completed

vars == <<entered, left>>

TypeOK ==
    /\ entered \in [Threads -> Nat]
    /\ left \in [Threads -> Nat]

Init ==
    /\ entered = [t \in Threads |-> 0]
    /\ left = [t \in Threads |-> 0]

Enter(t) ==
    /\ entered[t] = left[t]
    /\ entered' = [entered EXCEPT ![t] = @ + 1]
    /\ UNCHANGED left

Leave(t) ==
    /\ left[t] < entered[t]
    /\ \A u \in Threads : left[t] < entered[u]
    /\ left' = [left EXCEPT ![t] = @ + 1]
    /\ UNCHANGED entered

Next == \E t \in Threads : Enter(t) \/ Leave(t)

\* A thread whose crossing is complete is not held back for ever.
Spec == Init /\ [][Next]_vars /\ \A t \in Threads : WF_vars(Leave(t))

\* The safety part alone, for proofs.
SafeSpec == Init /\ [][Next]_vars

-----------------------------------------------------------------------------

\* No thread is out of a crossing that another thread has not begun.
Synchronised == \A t, u \in Threads : left[t] <= entered[u]
=============================================================================
