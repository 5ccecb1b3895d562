---------------------------- MODULE CondBarrier ----------------------------
(***************************************************************************)
(* The barrier that bli_pthread.c makes of a mutex and a condition         *)
(* variable where the system has none (OS X, Windows): for the threads of  *)
(* the test suite, and for bli_thrcomm_pthreads.c when it is built with    *)
(* BLIS_USE_PTHREAD_BARRIER.  What a thread does under the mutex up to the *)
(* unlock or the wait is one step; waiting is the condition variable.      *)
(*                                                                         *)
(* A thread waits once, without a loop over a predicate.  POSIX and        *)
(* Windows allow it to return from the wait without a broadcast; these     *)
(* spurious wakeups, with which it is no barrier, are left out.            *)
(***************************************************************************)
EXTENDS Integers, FiniteSets

CONSTANTS
    N,          \* tripCount, at least 1 (0 is EINVAL)
    Crossings   \* how often each thread crosses (the bound of the model)

Threads == 0 .. N - 1

VARIABLES
    count,          \* barrier->count
    waiting,        \* threads that wait for the condition variable
    inside,         \* threads that are in the barrier
    crossed         \* completed crossings of each thread

vars == <<count, waiting, inside, crossed>>

TypeOK ==
    /\ count \in 0 .. N
    /\ waiting \subseteq inside
    /\ inside \subseteq Threads
    /\ crossed \in [Threads -> 0 .. Crossings]

\* bli_pthread_barrier_init
Init ==
    /\ count = 0
    /\ waiting = {}
    /\ inside = {}
    /\ crossed = [t \in Threads |-> 0]

MayEnter(t) == t \notin inside /\ crossed[t] < Crossings

\* ++count is below tripCount: the thread waits.
Wait(t) ==
    /\ MayEnter(t)
    /\ count + 1 < N
    /\ count' = count + 1
    /\ waiting' = waiting \cup {t}
    /\ inside' = inside \cup {t}
    /\ UNCHANGED crossed

\* Mutant of Broadcast: the count does not start again.
BroadcastOnly(t) ==
    /\ MayEnter(t)
    /\ count + 1 >= N
    /\ count' = N
    /\ waiting' = {}
    /\ inside' = inside \cup {t}
    /\ UNCHANGED crossed

\* The last thread starts the count again and wakes the others.
Broadcast(t) ==
    /\ MayEnter(t)
    /\ count + 1 >= N
    /\ count' = 0
    /\ waiting' = {}
    /\ inside' = inside \cup {t}
    /\ UNCHANGED crossed

\* A thread that was woken gets the mutex back; it, and the last thread,
\* unlock it and return.
Return(t) ==
    /\ t \in inside \ waiting
    /\ inside' = inside \ {t}
    /\ crossed' = [crossed EXCEPT ![t] = @ + 1]
    /\ UNCHANGED <<count, waiting>>

Step(t) == Wait(t) \/ Broadcast(t) \/ Return(t)

Terminated == (\A t \in Threads : crossed[t] = Crossings) /\ UNCHANGED vars

Next == (\E t \in Threads : Step(t)) \/ Terminated

\* Dedicated threads, and a mutex that each of them gets in the end: it is
\* held for a few instructions only.
Fairness == \A t \in Threads : WF_vars(Step(t))

Spec == Init /\ [][Next]_vars /\ Fairness

-----------------------------------------------------------------------------

Entered(t) == crossed[t] + (IF t \in inside THEN 1 ELSE 0)

\* The condition-variable barrier is an abstract barrier, as long as no
\* wakeup is spurious.
AbstractBarrier == INSTANCE Barrier WITH
    entered <- [t \in Threads |-> Entered(t)], left <- crossed
ImplementsBarrier == AbstractBarrier!Spec
=============================================================================
