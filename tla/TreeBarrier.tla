---------------------------- MODULE TreeBarrier ----------------------------
(***************************************************************************)
(* The tree barrier of src/frame/thread/bli_thrcomm_openmp.c, which        *)
(* BLIS_TREE_BARRIER selects instead of the atomic barrier of Thrcomm: its *)
(* creation (the shape of the tree), a number of crossings, one memory     *)
(* access per step, and the cleanup, which counts the nodes down again.    *)
(*                                                                         *)
(* A node is named by the threads below it, <<first, number>>.  The plain  *)
(* store to count is ordered before the toggle of signal that publishes it *)
(* (release, acquire), so memory is sequentially consistent here too.      *)
(***************************************************************************)
EXTENDS Integers, FiniteSets

CONSTANTS
    N,          \* n_threads of the communicator
    ARITY,      \* BLIS_TREE_BARRIER_ARITY, at least 2 (with 1 the creation
                \* of the tree does not end)
    Crossings   \* how often each thread crosses (the bound of the model)

Threads == 0 .. N - 1

-----------------------------------------------------------------------------
\* bli_thrcomm_tree_barrier_create

First(node) == node[1]
Size(node) == node[2]
Below(node) == First(node) .. First(node) + Size(node) - 1

\* A node of more than ARITY threads has ARITY kids; the threads that are
\* left over by an even division go to the first kids, one to each.
Kids(node) ==
    LET threads_per_kid == Size(node) \div ARITY
        defecit == Size(node) % ARITY
        before(i) == threads_per_kid * i + (IF i < defecit THEN i ELSE defecit)
    IN IF Size(node) <= ARITY THEN {}
       ELSE {<<First(node) + before(i), before(i + 1) - before(i)>> :
                i \in 0 .. ARITY - 1}

Root == <<0, N>>

Nodes ==
    LET level[k \in 0 .. N] ==
            IF k = 0 THEN {Root} ELSE UNION {Kids(n) : n \in level[k - 1]}
    IN UNION {level[k] : k \in 0 .. N}

arity(node) == IF Size(node) <= ARITY THEN Size(node) ELSE ARITY
Dad(node) == CHOOSE n \in Nodes : node \in Kids(n)
Leaf(t) == CHOOSE n \in Nodes : t \in Below(n) /\ Kids(n) = {}
KidOn(t, node) == CHOOSE n \in Kids(node) : t \in Below(n)

-----------------------------------------------------------------------------

VARIABLES
    \* the fields of each barrier_t, and the nodes that are allocated
    count,
    signal,
    allocated,
    \* the local state of each thread
    pc,             \* the access the thread makes next
    barack,         \* the node of its innermost call
    my_signal,      \* the signal it read there
    crossed,        \* completed crossings
    \* of the chief, which cleans up
    cleaned,        \* leaves (comm->barriers[i]) it has passed to the free
    \* history
    generation      \* how often the signal of each node was toggled

shared == <<count, signal, allocated, cleaned, generation>>
vars == <<shared, pc, barack, my_signal, crossed>>

\* bli_thrcomm_init_openmp
Init ==
    /\ count = [n \in Nodes |-> arity(n)]
    /\ signal = [n \in Nodes |-> 0]
    /\ allocated = Nodes
    /\ pc = [t \in Threads |-> "ready"]
    /\ barack = [t \in Threads |-> Leaf(t)]
    /\ my_signal = [t \in Threads |-> 0]
    /\ crossed = [t \in Threads |-> 0]
    /\ cleaned = 0
    /\ generation = [n \in Nodes |-> 0]

Goto(t, point) == pc' = [pc EXCEPT ![t] = point]

\* bli_thrcomm_barrier_openmp: nothing to do for a single thread.
Call(t) ==
    /\ pc[t] = "ready"
    /\ crossed[t] < Crossings
    /\ IF N = 1
         THEN crossed' = [crossed EXCEPT ![t] = @ + 1] /\ UNCHANGED pc
         ELSE Goto(t, "load") /\ UNCHANGED crossed
    /\ UNCHANGED <<shared, barack, my_signal>>

\* my_signal = __atomic_load_n( &barack->signal, RELAXED )
LoadSignal(t) ==
    /\ pc[t] = "load"
    /\ my_signal' = [my_signal EXCEPT ![t] = signal[barack[t]]]
    /\ Goto(t, "count")
    /\ UNCHANGED <<shared, barack, crossed>>

\* __atomic_sub_fetch( &barack->count, 1 ); the last to come calls the
\* barrier of the node above, the others spin.
CountDown(t) ==
    LET node == barack[t]
        last == count[node] = 1
    IN /\ pc[t] = "count"
       /\ count' = [count EXCEPT ![node] = @ - 1]
       /\ Goto(t, IF ~last THEN "spin"
                  ELSE IF node = Root THEN "reset" ELSE "load")
       /\ barack' = IF last /\ node # Root
                      THEN [barack EXCEPT ![t] = Dad(node)] ELSE barack
       /\ UNCHANGED <<signal, allocated, cleaned, generation, my_signal, crossed>>

\* The return from a call: to the node below, whose last thread this is, or
\* out of the barrier.
Return(t) ==
    IF Kids(barack[t]) = {}
      THEN /\ crossed' = [crossed EXCEPT ![t] = @ + 1]
           /\ Goto(t, "ready")
           /\ UNCHANGED barack
      ELSE /\ barack' = [barack EXCEPT ![t] = KidOn(t, barack[t])]
           /\ Goto(t, "reset")
           /\ UNCHANGED crossed

\* barack->count = barack->arity
ResetCount(t) ==
    /\ pc[t] = "reset"
    /\ count' = [count EXCEPT ![barack[t]] = arity(barack[t])]
    /\ Goto(t, "toggle")
    /\ UNCHANGED <<signal, allocated, cleaned, generation, barack, my_signal, crossed>>

\* __atomic_fetch_xor( &barack->signal, 1 )
ToggleSignal(t) ==
    /\ pc[t] = "toggle"
    /\ signal' = [signal EXCEPT ![barack[t]] = 1 - @]
    /\ generation' = [generation EXCEPT ![barack[t]] = @ + 1]
    /\ Return(t)
    /\ UNCHANGED <<count, allocated, cleaned, my_signal>>

\* Mutant of SpinExit: a thread that was woken on the way up leaves the
\* barrier without waking the threads below it.
SpinLeave(t) ==
    /\ pc[t] = "spin"
    /\ signal[barack[t]] # my_signal[t]
    /\ crossed' = [crossed EXCEPT ![t] = @ + 1]
    /\ barack' = [barack EXCEPT ![t] = Leaf(t)]
    /\ Goto(t, "ready")
    /\ UNCHANGED <<shared, my_signal>>

\* The iteration of the spin loop that sees the signal changed.
SpinExit(t) ==
    /\ pc[t] = "spin"
    /\ signal[barack[t]] # my_signal[t]
    /\ Return(t)
    /\ UNCHANGED <<shared, my_signal>>

Finished(t) == pc[t] = "ready" /\ crossed[t] = Crossings

\* Mutant of Counted: every node over the leaf is counted down.
CountedToRoot(i) == {n \in Nodes : i \in Below(n)}

\* One call of bli_thrcomm_tree_barrier_free by bli_thrcomm_cleanup_openmp,
\* which the chief makes when all threads are done with the communicator:
\* the nodes over leaf i are counted down as long as the count of the one
\* below has come to 0, which is then freed.
Counted(i) ==
    {n \in Nodes : i \in Below(n) /\
        \A m \in Nodes : i \in Below(m) /\ Size(m) < Size(n) => count[m] = 1}

Free ==
    /\ \A t \in Threads : Finished(t)
    /\ cleaned < N
    /\ cleaned' = cleaned + 1
    /\ count' = [n \in Nodes |-> IF n \in Counted(cleaned) THEN count[n] - 1
                                                           ELSE count[n]]
    /\ allocated' = allocated \ {n \in Counted(cleaned) : count[n] = 1}
    /\ UNCHANGED <<signal, generation, pc, barack, my_signal, crossed>>

Step(t) ==
    \/ Call(t) \/ LoadSignal(t) \/ CountDown(t)
    \/ ResetCount(t) \/ ToggleSignal(t) \/ SpinExit(t)

Terminated == cleaned = N /\ UNCHANGED vars

Next == (\E t \in Threads : Step(t)) \/ Free \/ Terminated

\* Dedicated threads, as in Thrcomm.
Fairness == (\A t \in Threads : WF_vars(Step(t))) /\ WF_vars(Free)

Spec == Init /\ [][Next]_vars /\ Fairness

-----------------------------------------------------------------------------

\* A thread has entered when it is counted in its leaf.
Entered(t) ==
    crossed[t] + (IF \/ pc[t] \in {"spin", "reset", "toggle"}
                     \/ Kids(barack[t]) # {} THEN 1 ELSE 0)

\* The tree barrier is an abstract barrier.
AbstractBarrier == INSTANCE Barrier WITH
    entered <- [t \in Threads |-> Entered(t)], left <- crossed
ImplementsBarrier == AbstractBarrier!Spec

\* bli_thrcomm_cleanup_openmp counts with the count fields that the
\* barriers have left behind: it touches no node that it has freed, and
\* frees them all.
FreesAll ==
    /\ cleaned < N /\ (\A t \in Threads : Finished(t))
          => Counted(cleaned) \subseteq allocated
    /\ cleaned = N => allocated = {}
=============================================================================
