----------------------------- MODULE MCThrcomm -----------------------------
(***************************************************************************)
(* Four threads and the barrier that the build has chosen: the atomic one, *)
(* with every order of two adjacent kinds of collective call; the tree     *)
(* barrier; or the one made of a condition variable, without spurious      *)
(* wakeups.  The build never changes, and the variables of the other       *)
(* barriers stand still.                                                   *)
(***************************************************************************)
EXTENDS Thrcomm

MCCalls == <<"bcast", "bcast", "barrier", "barrier", "bcast">>

\* For the other two: the size and arity of the tree (five threads and arity
\* two make three levels, with leaves of one and of two threads), and how
\* often the threads cross.
CONSTANTS TreeN, ARITY, Crossings

ASSUME TreeAssumption ==
    /\ TreeN \in Nat /\ TreeN >= N
    /\ ARITY \in Nat \ {0, 1}
    /\ Crossings \in Nat

VARIABLES
    build,
    tree_count, tree_signal, tree_allocated, tree_pc, tree_barack,
    tree_my_signal, tree_crossed, tree_cleaned, tree_generation,
    cond_count, cond_waiting, cond_inside, cond_crossed

tree_vars ==
    <<tree_count, tree_signal, tree_allocated, tree_pc, tree_barack,
      tree_my_signal, tree_crossed, tree_cleaned, tree_generation>>
cond_vars == <<cond_count, cond_waiting, cond_inside, cond_crossed>>
MCvars == <<build, vars, tree_vars, cond_vars>>

Tree == INSTANCE TreeBarrier WITH
    N <- TreeN,
    count <- tree_count, signal <- tree_signal, allocated <- tree_allocated,
    pc <- tree_pc, barack <- tree_barack, my_signal <- tree_my_signal,
    crossed <- tree_crossed, cleaned <- tree_cleaned,
    generation <- tree_generation

Cond == INSTANCE CondBarrier WITH
    count <- cond_count, waiting <- cond_waiting, inside <- cond_inside,
    crossed <- cond_crossed

MCInit ==
    /\ build \in {"atomic", "tree", "cond"}
    /\ Init
    /\ Tree!Init
    /\ Cond!Init

Others(own) ==
    /\ UNCHANGED build
    /\ own # "atomic" => UNCHANGED vars
    /\ own # "tree" => UNCHANGED tree_vars
    /\ own # "cond" => UNCHANGED cond_vars

\* What thread t does next; the chief also cleans up the tree.
MCStep(t) ==
    \/ build = "atomic" /\ t \in Threads /\ Step(t) /\ Others("atomic")
    \/ build = "tree" /\ Tree!Step(t) /\ Others("tree")
    \/ build = "tree" /\ t = 0 /\ Tree!Free /\ Others("tree")
    \/ build = "cond" /\ t \in Threads /\ Cond!Step(t) /\ Others("cond")

MCTerminated ==
    /\ CASE build = "atomic" -> Terminated
         [] build = "tree" -> Tree!Terminated
         [] build = "cond" -> Cond!Terminated
    /\ UNCHANGED MCvars

MCNext == (\E t \in 0 .. TreeN - 1 : MCStep(t)) \/ MCTerminated

\* The fairness of the three modules: one build has one of them.
MCFairness == \A t \in 0 .. TreeN - 1 : WF_MCvars(MCStep(t))

MCSpec == MCInit /\ [][MCNext]_MCvars /\ MCFairness

-----------------------------------------------------------------------------

\* The tree barrier of bli_thrcomm_openmp.c keeps the promise of a barrier.
TreeImplementsBarrier == Tree!ImplementsBarrier

\* The cleanup of the tree frees each node once.
TreeFreesAll == Tree!FreesAll

\* So does the barrier of bli_pthread.c, without spurious wakeups.
CondImplementsBarrier == Cond!ImplementsBarrier

\* Every call of every thread returns, whichever barrier was built.
EveryCallReturns ==
    <>CASE build = "atomic" -> \A t \in Threads : Finished(t)
        [] build = "tree" -> tree_cleaned = TreeN
        [] OTHER -> \A t \in Threads : cond_crossed[t] = Crossings
=============================================================================
