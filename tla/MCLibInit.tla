----------------------------- MODULE MCLibInit -----------------------------
(***************************************************************************)
(* Two application threads.  Either each has three calls of bli_init_once  *)
(* and bli_finalize: enough for the library to be initialized, finalized   *)
(* and initialized again, by either of them.  Or the library is            *)
(* initialized, and they register blocksizes and kernels, until the stack  *)
(* of kernels is full.  The variables of the other part stand still.       *)
(***************************************************************************)
EXTENDS LibInit

\* One kind with two stacks, which the threads take up in different orders,
\* and one more kernel than there is room for.
Wanted == [t \in Threads |->
    IF t = CHOOSE u \in Threads : TRUE THEN <<"blksz", "ukr">>
    ELSE <<"ukr", "blksz", "ukr">>]

CONSTANTS Contexts, Registered, BlockLen, MaxBlocks, Failures

ASSUME RegistryAssumption ==
    /\ {Contexts, Registered, BlockLen, MaxBlocks} \subseteq Nat \ {0}
    /\ Registered <= BlockLen * MaxBlocks
    /\ Failures \in Nat

VARIABLES
    part,
    reg_checking, reg_aborted, reg_size, reg_capacity, reg_blocks, reg_lock,
    reg_failures, reg_pc, reg_done, reg_cntx, reg_stack, reg_num_blocks_new,
    reg_new, reg_id_blksz, reg_id, reg_given, reg_reason, reg_disturbed

reg_vars ==
    <<reg_checking, reg_aborted, reg_size, reg_capacity, reg_blocks, reg_lock,
      reg_failures, reg_pc, reg_done, reg_cntx, reg_stack, reg_num_blocks_new,
      reg_new, reg_id_blksz, reg_id, reg_given, reg_reason, reg_disturbed>>
MCvars == <<part, vars, reg_vars>>

Registry == INSTANCE Registry WITH
    checking <- reg_checking, aborted <- reg_aborted, size <- reg_size,
    capacity <- reg_capacity, blocks <- reg_blocks, lock <- reg_lock,
    failures <- reg_failures, pc <- reg_pc, done <- reg_done, cntx <- reg_cntx,
    stack <- reg_stack, num_blocks_new <- reg_num_blocks_new, new <- reg_new,
    id_blksz <- reg_id_blksz, id <- reg_id, given <- reg_given,
    reason <- reg_reason, disturbed <- reg_disturbed

MCInit == part \in {"library", "registry"} /\ Init /\ Registry!Init

InLibrary == part = "library" /\ UNCHANGED <<part, reg_vars>>
InRegistry == part = "registry" /\ UNCHANGED <<part, vars>>

MCStep(t) ==
    \/ Step(t) /\ InLibrary
    \/ Registry!Step(t) /\ InRegistry

MCCall(t) ==
    \/ InLibrary /\ \E o \in {"init", "finalize"} : Call(t, o)
    \/ InRegistry /\ Registry!Registers(t)

MCTerminated ==
    /\ IF part = "library" THEN Terminated ELSE Registry!Terminated
    /\ UNCHANGED MCvars

MCNext == (\E t \in Threads : MCStep(t) \/ MCCall(t)) \/ MCTerminated

\* The fairness of the two modules.
MCSpec == MCInit /\ [][MCNext]_MCvars /\ \A t \in Threads : WF_MCvars(MCStep(t))

-----------------------------------------------------------------------------

\* Each successful registration has a new id, which every context knows.
IdsAreNew == Registry!IdsAreNew

\* A registration fails only if a stack is full or registrations overlap.
FailsForReason == Registry!FailsForReason

\* What a lookup without the lock finds is there, and stays where it is.
LookupsNeedNoLock == Registry!LookupsNeedNoLock

\* All calls return: initializations, finalizations and registrations.
EveryCallReturns == CallsReturn /\ Registry!RegistrationsReturn
=============================================================================
