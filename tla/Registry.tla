------------------------------ MODULE Registry ------------------------------
(***************************************************************************)
(* The registration of new blocksizes, kernels and preferences by the      *)
(* threads of an application, a plugin for instance, in an initialized     *)
(* library: bli_gks_register_* goes through the contexts of all configured *)
(* architectures, bli_cntx_register_* through the stacks of one context,   *)
(* and bli_stack_push appends an element to a stack, under the lock of the *)
(* stack (src/frame/base/bli_gks.c, bli_cntx.c, bli_stack.c).  Lookups     *)
(* take no lock.                                                           *)
(*                                                                         *)
(* A blocksize has two stacks in a context, all other kinds have one.      *)
(* Stores are seen in their order.  bli_malloc_intl reports success in any *)
(* case (bli_malloc.c): without memory the program is aborted or, if error *)
(* checking is off, goes on with NULL; the error paths behind allocations  *)
(* are never taken.                                                        *)
(***************************************************************************)
EXTENDS Integers, Sequences, SequencesExt

CONSTANTS
    Threads,
    Wanted,         \* Wanted[t]: the kinds that t registers, in order
    Contexts,       \* number of configured architectures
    Registered,     \* elements of a stack after bli_gks_init (BLIS_NUM_*)
    BlockLen,       \* block_len and max_blocks: both are 32 in the code
    MaxBlocks,
    Failures,       \* calls of malloc that may fail (the bound of the model)
    NULL

StacksOf(kind) == IF kind = "blksz" THEN <<"blkszs", "bmults">> ELSE <<"ukrs">>

Stacks == (1 .. Contexts) \X {"blkszs", "bmults", "ukrs"}

VARIABLES
    checking,       \* is error checking on? (never changes)
    aborted,
    size, capacity, \* of each stack
    blocks,         \* blocks[s]: block number -> how often it was allocated,
                    \* or 0 for NULL
    lock,           \* the thread that holds it, or NULL
    failures,       \* mallocs that have failed
    \* each thread
    pc,
    done,           \* registrations begun
    cntx,           \* the context it has come to, and the stack there
    stack,
    num_blocks_new,
    new,            \* what bli_stack_push returns
    id_blksz,       \* what the first stack of the context returned
    id,             \* what the context before returned, 0 in the first
    \* history
    given,          \* the ids of successful registrations, with their kinds
    reason,         \* reason[t]: why t's last registration has failed
    disturbed       \* kinds of which two registrations have overlapped

stacks == <<checking, size, capacity, blocks, lock, failures>>
call == <<cntx, stack, num_blocks_new, new, id_blksz, id>>
history == <<given, reason, disturbed>>
vars == <<aborted, stacks, pc, done, call, history>>

CeilBlocks(n) == (n + BlockLen - 1) \div BlockLen

\* What bli_stack_init leaves: exactly the blocks for the first elements.
Init ==
    /\ checking \in BOOLEAN
    /\ aborted = FALSE
    /\ size = [s \in Stacks |-> Registered]
    /\ capacity = [s \in Stacks |-> CeilBlocks(Registered) * BlockLen]
    /\ blocks = [s \in Stacks |-> [b \in 0 .. CeilBlocks(Registered) - 1 |-> 1]]
    /\ lock = [s \in Stacks |-> NULL]
    /\ failures = 0
    /\ pc = [t \in Threads |-> "idle"]
    /\ done = [t \in Threads |-> 0]
    /\ cntx = [t \in Threads |-> 1] /\ stack = [t \in Threads |-> 1]
    /\ num_blocks_new = [t \in Threads |-> 0]
    /\ new = [t \in Threads |-> 0]
    /\ id_blksz = [t \in Threads |-> 0] /\ id = [t \in Threads |-> 0]
    /\ given = {}
    /\ reason = [t \in Threads |-> "none"]
    /\ disturbed = {}

Kind(t) == Wanted[t][done[t]]
Goto(t, point) == pc' = [pc EXCEPT ![t] = point]

\* The stack that the thread is at.
At(t) == <<cntx[t], StacksOf(Kind(t))[stack[t]]>>

Running(kind) == {t \in Threads : pc[t] # "idle" /\ Kind(t) = kind}

\* bli_gks_register_blksz, _ukr, _ukr2 and _ukr_pref
Register(t) ==
    /\ pc[t] = "idle" /\ done[t] < Len(Wanted[t])
    /\ done' = [done EXCEPT ![t] = @ + 1]
    /\ cntx' = [cntx EXCEPT ![t] = 1] /\ stack' = [stack EXCEPT ![t] = 1]
    /\ id' = [id EXCEPT ![t] = 0]
    /\ Goto(t, "lock")
    /\ reason' = [reason EXCEPT ![t] = "none"]
    /\ LET kind == Wanted[t][done'[t]]
       IN disturbed' = IF Running(kind) = {} THEN disturbed ELSE disturbed \cup {kind}
    /\ UNCHANGED <<stacks, num_blocks_new, new, id_blksz, given>>

\* An error: the id is 0, and what has been pushed remains.
Fail(t, why) ==
    /\ Goto(t, "idle")
    /\ reason' = [reason EXCEPT ![t] = why]
    /\ UNCHANGED <<given, disturbed>>

-----------------------------------------------------------------------------
\* bli_stack_push

\* Mutant of Lock: it does not wait.
LockAtOnce(t) ==
    /\ pc[t] = "lock"
    /\ lock' = [lock EXCEPT ![At(t)] = t]
    /\ Goto(t, "test")
    /\ UNCHANGED <<checking, size, capacity, blocks, failures, done, call, history>>

Lock(t) ==
    /\ pc[t] = "lock" /\ lock[At(t)] = NULL
    /\ lock' = [lock EXCEPT ![At(t)] = t]
    /\ Goto(t, "test")
    /\ UNCHANGED <<checking, size, capacity, blocks, failures, done, call, history>>

\* The number of blocks for a capacity half as large again, but at least for
\* the new element and at most max_blocks
Needed(s) ==
    CeilBlocks(Max({size[s] + 1, Min({(capacity[s] * 3) \div 2, MaxBlocks * BlockLen})}))

\* Is there room?  If not, how many blocks are needed for it, and are they
\* too many?
Test(t) ==
    LET s == At(t)
    IN /\ pc[t] = "test"
       /\ IF size[s] + 1 <= capacity[s]
            THEN Goto(t, "save") /\ UNCHANGED <<lock, num_blocks_new, history>>
          ELSE IF Needed(s) > MaxBlocks
            THEN /\ lock' = [lock EXCEPT ![s] = NULL]
                 /\ Fail(t, "full")
                 /\ UNCHANGED num_blocks_new
          ELSE /\ num_blocks_new' = [num_blocks_new EXCEPT ![t] = Needed(s)]
               /\ Goto(t, "grow")
               /\ UNCHANGED <<lock, history>>
       /\ UNCHANGED <<checking, size, capacity, blocks, failures, done, cntx, stack,
                      new, id_blksz, id>>

\* Mutant of NextBlock: it begins with the block that is in use.
LastBlock(s) == capacity[s] \div BlockLen - 1

\* The first block that is not there yet
NextBlock(s) == CeilBlocks(capacity[s])

\* One more block: the capacity is updated after the allocation.
AddBlock(t, b, block) ==
    LET s == At(t)
    IN /\ blocks' = [blocks EXCEPT ![s] =
              [i \in DOMAIN @ \cup {b} |-> IF i = b THEN block ELSE @[i]]]
       /\ capacity' = [capacity EXCEPT ![s] = @ + BlockLen]
       /\ IF b + 1 < num_blocks_new[t] THEN UNCHANGED pc ELSE Goto(t, "save")
       /\ UNCHANGED <<checking, size, lock, done, call, history>>

Grow(t) ==
    LET b == NextBlock(At(t))
        old == blocks[At(t)]
    IN /\ pc[t] = "grow"
       /\ AddBlock(t, b, IF b \in DOMAIN old THEN old[b] + 1 ELSE 1)
       /\ UNCHANGED <<aborted, failures>>

\* There is no memory.
GrowFails(t) ==
    /\ pc[t] = "grow" /\ failures < Failures
    /\ failures' = failures + 1
    /\ IF checking
         THEN /\ aborted' = TRUE
              /\ UNCHANGED <<checking, size, capacity, blocks, lock, pc, done, call,
                             history>>
         ELSE AddBlock(t, NextBlock(At(t)), 0) /\ UNCHANGED aborted

Save(t) ==
    /\ pc[t] = "save"
    /\ new' = [new EXCEPT ![t] = size[At(t)]]
    /\ Goto(t, "increase")
    /\ UNCHANGED <<stacks, done, cntx, stack, num_blocks_new, id_blksz, id, history>>

\* "and finally increase the size"
Increase(t) ==
    /\ pc[t] = "increase"
    /\ size' = [size EXCEPT ![At(t)] = @ + 1]
    /\ lock' = [lock EXCEPT ![At(t)] = NULL]
    /\ Goto(t, "pushed")
    /\ UNCHANGED <<checking, capacity, blocks, failures, done, call, history>>

-----------------------------------------------------------------------------

\* Mutant of Agree: the id of the context before is always compared.
AgreeAlways(t, id_cntx) == id[t] = id_cntx

\* Is the id that this context has given that of the one before?
Agree(t, id_cntx) == id[t] # 0 => id[t] = id_cntx

\* On to the second stack; then the ids of the two are compared, and those of
\* this context and the one before.
Pushed(t) ==
    LET first == IF stack[t] = 1 THEN new[t] ELSE id_blksz[t]
    IN /\ pc[t] = "pushed"
       /\ IF stack[t] < Len(StacksOf(Kind(t)))
            THEN /\ id_blksz' = [id_blksz EXCEPT ![t] = new[t]]
                 /\ stack' = [stack EXCEPT ![t] = @ + 1]
                 /\ Goto(t, "lock")
                 /\ UNCHANGED <<cntx, id, history>>
          ELSE IF first # new[t] \/ ~Agree(t, first)
            THEN Fail(t, "mismatch") /\ UNCHANGED <<cntx, stack, id_blksz, id>>
          ELSE /\ id' = [id EXCEPT ![t] = first]
               /\ stack' = [stack EXCEPT ![t] = 1]
               /\ UNCHANGED <<id_blksz, reason, disturbed>>
               /\ IF cntx[t] < Contexts
                    THEN /\ cntx' = [cntx EXCEPT ![t] = @ + 1]
                         /\ Goto(t, "lock")
                         /\ UNCHANGED given
                    ELSE /\ given' = given \cup {<<t, done[t], Kind(t), first>>}
                         /\ Goto(t, "idle")
                         /\ UNCHANGED cntx
       /\ UNCHANGED <<stacks, done, num_blocks_new, new>>

Grows(t) == ~aborted /\ (Grow(t) \/ GrowFails(t))

Pushes(t) ==
    /\ ~aborted
    /\ Lock(t) \/ Test(t) \/ Save(t) \/ Increase(t) \/ Pushed(t)
    /\ UNCHANGED aborted

Registers(t) == ~aborted /\ Register(t) /\ UNCHANGED aborted

Step(t) == Grows(t) \/ Pushes(t)

AllDone == aborted \/ \A t \in Threads : pc[t] = "idle" /\ done[t] = Len(Wanted[t])

Terminated == AllDone /\ UNCHANGED vars

Next == (\E t \in Threads : Registers(t) \/ Step(t)) \/ Terminated

\* The threads run, and the locks are held for a few instructions only.
Spec == Init /\ [][Next]_vars /\ \A t \in Threads : WF_vars(Step(t))

-----------------------------------------------------------------------------

\* Every successful registration has "a new, unique ID" (docs/PluginHowTo.md),
\* for which every context has an element, in each stack of the kind,
\* even when registrations overlap.
IdsAreNew ==
    \A g \in given :
        /\ \A h \in given : g[3] = h[3] /\ g[4] = h[4] => g = h
        /\ g[4] >= Registered
        /\ \A c \in 1 .. Contexts, s \in ToSet(StacksOf(g[3])) : g[4] < size[<<c, s>>]

\* A registration that fails has a reason: the stack is full to the last
\* element, or the ids of the contexts or of the two stacks differ, which they
\* do not unless registrations of the kind have overlapped.
FailsForReason ==
    \A t \in Threads :
        /\ reason[t] = "full" => size[At(t)] = MaxBlocks * BlockLen
        /\ reason[t] = "mismatch" => Kind(t) \in disturbed

\* An element below the size of its stack has its block, which never moves:
\* bli_stack_get needs no lock ("all information used here can never change
\* even during stack pushes in other threads").  A NULL is there only if
\* memory was short and error checking off.
LookupsNeedNoLock ==
    [][\A s \in Stacks : \A i \in 0 .. size[s] - 1 :
          LET b == i \div BlockLen
          IN /\ b \in DOMAIN blocks[s] /\ blocks'[s][b] = blocks[s][b]
             /\ blocks[s][b] = 0 => ~checking /\ failures > 0]_vars

\* Registrations return, unless the program is aborted.
RegistrationsReturn == \A t \in Threads : []<>(aborted \/ pc[t] = "idle")
=============================================================================
