# TLA+ models of BLIS

BLIS is a library of dense linear algebra. Nearly all of its code is arithmetic; what can go
wrong between two threads is concentrated in a small runtime under it: communicators and
barriers, the trees of thread information that the threads of one operation build together, the
pools that packed matrices live in, and the initialization of the library. These modules model
that runtime, TLC checks them on small instances, and TLAPS proves the central results for every
value of their constants. Paths below are relative to `src/`.

## 1. Inventory

| component | state it keeps | operations | correct when |
|---|---|---|---|
| thread communicator (`frame/thread/bli_thrcomm*.c`) | `barrier_sense`, `barrier_threads_arrived`, `sent_object`, shared by a team | create, barrier, broadcast, clean up, free | nobody leaves a barrier another has not reached; a broadcast delivers the object of that broadcast; all calls return |
| other barriers (`bli_thrcomm_openmp.c`, `bli_pthread.c`) | the tree barrier's nodes; mutex, condition variable and count | as above, and the creation and cleanup of the tree | they implement the same barrier; each node of the tree is freed once |
| thread info tree (`bli_thrinfo.c`, `frame/3/bli_l3_thrinfo.c`) | one tree of `thrinfo_t` for each thread, sharing communicators | create root, split, grow, replace (sup), free | teams agree on members and ids; nothing is used after it was freed, freed twice, or left |
| level-3 decorators (`frame/3/bli_l3_decor.c`, `bli_l3_sup_decor.c`, `frame/thread/bli_thread_*.c`) | the communicator of the operation, the array for the small block allocator | launch, run, join | it outlives every thread; the closing barrier comes before the frees |
| memory pool (`frame/base/bli_pool.c`) | `block_ptrs`, its length, `num_blocks`, `top_index`, `block_size` | init, finalize, reinit, check out, check in, grow, shrink | no block is lost, shared, freed twice or too small |
| packing block allocator (`bli_pba.c`, `bli_memsys.c`) | three pools behind one mutex | acquire, release, init and finalize pools | blocks are exclusive and stay allocated while held |
| small block allocator (`bli_sba.c`, `bli_apool.c`, `bli_array.c`) | a pool of arrays of pools | check out, check in, resize an array, acquire, release | one array for each operation that runs, a pool for each of its threads, none lost in a resize |
| packing of matrices (`frame/1m/packm/`) | each thread's copy of the `mem_t` of the shared buffer | `bli_packm_int`, `bli_packm_alloc_ex` | all write and read the same, current buffer, at the right time |
| runtime object (`bli_rntm.c`), thread factorization (`bli_thread.c`) | number of threads and ways of each loop; the global copy behind a mutex | setters, sanitize, factorize | the ways multiply to the number of threads, which is the one that was asked for |
| partitioning of loops (`bli_thread_range*.c`, `bli_blksz.c`) | none (arithmetic) | slab, round-robin, weighted ranges; blocksizes | the ranges tile the iteration space; blocks stay within them |
| level-3 loops (`frame/3/gemm/bli_gemm_blk_var1.c`, `bli_gemm_ker_var2.c`, `frame/3/trsm/bli_trsm_blk_var1.c`, `_blk_var3.c`, `_ll_ker_var2.c`, `_lu_ker_var2.c`, `bli_part.c`) | each thread's indices; C and, in a trsm, the packed B, without a lock | walk the blocks of a range, the microtiles of a block; solve, then update | every element of C is updated by one thread, once; a trsm uses no row before it is solved |
| library initialization (`bli_init.c`, the switches of `bli_pthread.c`) | five switches, two of them thread-local | `bli_init[_once]`, `bli_finalize`, switch on, switch off | one initialization for each cycle, complete before anyone uses it |
| kernel structure, contexts, induced methods (`bli_gks.c`, `bli_cntx.c`, `bli_ind.c`), stack of kernel ids (`bli_stack.c`) | registered contexts; stacks that grow while others look things up | register, query | written before they are read; new ids are unique and the same in every context; what a lookup finds does not move |
| control trees (`bli_cntl.c`, `frame/3/*/*_cntl.c`) | trees, read-only while they run | create, walk | every thread walks the same tree |
| levels 0-2, utilities, object API; BLAS and CBLAS layers; kernels and configurations; test suite and build system | none that is shared | | |

How they interact. An application thread calls a level-3 operation, which calls `bli_init_once`,
builds a control tree, and enters a **decorator**. The decorator makes a **communicator**
(`gl_comm`) and launches the threads. Each builds its **thread info tree**, by splits that
broadcast and synchronise in the communicators of the parent nodes. The walk of the control tree
cuts the matrices into ranges and blocks by the **partitioning of loops**, and **packs** blocks: the
chief of a team acquires a buffer from the **packing block allocator**, whose **pools** all threads of all operations share, and broadcasts it. After the closing barrier
the threads free their trees, and with them the communicators and buffers. Teams share memory and
nothing else: there are no messages, no callbacks, no persistent state and no retries, so that
crashes and lost messages are not behaviours of this system.

The hard behaviours are: the reuse of one barrier and one `sent_object` call after call (a fast
thread is in the next call while a slow one is leaving the last); memory that one thread frees
while its peers may still look at it; per-thread copies of shared facts (the `mem_t` of a buffer,
the ways of a loop) from which every thread decides for itself, which must decide alike or the
team is blocked; a pool that changes its block size while blocks are out; switches that are
tested without their lock; thread-local state under a library-wide life cycle; and a matrix that all
threads write without a lock, kept apart by nothing but arithmetic. `PROJECT.json`
lists each under `hazards`, at its line, with the properties that cover it.

## 2. Modules

| module | models | composed with |
|---|---|---|
| `Barrier` | what a reusable barrier promises (abstract) | implemented by `Thrcomm`, `TreeBarrier`, `CondBarrier`; used by `Packm` |
| `Thrcomm` | sense-reversing barrier and broadcast, one memory access per step | `INSTANCE Barrier` |
| `ThrcommProofs` | theorems about `Thrcomm`, and about `TreeBarrier` and `CondBarrier` as `MCThrcomm` has them | |
| `TreeBarrier` | the barrier of `BLIS_TREE_BARRIER`: shape, crossings, cleanup | `INSTANCE Barrier` |
| `CondBarrier` | the barrier made of a mutex and a condition variable | `INSTANCE Barrier` |
| `Allocator` | what the packing block allocator promises (abstract) | implemented by `Pool`, used by `Packm` |
| `Pool` | `pool_t` under the mutex of `bli_pba_acquire_m`/`bli_pba_release`, with the heap below | `INSTANCE Allocator` |
| `PoolProofs` | theorems about `Pool` | |
| `ThrInfo` | trees of one operation: splits, work, replacement, frees, join | |
| `ThrInfoProofs` | theorems about `ThrInfo` | |
| `Packm` | packing by a team, with other users of the allocator | `INSTANCE Barrier`, `INSTANCE Allocator` |
| `PackmProofs` | theorems about `Packm` | |
| `LibInit` | the five switches, concurrent init and finalize | |
| `LibInitProofs` | theorems about `LibInit`, and about `MCLibInit` by those of `RegistryProofs` | |
| `Registry` | registration of blocksizes and kernels in the stacks of all contexts | beside `LibInit`, in `MCLibInit` |
| `RegistryProofs` | theorems about `Registry` | |
| `Rntm` | `rntm_t`: setters, sanitization, factorization (operators) | used by `Decorator` |
| `Decorator` | level-3 operations from call to return, with the settings of the application and the small block allocator | extends `Rntm` |
| `DecoratorProofs` | theorems about `Rntm` and `Decorator` | |
| `ThreadRange` | the arithmetic of ranges and blocksizes (operators) | used by `GemmLoops`, `Trsm` |
| `GemmLoops` | the third, second and first loops of gemm and of the update in trsm, by all threads | extends `ThreadRange` |
| `GemmLoopsProofs` | theorems about `ThreadRange`, `GemmLoops` and, in `MCGemmLoops`, `Trsm` | |
| `Trsm` | a left-sided trsm, from the loop over k to the microtiles | extends `ThreadRange`; beside `GemmLoops`, in `MCGemmLoops` |
| `MC*` | values of the constants for TLC; some put two or three alternatives side by side | |

So `Packm` is checked on top of `Barrier` and `Allocator`, and the three barriers and the detailed
`Pool` are shown to implement these two, by TLC on an instance, and by proof for every instance.
`ThrInfo` and `Packm` rely on ways that multiply to the number of
threads of the communicator: that is `TeamIsWays` of `Decorator`. Some MC modules hold several parts
that a program or a build has one at a time: `MCThrcomm` chooses a barrier (`build`), `MCLibInit` the
switches or the registry (`part`), `MCGemmLoops` a gemm or a trsm. The choice is made in the initial
state and the variables of what was not chosen stand still.

**Thrcomm.** The variables are the fields of the `thrcomm_t` and the locals of
`bli_thrcomm_barrier_atomic` and `bli_thrcomm_bcast`. Each action is one access to the shared
object: `LoadSense`, `Arrive` (the `add_fetch` and the test of its result), `ResetArrived`,
`ToggleSense`, `SpinExit` (the iteration that sees the change), `Send`, `Receive`. The threads of
a communicator make the same collective calls, which is how every caller in `frame/` is written;
`Calls` is that list. The object of call *k* is the number *k*, so that a stale object is
recognised. `generation` and `crossed` are history variables. Memory is sequentially consistent
in this module, which the acquire and release orders of the code justify: the only relaxed load
(of the sense, on entry) is ordered by the `acq_rel` arrival after it and by the acquire that ended
the previous barrier, and the only plain store (the reset) by the release that toggles the sense.

**TreeBarrier.** A `barrier_t` is named by the threads below it, `<<first, number>>`; `Kids` is the
division of a node in `bli_thrcomm_tree_barrier_create`. A thread arrives at its leaf, the last to
arrive there goes on to the dad, and so up to the root; on the way back each of them restores the
count and toggles the signal of its node. Each of these accesses is a step. `Free` is
`bli_thrcomm_tree_barrier_free` for one leaf: it counts its dads down and frees those that come to 0.
`generation` is a history variable: how often the signal of each node was toggled.

**CondBarrier.** What a thread does under the mutex up to the wait or the unlock is one step: `Wait`,
or, for the last, `Broadcast`, which empties the condition variable. `Return` is the end of a wait.

**Pool.** One action for each step of an operation whose place matters (`Acquire` takes the lock,
then `LargeEnough` or `Reinit`, then `HasRoom` or `Grow`, then `Take` and unlock; `Release`, then
`Checkin` or `CheckinOrphan`), and one each for `Shrink`, `Finalize` and `InitPools`. A block is an
address; `heap` says what `malloc` has at each address, and addresses are reused after a free. A
`mem_t` stands for the thread that uses it. `aborted` records a call of `bli_abort`, `bad_free` a
`free` of anything but an allocated block. `OffsetSize` is `BLIS_POOL_ADDR_OFFSET_SIZE_*`. The
model has one of the three pools of the allocator: they share only the mutex, which
makes the steps of different pools exclude each other and nothing more.

**ThrInfo.** An operation is a list of trees that are built one after the other, and the
synchronisations of its work in the last of them. A tree is the list of the calls of
`bli_thrinfo_split` that grow it. A split is the
sequence of steps between its barriers (`SplitBcast`, `SplitReceive`, `SplitFill`, `SplitAttach`,
`SplitDrop`, or `SplitTrivial` when no communicator is made); barriers are an arrival and an exit,
because a use after free bites between the two. Communicators and arrays get a fresh name each,
with a flag that a free resets. `Regrow` and the frees before it are
`bli_l3_sup_thrinfo_update`; `Close`, `FreeComm`, `Finish` and `Join` the end of the operation.

**Packm.** The steps of `bli_packm_int` and `bli_packm_alloc_ex` between their barriers. Each
thread has its `mem_t`; the chief has `local_mem_s`, with its lifetime. `content[b][t]` is the
packing from which the panels of thread *t* in block *b* are, and 0 once another team has
written there. `Others` is that team, `Manage` the allocator's own doing.

**LibInit.** `Test`, `Lock`, `Retest`, `FunctionReturn`, `Unlock` are the steps of
`bli_pthread_switch_on` and `_off`; the function behind the switch takes two, so that
others can be seen to wait for it. `in_order` is the machine: whether other threads see the plain
store of `status` only after what the function stored (x86), or may see it before (ARM, POWER; the
stores then arrive by the step `StoresSeen`). The program has a data race there, and the model has
its outcomes.

**Registry.** A registration goes through the contexts of all architectures and, in each, through one
stack or (blocksizes) two. `Lock`, `Test`, `Grow`, `Save`, `Increase` are the stores of
`bli_stack_push` in their order, so that a lookup, which takes no lock, may fall between any two of
them; `Pushed` compares the ids. `blocks` says how often each block was allocated, or that it is
NULL: `GrowFails` is a `malloc` without memory, which aborts the program or, with error checking
off, goes unnoticed.

**Rntm, Decorator.** A `rntm_t` is a record; each setter is an operator that ends in `Sanitize`
where the code does. `Decorator` has application threads that change the global object and their own
(`SetGlobal`, `SetLocal`) and call operations: `Begin` (copy and factorize, for the conventional and
the sup decorator, and the choice of the implementation), `Checkout` (with the growth of the
`apool_t`), `Resize` (without its lock), `Launch` (OpenMP may start fewer threads), `Enter` (the
check of the number of threads and the thread's pool), `Leave`, `Join`, `Checkin`, `Finalize`. Each
`pool_t` that is made is counted, so that a lost one shows. `ended` says why the program stopped.

**ThreadRange, GemmLoops.** `RangeSub`, `RangeTlb` and `DetermineBlocksize` are the functions of the
same names; `RangeSubN` is the former from the quotients and remainders on, which is what the proofs
need. `GemmLoops` runs them: `Range`, then for each block `NextBlock` (blocksize, then the
partition that `bli_acquire_mpart_mdim` clips and, going backward, relocates), `Kernel` (what the
macrokernel does before its loops, by slabs or by tiles) and one `Microkernel` for each microtile.
`c` counts the updates of each element. The columns of a microtile are one.

**Trsm.** `NextKBlock` is an iteration of `bli_trsm_blk_var3`, `Pack` the packing of B between its
two barriers, `NextSolve`/`Gemmtrsm`/`EndSolve` and `NextUpdate`/`Gemm`/`EndUpdate` the two loops of
`bli_trsm_blk_var1` with the macrokernels, one microtile at a time, for lower and upper triangular
A. Numbers are replaced by terms: an element knows which solved rows were subtracted from it and
whether it is solved. A microkernel that reads anything but what the algorithm asks for
leaves `Garbled`.

## 3. Runs

| run | instance | shows | distinct states |
|---|---|---|---|
| `Thrcomm` | atomic barrier: 4 threads, 5 calls; tree barrier: 5 threads, arity 2, 3 crossings; condition variable: 4 threads, 3 crossings | `BarrierSync`, `BcastAgreement`, `NoLostToggle`; the tree is freed, once; all calls return; each of the three implements `Barrier` | 31 973 |
| `Pool` | 3 users, 6 addresses, sizes 1-3 | no abort, no bad free, accounting, sizes, growth, implements `Allocator` | 7 209 up to symmetry |
| `PoolOffset` | 2 users, offset 1 | **violation**: a bad free on reinitialisation | |
| `ThrInfo` | 4 threads, 2 x 2 ways; the trsm tree, or the sup tree twice | no use after free in the last tree, arrays outlive readers, each communicator is freed once and none is left, teams and work ids, all return | 47 370 |
| `ThrInfoEarlyFree` | the sup tree, twice | **violation**: the replacement frees a communicator in use | |
| `Packm` | 3 threads, 4 packings, 2 blocks | the buffer is held and large enough, panels are stable while they are read, the chief's local outlives its readers, all return | 11 420 |
| `LibInit` | 2 threads with 3 calls each; or with up to 3 registrations each, 2 contexts, stacks for 6 elements | one initialization at a time and in order, whose effect is there on return; new ids are unique and everywhere, failures have a reason, lookups need no lock; calls return | 307 410 |
| `GemmLoops` | 4 threads; gemm of up to 19 rows and 3 columns of microtiles; trsm of up to 5 x 3 and 2 x 6 micropanels | every element updated, once; no microtile of a trsm is computed from what is not ready; the solution is computed; all return | 106 958 |
| `GemmLoopsBackward` | 8 rows, 4 ranges, maximum blocksize | **violation**: a block leaves its range | |
| `TrsmIrWays` | 2 x 2 micropanels, ways 1 x 2 x 2 | **violation**: two threads solve the same micropanel | |
| `Decorator` | 2 application threads, 2 + 1 operations, one setting; OpenMP | ways, communicator and threads agree; arrays and pools are accounted for; operations return | 221 083 |
| `RntmSingle` | the same with POSIX threads, a request for 6 | **violation**: a request for 6 threads runs with one | |

Deadlock is checked in every run; where the program stops, a `Terminated` action says that it has
finished, so that any other state without a step is an error. For each property of a passing run
`PROJECT.json` names a mutant: a plausible bug in one definition (a missing barrier, a missing
reset, an off-by-one), with which TLC finds the property violated. The mutants' operators stand
before the definitions they would replace, marked "Mutant of".

### Bounds, and why they are enough

* `Thrcomm`: `Calls` has every ordered pair of adjacent kinds of call (broadcast-broadcast,
  broadcast-barrier, barrier-barrier, barrier-broadcast), and no thread can be more than one
  barrier ahead of another, which the proof shows. With four threads the last to arrive, the
  first to return, and two that are in between are different threads. Five threads make a tree of
  three levels that is not balanced, with leaves of one and of two threads; three crossings
  (`Crossings`) are enough for a signal to come back to its first value while a thread is late.
* `Pool`: each of three users can hold one block while the pool holds up to three: six addresses
  are enough for `malloc` never to fail. Three sizes give two reinitialisations with blocks out
  in each. `InitNum = 1` and `InitLen = 0` make growth and the reallocation of the array happen.
  `Shrink` is tried with 1 and 2.
* `ThrInfo`: the tree of a left-sided trsm is the one with a branch in BLIS; its two branches
  split the same team into different ones. With 4 threads and 2 ways, teams of 4, 2 and 1 occur.
  It synchronises at one node above and one below the split. The sup operation replaces its tree
  once, with the same ways, so that the old and the new communicators look the most alike; the
  ways the handler computes are an input of the model. `ClosedBeforeFree` is about the last tree;
  that the replacement of a tree is not as safe is the run `ThrInfoEarlyFree`.
* `Packm`: the packings 1, 2, 0, 1 make a team acquire, replace, skip and reuse; an acquired block
  may be larger than was asked for, so that the replacement may also not be needed. Two blocks are
  enough for the other team to get the one that was given back.
* `LibInit`: two threads with three calls (`MaxCalls`) can initialize, finalize and initialize again,
  with any of the calls in either thread, on either kind of machine.
* `Registry`: `BlockLen = 1` and `MaxBlocks = 6` (both are 32 in the code) make each push allocate,
  by one block or by two, and let a stack become full, with `Registered = 4` elements there
  from the start. Two contexts suffice for ids that differ between them. One `malloc` may fail
  (`Failures`). The two threads register the two kinds in opposite orders, so that they overlap in one
  kind, in different kinds, and not at all.
* `Decorator`: the second array makes `block_ptrs` grow (`BlockPtrsLen = 1`, 8 in the code), and an
  operation with more threads than the last one makes an array grow; two application threads
  are enough for an array to be given back in another order than it was taken. Three threads are a
  prime above `NTMaxPrime`, so that the number is reduced to 2. One setting (`MaxSettings`) before
  the first or between two operations (`MaxOps`) gives every setter after the environment's. That
  factorization multiplies to the number of threads for 1 to 40 threads and four sizes is the
  assumption `FactorsMultiplyToNT`, which TLC evaluates; for all of them it is the theorem
  `FactorizationsMultiply`.
* `GemmLoops`: the problems have fewer rows than threads, edges in each loop, several blocks in a
  range, blocks that grow to the maximum, and slabs and tiles that begin in the middle of a column.
  Every way of distributing four threads over two of the loops occurs. The arithmetic for all sizes
  is the subject of the proofs. Two things are left out: backward with a maximum above the
  blocksize (the run `GemmLoopsBackward`), and tiles with ways in the first loop (section 6).
* `Trsm`: five rows in blocks of two make three diagonal blocks with an edge, so that a row is
  updated twice before it is solved; with KC = 3 and MC = 2 a diagonal block is solved in two
  blocks of rows. There are fewer columns than threads and more. The ways are those without ways in
  the first loop, which are the run `TrsmIrWays`.

### Fairness

Every liveness property assumes weak fairness of the steps of each thread: OpenMP and POSIX
threads are preemptively scheduled, and a thread that spins gives way in the end. In `Packm` an
acquisition waits for the allocator to have a free block. The allocator makes one whenever it has
none (weak fairness of that `Manage` step; in `Pool` it is the step `Grow` of the acquiring
thread), but other users may take it first, so that the thread is enabled again and again rather
than for ever: strong fairness of its steps stands for the mutex that makes the two steps one. In
`LibInit`, `Registry` and `Decorator` a lock is contended by as many threads as make calls, which is
finite here, and weak fairness is enough; that an application calls at all is not assumed, nor that
an application thread of `Decorator` makes settings. There a `Step` is one of the application
thread or of any thread of its operation: each of these steps brings the operation nearer to its
end, and so weak fairness of their disjunction is enough. For the same reason `MCGemmLoops` assumes
weak fairness of `SomeStep`, the step of any thread, and no more. `MCThrcomm` and `MCLibInit` assume
the fairness of the modules they are made of. `Barrier` itself promises weak fairness of `Leave`
only: whether threads come to a barrier is the caller's affair.

## 4. Proofs

*What the proofs are about.* `ThrcommProofs` (for every `N > 0` and every list of `Calls`,
or any number of crossings, and every number of threads and arity of the tree), `PoolProofs` (for every finite
set of users, every set of addresses, every set of positive sizes, and every argument of
`bli_pool_init`), `ThrInfoProofs` (for any number of threads and all lists of trees that
`TreesAssumption` allows), `LibInitProofs` (for every set of threads and number of calls), `PackmProofs` (for
every size of the team, list of packings and set of blocks), `DecoratorProofs` (for every set of
application threads, every list of their operations and every factor), `GemmLoopsProofs` (for every
set of problems and of triangular systems: any sizes, ways, blocksizes and starting points) and `RegistryProofs` (for any
number of threads, contexts and blocks, and all lists of registrations) prove their inductive
invariant (`IInv`, mostly) first, one step for each action, and the properties from it. TLC has checked each
`IInv` on the instance of the run before it was proved.

*Thrcomm.* `BarrierSync` is not inductive. What makes it so is (`SenseInv`) where each thread is
relative to the communicator's `generation`: a thread that spins is either in the present barrier
and has its sense, or in the last one and has the other sense; no thread is anywhere else. A
thread that is to reset or toggle finds all threads arrived, and there is one such thread
(`OneLastInv`). The count is the number of arrivals, except between reset and toggle (`CountInv`).
For broadcasts, the threads must be known to be in the same barrier of the list: `AgreeInv` says
that they agree on its number, which `LastOfComm` computes from what each of them knows, and
`SentInv` that the chief's object stays from its `Send` to its next call. The theorems are
`TypeCorrect`, `BarrierIsSynchronised`, `BcastIsCurrent`, `ToggleIsSeen`, and `BarrierRefinement`:
the communicator implements the safety part of `Barrier`. They need `NAssumption` and
`CallsAssumption`.

*CondBarrier.* The count says nothing unless it is known which threads it counts. `IInv` says that it
is the number of those that wait, and that all threads are of one round *g* (`Rounds`): each has
crossed *g* times, and waits or is outside, or is on its way out of the *g*-th crossing. With these
the last of a round finds all others waiting, and `CondRefinement` follows. The invariant is named
`CondIInv`, since the theorems are about the instance in `MCThrcomm`; they need `NAssumption` and
`TreeAssumption`.

*TreeBarrier.* First the shape of the tree, which is not obvious from the division of a node. The kids of
a node partition its threads (`TreeKidsPartition`, from where they begin, `TreeCuts`), there are as many as
its arity says, and of two nodes over the same thread one is below a kid of the other (`TreeNested`), so
that the nodes over a thread are a chain from its leaf to the root. `Nodes` is a recursive function
of the level: `TreeLevelsExist` shows that there is such a function, and `TreeLevelInduction`, by a
least counterexample, what holds of all levels. The history variable `generation` counts the releases
of each node. `TreeRoundInv` then says that the nodes over a thread are released once in each of its
rounds, from the root down; `TreeHoldInv` that where one thread has gone on from a node, the others
below it wait, in its round; and `TreeCountInv` that a count is the arity less the number of parts
(kids or threads) that have come, or the arity itself between the reset and the toggle. With these
the last of a round at a node finds all others below it waiting (`TreeLastFindsAll`). When all threads
are done, the counts are therefore the arities, and `TreeCleanInv` says how the cleanup goes on: the
call for leaf *i* counts down the nodes a part of which ends with thread *i* (`TreeCountedFacts`), and
frees those that end there themselves, so that `allocated` is the nodes that do not end before
`cleaned`. `TreeIsFreed` and `TreeRefinement` follow. The refinement is for more than one thread: a
single one does not use its tree, and in the model enters and leaves in one step. They need
`NAssumption` and `TreeAssumption`; TLC checked the invariant for trees of 1 to 7 threads, of arity 2
and 3, of one to three levels.

*Pool.* `Accounting` and `NoAbort` depend on what `top_index` means, which no line of the code
says: it is the number of `mem_t` that hold a block *of the present size* (`CurrentHolders`),
orphans not counted. `IInv` says so, with the shape of the array (`SlotsInv`: entries below
`top_index` are cleared, those above name different live blocks of the present size), what holders
have (`HeldInv`: a live block that is nobody else's, of at most the present size), and where the
lock is (`PointInv`). A reinitialisation makes all holders orphans, and so `top_index` 0. The
theorems are `TypeCorrect`, `BlocksAccounted`, `NeverAborts`, `FreesAreGood` (which assumes
`OffsetSize = 0`, as the run `PoolOffset` shows it must), `BlocksBigEnough`, `GrowthIsBounded` and
`AllocatorRefinement`: the pool implements `Allocator`. They need `MemsAssumption`,
`BlocksAssumption`, `SizesAssumption` and `InitAssumption`.

*ThrInfo.* Nobody's node says when it may be freed: that a communicator has no reader left follows from
how far each thread has come. A thread's `Place` is the epoch, the number of nodes it has and the
stage of the split or of the work that it is in, and places are ordered (`Before`). What a thread has
at a place is a function of the operation, the place and its number: its nodes (`NodeOf`), the barrier
it waits in (`CommAt`), the communicators it has made and those it has freed (`ThreadInv`); so are the
communicators and arrays that there are (`CommsInv`, `ArraysInv`). `SyncInv` is what barriers are
for: whoever is through the barrier before a place, or free to leave it, has been joined there by its
whole team; who waits there waits with all of the team that have come; and the communicator counts
those who wait. A team is a run of consecutive threads (`Base`), and those of
a node lie within those of its parent (`ParentTeams`), so that the barriers of the nested teams carry
the order from one thread to the next; a communicator that is shared belongs to one team (`SameComm`).
`TeamSize` and `Origins` are recursive functions, of
which `RecursionExists` shows, as for the factorization, that there are such functions. The theorems
are `NobodyFreesInUse`, `ArraysAreRead`, `NothingLeaks`, `IdsAreDistinct` and `WorkIsDistinct`; they
need `TreesAssumption`. `NobodyFreesInUse` is about the last tree, as the run
`ThrInfoEarlyFree` shows it must be.

*LibInit.* That one thread at a time is in the function of a switch follows from who holds its
mutex (`LockInv`, `InsideInv`). That the functions run in the order of `bli_init_apis`, and what is up
when a call returns, needs more: which switches the thread of a call has passed (`PassedInv`), that
those are on and what they stand for is up (`UpInv`), and that initializations and finalizations do
not overlap (`PhaseInv`, `CycleInv`). The theorems are `InitsOneAtATime` and `ReturnsTakeEffect`; the
property of the latter is about machines where stores are seen in order. They need
`LibInitAssumption`.

*Packm.* Between barriers every thread decides for itself, from its own `mem_t`, whether the block is
to be replaced. `TogetherInv` says that threads that have entered equally many barriers are at the
same place of their lists, and that no thread is more than one barrier ahead: the barrier's promise,
carried over to the control points of all threads (`After` says which barrier follows which). It is
inductive only with the reason why all decide alike: their copies agree except while the
block is replaced (`MemInv`), and those that have not copied the new description yet have an old one
that is too small (`SizeInv`). `ChiefInv` and `CopyInv` follow the description from the chief's stack to
the copies; `ContentInv` says whose panels are in the block between the second barrier and the next
packing. The theorems are `BlockIsHeld`, `DataIsStable` and `LocalIsThere`. They need
`PackmAssumption`, and what `Barrier` and `Allocator` promise, which the three barriers and
`Pool` are proved to keep.

*Rntm and Decorator.* The factorization is a loop that divides by prime factors, written as a recursive
function. TLAPS cannot prove by induction what such a function returns, but it can prove that there is
one: `RecursionExists` shows, by a least counterexample, that a recursion from each element to a
smaller one has a solution. `FactorizeSettles` then shows that the loop ends with sides that
multiply to the number of threads, and `FactorizationsMultiply` that both factorizations do, for every
request, which `SanitizeRequests` shows that sanitization makes one of two kinds (`Requested`: with
automatic factorization, or with ways that already agree). For the allocator, `AccountInv` says of each
array whether it is in the pool or out, and with whom; `PoolInv` that an element of an array has one
pool; `OpInv` what an operation has at each of its points. `WaysAgree`, `NoArrayIsLost` and
`NoPoolIsLost` follow. They need `DecoratorAssumption`: a finite set of application threads, positive
sizes, and settings at the beginning that sanitization has made, as `bli_rntm_init_from_env` does.

*ThreadRange and GemmLoops.* `RangesPartition`: whatever the dimension, the block factor, the number of threads and
the end that gets the edge, every index is in the range of exactly one thread. The ranges are shown
to be those between consecutive cuts, for which there is a closed form (`Cut`, `RangesAreCuts`); the
cuts begin at 0, end at the dimension (`RangeCutEnds`) and are in order (`RangeCutMonotone`), and the
range of an index ends at the least cut above it. `BlocksFit`: `bli_determine_blocksize` returns
a nonempty block that is within what is left, forward or with no larger maximum; backward with a
larger one it does not, which is the run `GemmLoopsBackward`.

From there to "every element once" it is a longer way. The ids of a thread at the three loops
are digits of its number (`IdsInRange`, `ThreadWithIds`). Each element belongs to one thread
(`OwnerExists`, `OwnerIsUnique`), by the range of its row in the third loop and, in a block, by the
slab or the tile that its microtile is in (`TileOwner`). The positions where blocks begin have a
closed form (`GridStep`, `GridCovers`), so that each row is in one block, and so have the
microtiles of a thread in a block, which it visits in one line (`AdvanceLine`). `CountInv` is then
the invariant: an element has been updated once if its owner has come past it (`Done`), and
otherwise not at all. `NoneTwice` and `NoneLeftOut` follow, and `GemmBesideTrsm`, which has both for
`MCSpec`, the specification that is run. They hold for all problems that are not
backward with a larger maximum, for the reason above, and have one way in the first loop if they have
tiles (section 6): that is the hypothesis in the statement of the theorems, and one of the problems of
the run `GemmLoopsBackward` is where it fails.

*Trsm.* What an element of B holds depends on how far two or three threads are: the one that solves
it, and those that update it, which need not be those that solve the rows they update it with. A row
has a place in the order in which the rows are solved, so that both directions are one (`Flip`,
`BlockAt`), and a thread a round, which block of A's columns it is in (`Round`), told by the barriers that it has
called (`Counted`). `Together` is what the barriers are for: no thread is more than one barrier
behind another, and none at all behind one that has left its barrier. So those that work are all of
the same round, the least there is (`InFront`). `ElementsAre` says what every
element holds in that round *q* with the block *k*: what is behind the block has been solved; an element of a row in the
block has been solved if its thread has been at it (`SolveDone`), and has else had everything behind
the block subtracted; an element ahead has had the block subtracted too if its thread has been at it
(`UpdateDone`). `PackedAre` says the same of the packed rows, as soon as they have been packed.
`ElementsAre` needs to know which thread it is: the columns of the solve are partitioned among all
threads (`SolveShares`), the elements of the update by two of the digits of the thread's
number (`UpdateShares`), both by `RangesPartition`. How far a thread has been is `Passed`; that the
macrokernel comes past every microtile of its block exactly once is `AdvanceStep`. When the threads go on to the
next block, what they leave behind is solved (`BehindIsSolved`) and what is ahead is
updated (`AheadIsUpdated`). The theorems are `NoneGarbled` and `SolutionAtEnd`: when all threads are done every element
is the solution, which is the safety part of `SolutionComputed`. They are about `MCSpec`, in which
another operation may be run instead, and need `SolvesAssumption` and that the first loop has one way
(`IrOnce`): with more of them the code is wrong (section 5, `TrsmIrWays`). They hold for any number of
threads, sizes, blocksizes and ways of the other loops, in both directions; TLC has checked
`TrsmIInv` on the systems of the run `GemmLoops`.

*Registry.* That an id is new is easily seen for one stack, whose size only grows under its lock. But a
registration takes one stack after another, and is compared only afterwards. `IdInv` says that what a
registration has been given so far (`Passed`, `IdIn`) are elements of those stacks, and `FirstInv`
that no other registration of the kind, running or successful, has the same element of the *first*
stack: that decides whose the id is in the others. `LevelInv` gives the reason for failures: while
registrations of a kind have not overlapped, all of its stacks have the same elements, but for the
one that is being registered. `StackInv` says that the blocks of a stack are those for its capacity,
so that `Grow` never touches one that there is. The theorems are `NewIds`, `ReasonsForFailure` and
`LookupsAreSafe`, the last an action property. They assume `Sane`: positive constants, and stacks
that are not empty, and hold what they can, at the beginning; fairness they do not need. `MCLibInit` checks
`Registry` beside `LibInit`, with variables of its own: `LibInitProofs` shows that each of its steps is
a step of `Registry` or leaves the registries alone (`RegistrySteps`), so that the three theorems
hold of `MCSpec`, for the properties that the run checks.

Only model-checked: liveness everywhere (and with it the fairness part of the refinements), which
the prover does not reach. The safety properties that the passing runs check are all proved.

## 5. Where the code and its documentation disagree

1. `PoolOffset` (`frame/base/bli_pool.c:598`). A pool that is reinitialised frees the entries of
   the blocks that are out. These are NULL, but `bli_pool_free_block` subtracts the offset before
   NULL is tested for. With a nonzero offset (power9, power10) it then frees a pointer that it reads
   from there; the comment at `bli_pool.c:211-213` says that such blocks are not freed.
2. `ThrInfoEarlyFree` (`frame/3/bli_l3_thrinfo.c:186`). `bli_l3_sup_thrinfo_update` frees the
   sub-trees without a barrier before. A chief can free the communicator in whose last barrier a
   peer still spins, which the NOTE in `bli_l3_sup_decor.c:89-91` says a barrier prevents.
3. `GemmLoopsBackward` (`frame/base/bli_blksz.c:259`). Backward, with a maximum blocksize above the
   blocksize, a range that is smaller than the difference gets a block larger than itself, and
   the thread updates rows of its neighbours. With the blocksizes of knl, and a range of up to 24
   rows, the update in a trsm with an upper triangular A does this; the comments and
   `docs/ConfigurationHowTo.md:175` speak of merging the edge with another block of the range.
4. `TrsmIrWays` (`frame/3/trsm/bli_trsm_cntl.c:308`). In the tree of a left-sided trsm the threads
   that differ in their way of the first loop alone get the same work id for the solve: they solve
   the same micropanels, each reading what the other overwrites. Nothing reduces these ways to one.
   The comment at `bli_trsm_ll_ker_var2.c:207-208` calls parallelism in this loop unattainable, and
   `CHANGELOG:10795-10796` says that it is redirected to the second loop.
5. `RntmSingle` (`frame/base/bli_rntm.c:344`). `BLIS_RNTM_INITIALIZER` has the single-threaded
   implementation, and sanitization lets it override the number of threads, so that
   `bli_rntm_set_num_threads( 6, &rntm )` leaves one thread, where `docs/Multithreading.md:314-316`
   says that the object will use 6.

## 6. Assumptions, known limits, and what is not modelled

### Assumptions

* `LibInit` lets no `bli_init_once` overlap a `bli_finalize`: applications finalize the library when
  they are done with it. Init and finalize functions do not fail (they return 0 in all of BLIS).
* `Thrcomm`, `TreeBarrier` and `CondBarrier` assume that all threads of a team make the same calls.
  `ThrInfo` and `Packm` do not: there every thread decides for itself, and the absence of deadlock
  is the result.
* `ThrInfo` takes ways that multiply to the number of threads (`TreesAssumption`), which `Decorator`
  establishes (`TeamIsWays`).
* The memory of `thrinfo_t` nodes comes from pools of their own threads, and is not modelled.
* `GemmLoops` has one pass over k and one over n: the loops around them use the same operators and,
  for k, only one thread. The barriers of packing between its blocks are in `Packm`.
* `Decorator` lets the threads of an operation meet once, in the barrier that closes it.

### Known limits

What the code cannot promise, and the properties therefore do not ask for:

* *Thread-local data of an earlier cycle* (`frame/base/bli_init.c:105`). `bli_finalize` turns off the
  thread-local switches of its own thread only. Another thread that was initialized before keeps its
  induced-method and runtime data in the next cycle, though the comments in `bli_rntm.c:57-58` and
  `bli_ind.c:47-48` promise an initialization in each. `CallsTakeEffect` is about the shared parts.
* *The test of a switch* (`frame/thread/bli_pthread.c:741`) is not atomic. Where stores are not
  ordered a thread can come through before it sees what was initialized (`StoresSeen` of `LibInit`);
  `docs/FAQ.md:176` says that the library is thread-safe. `CallsTakeEffect` is about the other
  machines in this respect.
* *Spurious wakeups* (`frame/thread/bli_pthread.c:656`). `CondBarrier` has none, since the code
  waits without a predicate and is no barrier with them.
* *Tiles and the first loop* (`frame/3/gemm/bli_gemm_ker_var2.c:164`). With tile-level load balancing
  the ways of the first loop are not used, and threads that differ in them alone would update the same
  microtiles (`configure:397-405` says that each thread is assigned a region). The problems with
  tiles have one way there.
* *Global settings do not clear each other*: `bli_thread_set_ways` with ways of 1 after larger ones
  leaves the number of threads of the latter, and `bli_thread_set_num_threads` after ways that are
  larger than 1 has no effect. `TeamIsWays` holds all the same.
* *Overlapping registrations* of one kind may get different ids in different contexts; the call
  then fails, and what was pushed remains, so that later registrations of the kind may fail as well.
  `FailsForReason` allows just this.
* *Allocation failures* behind `bli_fmalloc_noalign` report success (`frame/base/bli_malloc.c:249`),
  so that the error paths of callers are never taken; `LookupsNeedNoLock` allows the NULL there.
* A tree barrier of arity 1 never ends its creation, and is excluded by `TreeAssumption`.

### Not modelled

* The right-sided trsm and the macrokernels of triangular operations, with their weighted partitioning,
  which computes in floating point. The loops are otherwise the ones that are modelled.
* Round-robin partitioning: `bli_thread_range_slrr` calls `bli_thread_range_rr` with
  seven arguments of eight when `BLIS_ENABLE_JRIR_RR` is defined, so that it does not compile.
* The HPX threads, which are C++ outside the C runtime, and `BLIS_ENABLE_NT1_VIA_SINGLE`, which
  is off. `BLIS_USE_PTHREAD_BARRIER` is modelled as far as `CondBarrier` is the barrier it uses.
* Buffers of `BLIS_BUFFER_FOR_GEN_USE` (plain `malloc` and `free`), the initial sizes of pools, and
  what contexts hold: tables that are checked when they are registered and, but for their stacks,
  read-only afterwards. Reference contexts are built by a caller on its own stack.
* Kernels, the object and typed API, operations of levels 0 to 2, BLAS layers, test drivers, build
  system. They are by far most of the lines of the repository (assembly and intrinsics kernels,
  translated BLAS test drivers, tables of constants), and sequential arithmetic or conversion of
  arguments: they share no state, wait for nothing and decide nothing about other threads. A model
  of them would repeat the arithmetic of the code. What is modelled is the runtime between them.

## 7. Plan

Done, from the component everything stands on upwards: `Barrier` and `Thrcomm` with
proofs, `Allocator` and `Pool` with proofs, `ThrInfo` with proofs, `Packm` with proofs, `LibInit` with proofs,
`ThreadRange` and `GemmLoops` with proofs; then `TreeBarrier` and `CondBarrier` with proofs, `Rntm` and
`Decorator` (with the small block allocator) with proofs, `Trsm` and `Registry` with proofs. Next:

1. `Trsm` from the right, and the weighted ranges as a function that is only known to be monotone.
