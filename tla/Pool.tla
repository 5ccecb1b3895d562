-------------------------------- MODULE Pool --------------------------------
(***************************************************************************)
(* A pool_t of the packing block allocator: src/frame/base/bli_pool.c, as  *)
(* bli_pba_acquire_m and bli_pba_release of bli_pba.c use it, under the    *)
(* pba's mutex.  Each mem_t is used by one thread at a time, so a mem_t    *)
(* stands for the thread that acquires or releases through it.             *)
(*                                                                         *)
(* A pblk_t is a record [buf, block_size].  malloc may hand out an address *)
(* it handed out before: Blocks is the set of addresses, heap[b] the size  *)
(* of the block at b, 0 if there is none.                                  *)
(***************************************************************************)
EXTENDS Integers, FiniteSets

CONSTANTS
    Mems,               \* the mem_t objects of all threads
    Blocks,             \* the addresses malloc returns (a bound: with fewer
                        \* than a run needs, checkouts would wait)
    NULL,
    Sizes,              \* the block sizes that are requested
    InitNum,            \* arguments of bli_pool_init
    InitLen,
    InitSize,
    OffsetSize          \* BLIS_POOL_ADDR_OFFSET_SIZE_*

ASSUME MemsAssumption == IsFiniteSet(Mems) /\ NULL \notin Mems
ASSUME BlocksAssumption == NULL \notin Blocks
ASSUME SizesAssumption == Sizes \subseteq Nat \ {0}
ASSUME InitAssumption ==
    /\ InitNum \in Nat /\ InitLen \in Nat
    /\ InitSize \in Nat \ {0}
    /\ OffsetSize \in Nat

VARIABLES
    \* the pool_t
    block_ptrs,         \* the entries of the array that are in use
    block_ptrs_len, num_blocks, top_index, block_size,
    \* the heap below it
    heap,
    \* the pba's mutex, and the threads
    lock,               \* the mem_t whose thread holds it, or NULL
    pc,                 \* where its thread is in acquire or release
    req_size,           \* the size last requested for it
    mem,                \* its pblk_t
    \* the pools exist (between bli_pba_init_pools and _finalize_pools)
    initialized,
    \* history: the code has called bli_abort, or has freed an address that
    \* is not that of a block
    aborted, bad_free

pool == <<block_ptrs, block_ptrs_len, num_blocks, top_index, block_size>>
threads == <<pc, req_size, mem>>
faults == <<aborted, bad_free>>
vars == <<pool, heap, lock, threads, initialized, faults>>

Cleared == [buf |-> NULL, block_size |-> 0]
Pblk(b, size) == [buf |-> b, block_size |-> size]
Pblks == [buf : Blocks \cup {NULL}, block_size : Nat]

Live == {b \in Blocks : heap[b] > 0}
Slots == 0 .. num_blocks - 1
Available == top_index .. num_blocks - 1
Holders == {m \in Mems : mem[m].buf # NULL}

Larger(a, b) == IF a < b THEN b ELSE a

-----------------------------------------------------------------------------

\* The ways malloc can place one new block for each index of I in a heap
\* whose blocks are at taken.
Placements(I, taken) ==
    {f \in [I -> Blocks \ taken] : \A i, j \in I : f[i] = f[j] => i = j}

\* Mutant of Freed: the last entry of the array is left out.
FreedButLast(I) == {block_ptrs[i].buf : i \in I \ {num_blocks - 1}} \ {NULL}

\* bli_pool_free_block on the given entries of block_ptrs.  The pointer is
\* moved back by the offset before bli_ffree_align ignores a NULL, so that a
\* cleared pblk_t is ignored only if the offset is 0.
Freed(I) == {block_ptrs[i].buf : i \in I} \ {NULL}

BadFree(I) ==
    \/ OffsetSize # 0 /\ \E i \in I : block_ptrs[i].buf = NULL
    \/ \E i \in I : block_ptrs[i].buf # NULL /\ block_ptrs[i].buf \notin Live
    \/ \E i, j \in I : i # j /\ block_ptrs[i].buf = block_ptrs[j].buf
                             /\ block_ptrs[i].buf # NULL

\* bli_pool_init: block_ptrs_len is at least num_blocks, and at least 1.
PoolInit(num, len, size, f) ==
    /\ block_ptrs' = [i \in 0 .. num - 1 |-> Pblk(f[i], size)]
    /\ block_ptrs_len' = Larger(Larger(len, num), 1)
    /\ num_blocks' = num
    /\ top_index' = 0
    /\ block_size' = size

-----------------------------------------------------------------------------

Init ==
    /\ \E f \in Placements(0 .. InitNum - 1, {}) :
        /\ block_ptrs = [i \in 0 .. InitNum - 1 |-> Pblk(f[i], InitSize)]
        /\ heap = [b \in Blocks |->
                     IF \E i \in 0 .. InitNum - 1 : f[i] = b THEN InitSize ELSE 0]
    /\ block_ptrs_len = Larger(Larger(InitLen, InitNum), 1)
    /\ num_blocks = InitNum
    /\ top_index = 0
    /\ block_size = InitSize
    /\ lock = NULL
    /\ pc = [m \in Mems |-> "idle"]
    /\ req_size = [m \in Mems |-> 0]
    /\ mem = [m \in Mems |-> Cleared]
    /\ initialized = TRUE
    /\ aborted = FALSE
    /\ bad_free = FALSE

Goto(m, point) == pc' = [pc EXCEPT ![m] = point]

\* bli_pba_acquire_m takes the mutex and calls bli_pool_checkout_block.
Acquire(m, size) ==
    /\ initialized
    /\ pc[m] = "idle"
    /\ mem[m].buf = NULL
    /\ lock = NULL
    /\ lock' = m
    /\ req_size' = [req_size EXCEPT ![m] = size]
    /\ Goto(m, "size")
    /\ UNCHANGED <<pool, heap, mem, initialized, faults>>

LargeEnough(m) ==
    /\ pc[m] = "size"
    /\ block_size >= req_size[m]
    /\ Goto(m, "room")
    /\ UNCHANGED <<pool, heap, lock, req_size, mem, initialized, faults>>

\* bli_pool_reinit: bli_pool_finalize frees every entry of the array (the
\* entries of blocks that are checked out are cleared), bli_pool_init makes
\* as many blocks of the requested size.
Reinit(m) ==
    /\ pc[m] = "size"
    /\ block_size < req_size[m]
    /\ bad_free' = (bad_free \/ BadFree(Slots))
    /\ \E f \in Placements(Slots, Live \ Freed(Slots)) :
        /\ PoolInit(num_blocks, block_ptrs_len, req_size[m], f)
        /\ heap' = [b \in Blocks |->
                      IF \E i \in Slots : f[i] = b THEN req_size[m]
                      ELSE IF b \in Freed(Slots) THEN 0 ELSE heap[b]]
    /\ Goto(m, "room")
    /\ UNCHANGED <<lock, req_size, mem, initialized, aborted>>

HasRoom(m) ==
    /\ pc[m] = "room"
    /\ top_index # num_blocks
    /\ Goto(m, "take")
    /\ UNCHANGED <<pool, heap, lock, req_size, mem, initialized, faults>>

\* Mutant of Grow: the array is not reallocated.
GrowInPlace(m) ==
    /\ pc[m] = "room"
    /\ top_index = num_blocks
    /\ \E b \in Blocks \ Live :
        /\ block_ptrs' = [i \in 0 .. num_blocks |->
                            IF i = num_blocks THEN Pblk(b, block_size) ELSE block_ptrs[i]]
        /\ heap' = [heap EXCEPT ![b] = block_size]
    /\ num_blocks' = num_blocks + 1
    /\ Goto(m, "take")
    /\ UNCHANGED <<block_ptrs_len, top_index, block_size, lock, req_size, mem,
                   initialized, faults>>

\* bli_pool_is_exhausted: bli_pool_grow( 1, pool ), which doubles the array
\* if it is full.
Grow(m) ==
    /\ pc[m] = "room"
    /\ top_index = num_blocks
    /\ \E b \in Blocks \ Live :
        /\ block_ptrs' = [i \in 0 .. num_blocks |->
                            IF i = num_blocks THEN Pblk(b, block_size) ELSE block_ptrs[i]]
        /\ heap' = [heap EXCEPT ![b] = block_size]
    /\ num_blocks' = num_blocks + 1
    /\ block_ptrs_len' = IF block_ptrs_len < num_blocks + 1
                           THEN Larger(2 * block_ptrs_len, num_blocks + 1)
                           ELSE block_ptrs_len
    /\ Goto(m, "take")
    /\ UNCHANGED <<top_index, block_size, lock, req_size, mem, initialized, faults>>

\* Mutant of Take: the entry is not cleared.
TakeUncleared(m) ==
    /\ pc[m] = "take"
    /\ mem' = [mem EXCEPT ![m] = block_ptrs[top_index]]
    /\ top_index' = top_index + 1
    /\ lock' = NULL
    /\ Goto(m, "idle")
    /\ UNCHANGED <<block_ptrs, block_ptrs_len, num_blocks, block_size, heap,
                   req_size, initialized, faults>>

\* The caller gets the entry at top_index, which is cleared; unlock.
Take(m) ==
    /\ pc[m] = "take"
    /\ mem' = [mem EXCEPT ![m] = block_ptrs[top_index]]
    /\ block_ptrs' = [block_ptrs EXCEPT ![top_index] = Cleared]
    /\ top_index' = top_index + 1
    /\ lock' = NULL
    /\ Goto(m, "idle")
    /\ UNCHANGED <<block_ptrs_len, num_blocks, block_size, heap, req_size,
                   initialized, faults>>

\* bli_pba_release takes the mutex and calls bli_pool_checkin_block.
Release(m) ==
    /\ pc[m] = "idle"
    /\ mem[m].buf # NULL
    /\ lock = NULL
    /\ lock' = m
    /\ Goto(m, "checkin")
    /\ UNCHANGED <<pool, heap, req_size, mem, initialized, faults>>

\* Unlock and bli_mem_clear.
Released(m) ==
    /\ mem' = [mem EXCEPT ![m] = Cleared]
    /\ lock' = NULL
    /\ Goto(m, "idle")

\* A block whose size is no longer the pool's is freed.
CheckinOrphan(m) ==
    /\ pc[m] = "checkin"
    /\ mem[m].block_size # block_size
    /\ bad_free' = (bad_free \/ mem[m].buf \notin Live)
    /\ heap' = [heap EXCEPT ![mem[m].buf] = 0]
    /\ Released(m)
    /\ UNCHANGED <<pool, req_size, initialized, aborted>>

\* Mutant of Checkin: blocks of any size are taken back.
CheckinAny(m) ==
    /\ pc[m] = "checkin"
    /\ IF top_index = 0
         THEN /\ aborted' = TRUE
              /\ UNCHANGED <<block_ptrs, top_index>>
         ELSE /\ block_ptrs' = [block_ptrs EXCEPT ![top_index - 1] = mem[m]]
              /\ top_index' = top_index - 1
              /\ UNCHANGED aborted
    /\ Released(m)
    /\ UNCHANGED <<block_ptrs_len, num_blocks, block_size, heap, req_size,
                   initialized, bad_free>>

\* A block of the pool's size goes back below top_index.
Checkin(m) ==
    /\ pc[m] = "checkin"
    /\ mem[m].block_size = block_size
    /\ IF top_index = 0
         THEN /\ aborted' = TRUE
              /\ UNCHANGED <<block_ptrs, top_index>>
         ELSE /\ block_ptrs' = [block_ptrs EXCEPT ![top_index - 1] = mem[m]]
              /\ top_index' = top_index - 1
              /\ UNCHANGED aborted
    /\ Released(m)
    /\ UNCHANGED <<block_ptrs_len, num_blocks, block_size, heap, req_size,
                   initialized, bad_free>>

\* bli_pool_shrink, by any thread with the mutex: at most the blocks that
\* are available go.
Shrink(num_blocks_sub) ==
    /\ initialized
    /\ lock = NULL
    /\ LET avail == num_blocks - top_index
           sub == IF num_blocks_sub < avail THEN num_blocks_sub ELSE avail
           new == num_blocks - sub
           gone == new .. num_blocks - 1
       IN  /\ bad_free' = (bad_free \/ BadFree(gone))
           /\ heap' = [b \in Blocks |-> IF b \in Freed(gone) THEN 0 ELSE heap[b]]
           /\ num_blocks' = new
           /\ block_ptrs' = [i \in 0 .. new - 1 |-> block_ptrs[i]]
    /\ UNCHANGED <<block_ptrs_len, top_index, block_size, lock, threads,
                   initialized, aborted>>

\* bli_pool_finalize( pool, FALSE ) from bli_pba_finalize_pools.  As its
\* NOTE assumes, all blocks have been checked in by all threads.
Finalize ==
    /\ initialized
    /\ lock = NULL
    /\ \A m \in Mems : mem[m].buf = NULL
    /\ aborted' = (aborted \/ top_index # 0)
    /\ bad_free' = (bad_free \/ BadFree(Slots))
    /\ heap' = [b \in Blocks |-> IF b \in Freed(Slots) THEN 0 ELSE heap[b]]
    /\ initialized' = FALSE
    /\ UNCHANGED <<pool, lock, threads>>

\* bli_pba_init_pools, of a later bli_init.
InitPools ==
    /\ ~initialized
    /\ \E f \in Placements(0 .. InitNum - 1, Live) :
        /\ PoolInit(InitNum, InitLen, InitSize, f)
        /\ heap' = [b \in Blocks |->
                      IF \E i \in 0 .. InitNum - 1 : f[i] = b THEN InitSize ELSE heap[b]]
    /\ initialized' = TRUE
    /\ UNCHANGED <<lock, threads, faults>>

-----------------------------------------------------------------------------

Step(m) ==
    \/ \E size \in Sizes : Acquire(m, size)
    \/ LargeEnough(m) \/ Reinit(m) \/ HasRoom(m) \/ Grow(m) \/ Take(m)
    \/ Release(m) \/ CheckinOrphan(m) \/ Checkin(m)

Next ==
    \/ \E m \in Mems : Step(m)
    \/ \E num_blocks_sub \in {1, 2} : Shrink(num_blocks_sub)
    \/ Finalize \/ InitPools

Spec == Init /\ [][Next]_vars

-----------------------------------------------------------------------------

Points == {"idle", "size", "room", "take", "checkin"}

TypeOK ==
    /\ num_blocks \in Nat
    /\ block_ptrs \in [Slots -> Pblks]
    /\ block_ptrs_len \in Nat
    /\ top_index \in 0 .. num_blocks
    /\ block_size \in Nat \ {0}
    /\ heap \in [Blocks -> Nat]
    /\ lock \in Mems \cup {NULL}
    /\ pc \in [Mems -> Points]
    /\ req_size \in [Mems -> Nat]
    /\ mem \in [Mems -> Pblks]
    /\ initialized \in BOOLEAN
    /\ aborted \in BOOLEAN
    /\ bad_free \in BOOLEAN

\* The sanity checks of bli_pool_checkin_block and bli_pool_finalize do not
\* fire: no order of checkouts, reinitialisations to a larger size, checkins
\* of orphans and shrinks makes top_index drift from the blocks that are out.
NoAbort == ~aborted

\* Every free is of a block that is allocated, once: a block is never freed
\* both by a reinitialisation and by its checkin.
NoBadFree == ~bad_free

\* No block is lost or in two places: as long as the pools exist, the
\* allocated blocks are those available in the pool and those held by a
\* mem_t; after bli_pba_finalize_pools there are none.
Pooled == {block_ptrs[i].buf : i \in Available}
HeldBlocks == {mem[m].buf : m \in Holders}

Accounting ==
    IF initialized
      THEN /\ Live = Pooled \cup HeldBlocks
           /\ Pooled \cap HeldBlocks = {}
      ELSE Live = {}

\* The block of an acquired mem_t is as large as was requested, and as its
\* pblk_t says (bli_pba_acquire_m: "at least req_size, perhaps larger").
BigEnough ==
    \A m \in Holders : heap[mem[m].buf] = mem[m].block_size
                    /\ mem[m].block_size >= req_size[m]

\* A pool grows to the largest number of blocks in use at a time, never by
\* orphaned blocks that come back, and block_ptrs has room for all of them.
BoundedGrowth ==
    /\ num_blocks <= Larger(InitNum, Cardinality(Mems))
    /\ num_blocks <= block_ptrs_len

-----------------------------------------------------------------------------
(***************************************************************************)
(* The inductive invariant behind these properties.  What the pool holds   *)
(* is described while it exists; top_index counts the holders of a block   *)
(* of the present size, the other holders have orphans.                    *)
(***************************************************************************)
CurrentHolders == {m \in Holders : mem[m].block_size = block_size}

PointInv(m) ==
    /\ pc[m] # "idle" <=> lock = m
    /\ pc[m] # "idle" => initialized
    /\ pc[m] \in {"size", "room", "take"} => mem[m].buf = NULL
    /\ pc[m] = "checkin" => mem[m].buf # NULL
    /\ pc[m] \in {"room", "take"} => block_size >= req_size[m]
    /\ pc[m] = "take" => top_index < num_blocks

SlotsInv ==
    /\ \A i \in 0 .. top_index - 1 : block_ptrs[i].buf = NULL
    /\ \A i \in Available :
        /\ block_ptrs[i].buf \in Blocks
        /\ block_ptrs[i].block_size = block_size
        /\ heap[block_ptrs[i].buf] = block_size
    /\ \A i, j \in Available : block_ptrs[i].buf = block_ptrs[j].buf => i = j

HeldInv(m) ==
    mem[m].buf # NULL =>
        /\ initialized
        /\ heap[mem[m].buf] = mem[m].block_size
        /\ mem[m].block_size \in 1 .. block_size
        /\ mem[m].block_size >= req_size[m]
        /\ mem[m].buf \notin Pooled
        /\ \A n \in Mems : mem[n].buf = mem[m].buf => n = m

IInv ==
    /\ TypeOK
    /\ initialized => SlotsInv
    /\ \A m \in Mems : PointInv(m) /\ HeldInv(m)
    /\ top_index = Cardinality(CurrentHolders)
    /\ Accounting
    /\ BoundedGrowth
    /\ NoAbort
    /\ OffsetSize = 0 => NoBadFree

-----------------------------------------------------------------------------

\* The pool implements the allocator its users rely on.
AbstractAllocator == INSTANCE Allocator WITH
    held <- [m \in Mems |-> mem[m].buf], live <- Live
ImplementsAllocator == AbstractAllocator!Spec
=============================================================================
