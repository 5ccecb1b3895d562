----------------------------- MODULE PoolProofs -----------------------------
(***************************************************************************)
(* Theorems about Pool, for every set of mem_t objects, of addresses and   *)
(* of block sizes, and every initial configuration of the pool.            *)
(***************************************************************************)
EXTENDS Pool, FiniteSetTheorems, TLAPS

\* The larger of two natural numbers.
LEMMA LargerFacts ==
    ASSUME NEW a \in Nat, NEW b \in Nat
    PROVE  Larger(a, b) \in Nat /\ a <= Larger(a, b) /\ b <= Larger(a, b)
  BY DEF Larger

\* A set of mem_t objects is finite, and no larger than Mems.
LEMMA MemsFinite ==
    ASSUME NEW S \in SUBSET Mems
    PROVE  /\ IsFiniteSet(S)
           /\ Cardinality(S) \in Nat /\ Cardinality(Mems) \in Nat
           /\ Cardinality(S) <= Cardinality(Mems)
           /\ \A m \in Mems \ S : Cardinality(S) < Cardinality(Mems)
<1>1. /\ IsFiniteSet(S) /\ Cardinality(S) <= Cardinality(Mems)
      /\ Cardinality(S) = Cardinality(Mems) => S = Mems
  BY MemsAssumption, FS_Subset
<1>2. Cardinality(S) \in Nat /\ Cardinality(Mems) \in Nat
  BY <1>1, MemsAssumption, FS_CardinalityType
<1> QED
  BY <1>1, <1>2

\* The fields of the mem_t and of the pool, typed one by one.
LEMMA Types ==
    ASSUME TypeOK
    PROVE  /\ num_blocks \in Nat /\ top_index \in Nat /\ top_index <= num_blocks
           /\ block_size \in Nat /\ block_size > 0
           /\ \A m \in Mems : /\ mem[m] \in Pblks
                              /\ mem[m].buf \in Blocks \cup {NULL}
                              /\ mem[m].block_size \in Nat
                              /\ req_size[m] \in Nat
                              /\ pc[m] \in Points
           /\ \A i \in Slots : block_ptrs[i] \in Pblks
           /\ \A b \in Blocks : heap[b] \in Nat
           /\ Live \subseteq Blocks
  BY DEF TypeOK, Pblks, Live

-----------------------------------------------------------------------------

\* The first bli_pba_init_pools establishes the invariant.
LEMMA InitIInv == Init => IInv
<1> SUFFICES ASSUME Init PROVE IInv
  OBVIOUS
<1>0. PICK f \in Placements(0 .. InitNum - 1, {}) :
        /\ block_ptrs = [i \in 0 .. InitNum - 1 |-> Pblk(f[i], InitSize)]
        /\ heap = [b \in Blocks |->
                     IF \E i \in 0 .. InitNum - 1 : f[i] = b THEN InitSize ELSE 0]
  BY DEF Init
<1> USE InitAssumption, BlocksAssumption, MemsAssumption
<1>1. /\ f \in [0 .. InitNum - 1 -> Blocks]
      /\ \A i, j \in 0 .. InitNum - 1 : f[i] = f[j] => i = j
  BY <1>0 DEF Placements
<1>2. /\ num_blocks = InitNum /\ top_index = 0 /\ block_size = InitSize
      /\ Slots = 0 .. InitNum - 1 /\ Available = 0 .. InitNum - 1
      /\ \A m \in Mems : mem[m].buf = NULL /\ mem[m].block_size = 0
      /\ Holders = {} /\ HeldBlocks = {} /\ CurrentHolders = {}
  BY DEF Init, Slots, Available, Holders, HeldBlocks, CurrentHolders, Cleared
<1>3. \A i \in Slots : /\ block_ptrs[i].buf = f[i]
                       /\ block_ptrs[i].block_size = InitSize
                       /\ heap[f[i]] = InitSize
  BY <1>0, <1>1, <1>2 DEF Pblk
<1>4. TypeOK
  <2>1. block_ptrs \in [Slots -> Pblks]
    BY <1>0, <1>1, <1>2 DEF Pblks, Pblk
  <2>2. block_ptrs_len \in Nat
    BY LargerFacts DEF Init
  <2>3. mem \in [Mems -> Pblks]
    BY DEF Init, Cleared, Pblks
  <2>4. heap \in [Blocks -> Nat]
    BY <1>0
  <2>5. /\ num_blocks \in Nat /\ top_index \in 0 .. num_blocks
        /\ block_size \in Nat \ {0}
    BY <1>2
  <2>6. /\ lock \in Mems \cup {NULL} /\ pc \in [Mems -> Points]
        /\ req_size \in [Mems -> Nat] /\ initialized \in BOOLEAN
        /\ aborted \in BOOLEAN /\ bad_free \in BOOLEAN
    BY DEF Init, Points
  <2> QED
    BY <2>1, <2>2, <2>3, <2>4, <2>5, <2>6 DEF TypeOK
<1>5. SlotsInv
  <2>1. \A i \in 0 .. top_index - 1 : FALSE
    BY <1>2
  <2>2. \A i \in Available : /\ f[i] \in Blocks /\ block_ptrs[i].buf = f[i]
                             /\ block_ptrs[i].block_size = block_size
                             /\ heap[f[i]] = block_size
    BY <1>1, <1>2, <1>3
  <2>3. \A i, j \in Available : f[i] = f[j] => i = j
    BY <1>1, <1>2
  <2> QED
    BY <2>1, <2>2, <2>3 DEF SlotsInv
<1>6. \A m \in Mems : PointInv(m) /\ HeldInv(m)
  BY <1>2 DEF PointInv, HeldInv, Init
<1>7. top_index = Cardinality(CurrentHolders)
  BY <1>2, FS_EmptySet
<1>8. Accounting
  <2>1. Live = {f[i] : i \in 0 .. InitNum - 1}
    BY <1>0, <1>1 DEF Live
  <2>2. Pooled = {f[i] : i \in 0 .. InitNum - 1}
    <3>1. \A i \in Available : block_ptrs[i].buf = f[i]
      BY <1>2, <1>3
    <3> QED
      BY <1>2, <3>1 DEF Pooled
  <2> QED
    BY <1>2, <2>1, <2>2 DEF Accounting, Init
<1>9. BoundedGrowth
  <2>1. Cardinality(Mems) \in Nat
    BY MemsFinite
  <2>2. Larger(InitLen, InitNum) \in Nat /\ InitNum <= Larger(InitLen, InitNum)
    BY LargerFacts
  <2>3. InitNum <= Larger(InitNum, Cardinality(Mems))
    BY <2>1, LargerFacts
  <2>4. /\ Larger(Larger(InitLen, InitNum), 1) \in Nat
        /\ Larger(InitLen, InitNum) <= Larger(Larger(InitLen, InitNum), 1)
    BY <2>2, LargerFacts
  <2>5. block_ptrs_len = Larger(Larger(InitLen, InitNum), 1)
    BY DEF Init
  <2> QED
    BY <1>2, <2>2, <2>3, <2>4, <2>5 DEF BoundedGrowth
<1> QED
  BY <1>4, <1>5, <1>6, <1>7, <1>8, <1>9 DEF IInv, NoAbort, NoBadFree, Init

\* The steps that only take the mutex or decide where to go.
LEMMA ControlStep ==
    ASSUME IInv, NEW m \in Mems,
           \/ \E size \in Sizes : Acquire(m, size)
           \/ LargeEnough(m) \/ HasRoom(m) \/ Release(m)
    PROVE  IInv'
<1> USE DEF IInv
<1>1. UNCHANGED <<pool, heap, mem, initialized, faults>>
  BY DEF Acquire, LargeEnough, HasRoom, Release
<1>2. /\ Holders' = Holders /\ CurrentHolders' = CurrentHolders /\ Live' = Live
      /\ Pooled' = Pooled /\ HeldBlocks' = HeldBlocks /\ Slots' = Slots
      /\ Available' = Available
  BY <1>1 DEF pool, Holders, CurrentHolders, Live, Pooled, HeldBlocks, Slots, Available
<1>3. /\ Accounting' /\ BoundedGrowth' /\ NoAbort' /\ (OffsetSize = 0 => NoBadFree)'
      /\ (initialized => SlotsInv)' /\ (top_index = Cardinality(CurrentHolders))'
  BY <1>1, <1>2 DEF pool, faults, Accounting, BoundedGrowth, NoAbort, NoBadFree, SlotsInv
<1>4. TypeOK'
  <2>1. /\ req_size' \in [Mems -> Nat] /\ pc' \in [Mems -> Points]
        /\ lock' \in Mems \cup {NULL}
    BY SizesAssumption
    DEF TypeOK, Points, Acquire, LargeEnough, HasRoom, Release, Goto
  <2> QED
    BY <1>1, <1>2, <2>1 DEF TypeOK, pool, faults
<1>5. ASSUME NEW n \in Mems PROVE PointInv(n)' /\ HeldInv(n)'
  <2>1. PointInv(n) /\ PointInv(m) /\ HeldInv(n) /\ m # NULL
    BY MemsAssumption
  <2>2. PointInv(n)'
    <3>1. CASE \E size \in Sizes : Acquire(m, size)
      <4>1. /\ lock = NULL /\ lock' = m /\ initialized /\ mem[m].buf = NULL
            /\ pc' = [pc EXCEPT ![m] = "size"]
        BY <3>1 DEF Acquire, Goto
      <4>2. n # m => pc[n] = "idle"
        BY <2>1, <4>1, MemsAssumption DEF PointInv
      <4>3. pc'[n] = IF n = m THEN "size" ELSE "idle"
        BY <4>1, <4>2 DEF TypeOK
      <4> QED
        BY <1>1, <4>1, <4>3 DEF PointInv
    <3>2. CASE Release(m)
      <4>1. /\ lock = NULL /\ lock' = m /\ mem[m].buf # NULL
            /\ pc' = [pc EXCEPT ![m] = "checkin"]
        BY <3>2 DEF Release, Goto
      <4>2. n # m => pc[n] = "idle"
        BY <2>1, <4>1, MemsAssumption DEF PointInv
      <4>3. pc'[n] = IF n = m THEN "checkin" ELSE "idle"
        BY <4>1, <4>2 DEF TypeOK
      <4> QED
        BY <1>1, <2>1, <4>1, <4>3 DEF PointInv, HeldInv
    <3>3. CASE LargeEnough(m)
      <4>1. /\ lock' = lock /\ req_size' = req_size /\ block_size >= req_size[m]
            /\ pc[m] = "size" /\ pc'[n] = IF n = m THEN "room" ELSE pc[n]
        BY <3>3 DEF LargeEnough, Goto, TypeOK
      <4> QED
        BY <1>1, <2>1, <4>1 DEF PointInv, pool
    <3>4. CASE HasRoom(m)
      <4>1. /\ lock' = lock /\ req_size' = req_size /\ top_index < num_blocks
            /\ pc[m] = "room" /\ pc'[n] = IF n = m THEN "take" ELSE pc[n]
        BY <3>4, Types DEF HasRoom, Goto, TypeOK
      <4> QED
        BY <1>1, <2>1, <4>1 DEF PointInv, pool
    <3> QED
      BY <3>1, <3>2, <3>3, <3>4
  <2>3. mem[n].buf # NULL => req_size'[n] = req_size[n]
    BY DEF Acquire, LargeEnough, HasRoom, Release, TypeOK
  <2>4. HeldInv(n)'
    BY <1>1, <1>2, <2>1, <2>3 DEF HeldInv, pool
  <2> QED
    BY <2>2, <2>4
<1> QED
  BY <1>3, <1>4, <1>5

\* Inside the critical section: the other threads are outside it.
LEMMA Inside ==
    ASSUME IInv, NEW m \in Mems, pc[m] # "idle"
    PROVE  /\ lock = m /\ initialized /\ SlotsInv
           /\ \A n \in Mems \ {m} : pc[n] = "idle"
  BY DEF IInv, PointInv

\* After a step that leaves the mutex free nobody is in a critical section.
LEMMA Unlocked ==
    ASSUME IInv, NEW m \in Mems, pc[m] # "idle",
           lock' = NULL, pc' = [pc EXCEPT ![m] = "idle"]
    PROVE  /\ \A n \in Mems : PointInv(n)'
           /\ pc' \in [Mems -> Points] /\ lock' \in Mems \cup {NULL}
<1>1. \A n \in Mems : pc'[n] = "idle" /\ n # NULL
  BY Inside, MemsAssumption DEF IInv, TypeOK
<1> QED
  BY <1>1 DEF PointInv, IInv, TypeOK, Points

\* The blocks in the pool and those held are allocated, and none is both.
LEMMA Places ==
    ASSUME IInv
    PROVE  /\ Pooled \cap HeldBlocks = {}
           /\ initialized => Live = Pooled \cup HeldBlocks
           /\ ~initialized => Live = {} /\ HeldBlocks = {}
           /\ NULL \notin HeldBlocks
           /\ \A n \in Mems : mem[n].buf # NULL => mem[n].buf \in HeldBlocks
           /\ \A n \in Mems : mem[n].buf \in HeldBlocks => mem[n].buf # NULL
<1>1. NULL \notin HeldBlocks
  BY DEF HeldBlocks, Holders
<1>2. \A n \in Mems : mem[n].buf # NULL => mem[n].buf \in HeldBlocks
  BY DEF HeldBlocks, Holders
<1>3. Pooled \cap HeldBlocks = {}
  BY DEF IInv, HeldInv, HeldBlocks, Holders
<1>4. ~initialized => HeldBlocks = {}
  BY DEF IInv, HeldInv, HeldBlocks, Holders
<1> QED
  BY <1>1, <1>2, <1>3, <1>4 DEF IInv, Accounting

\* A thread takes the block at top_index.
LEMMA TakeStep ==
    ASSUME IInv, NEW m \in Mems, Take(m)
    PROVE  IInv'
<1> DEFINE t == top_index
<1> DEFINE b == block_ptrs[t].buf
<1>1. /\ pc[m] = "take" /\ lock' = NULL /\ pc' = [pc EXCEPT ![m] = "idle"]
      /\ mem' = [mem EXCEPT ![m] = block_ptrs[t]]
      /\ block_ptrs' = [block_ptrs EXCEPT ![t] = Cleared]
      /\ top_index' = t + 1
      /\ UNCHANGED <<block_ptrs_len, num_blocks, block_size, heap, req_size, initialized,
                     aborted, bad_free>>
  BY DEF Take, Goto, faults
<1>2. /\ TypeOK /\ initialized /\ SlotsInv
      /\ mem[m].buf = NULL /\ block_size >= req_size[m] /\ t < num_blocks
      /\ \A n \in Mems : HeldInv(n)
  BY <1>1, Inside DEF IInv, PointInv
<1>3. /\ t \in Nat /\ num_blocks \in Nat /\ block_size \in Nat /\ block_size > 0
      /\ t \in Slots /\ t \in Available
      /\ Slots' = Slots /\ Live' = Live /\ Live \subseteq Blocks
  BY <1>1, <1>2, Types DEF Slots, Available, Live
<1>4. b \in Blocks /\ block_ptrs[t].block_size = block_size /\ heap[b] = block_size /\ b # NULL
  BY <1>2, <1>3, BlocksAssumption DEF SlotsInv
<1>5. /\ \A i \in Slots : block_ptrs'[i] = IF i = t THEN Cleared ELSE block_ptrs[i]
      /\ \A n \in Mems : mem'[n] = IF n = m THEN block_ptrs[t] ELSE mem[n]
  BY <1>1, <1>2, <1>3 DEF TypeOK
<1>6. /\ Available' = Available \ {t} /\ Available \subseteq Slots
      /\ 0 .. top_index' - 1 = (0 .. t - 1) \cup {t}
      /\ 0 .. t - 1 \subseteq Slots /\ t \notin 0 .. t - 1
  BY <1>1, <1>3 DEF Available, Slots
<1>7. SlotsInv'
  BY <1>1, <1>2, <1>3, <1>5, <1>6 DEF SlotsInv, Cleared
<1>8. Pooled' = Pooled \ {b} /\ b \in Pooled
  <2>1. \A i \in Available' : /\ block_ptrs'[i].buf = block_ptrs[i].buf
                              /\ block_ptrs[i].buf # b
    BY <1>2, <1>3, <1>5, <1>6 DEF SlotsInv
  <2> QED
    BY <1>3, <1>6, <2>1 DEF Pooled
<1>9. Holders' = Holders \cup {m} /\ m \notin Holders /\ Holders \subseteq Mems
  BY <1>2, <1>4, <1>5 DEF Holders
<1>10. HeldBlocks' = HeldBlocks \cup {b}
  BY <1>5, <1>9 DEF HeldBlocks
<1>11. CurrentHolders' = CurrentHolders \cup {m} /\ m \notin CurrentHolders
  BY <1>1, <1>4, <1>5, <1>9 DEF CurrentHolders, Holders
<1>12. (top_index = Cardinality(CurrentHolders))'
  <2>1. IsFiniteSet(CurrentHolders)
    BY MemsFinite DEF CurrentHolders, Holders
  <2> QED
    BY <1>1, <1>11, <2>1, FS_AddElement DEF IInv
<1>13. \A n \in Mems : HeldInv(n)'
  <2>1. \A n \in Mems : mem[n].buf # b
    BY <1>2, <1>4, <1>8 DEF HeldInv
  <2>2. HeldInv(m)'
    <3>1. mem'[m].buf = b /\ mem'[m].block_size = block_size
      BY <1>4, <1>5
    <3>2. \A n \in Mems : mem'[n].buf = b => n = m
      BY <1>5, <2>1
    <3> QED
      BY <1>1, <1>2, <1>3, <1>4, <1>8, <3>1, <3>2 DEF HeldInv
  <2>3. ASSUME NEW n \in Mems \ {m} PROVE HeldInv(n)'
    <3>1. mem'[n] = mem[n] /\ HeldInv(n) /\ mem[n].buf # b
      BY <1>2, <1>5, <2>1
    <3>2. \A q \in Mems : mem'[q].buf = mem[n].buf => mem[q].buf = mem[n].buf
      BY <1>5, <2>1
    <3> QED
      BY <1>1, <1>8, <3>1, <3>2 DEF HeldInv
  <2> QED
    BY <2>2, <2>3
<1>14. Accounting'
  BY <1>1, <1>2, <1>3, <1>8, <1>10, Places DEF Accounting
<1>15. TypeOK'
  <2>1. block_ptrs[t] \in Pblks /\ Cleared \in Pblks
    BY <1>2, <1>3, Types DEF Cleared, Pblks
  <2>2. block_ptrs' \in [Slots -> Pblks] /\ mem' \in [Mems -> Pblks]
    BY <1>1, <1>2, <2>1 DEF TypeOK
  <2>3. top_index' \in 0 .. num_blocks
    BY <1>1, <1>2, <1>3
  <2>4. pc' \in [Mems -> Points] /\ lock' \in Mems \cup {NULL}
    BY <1>1, Unlocked
  <2> QED
    BY <1>1, <1>2, <1>3, <2>2, <2>3, <2>4 DEF TypeOK
<1>16. /\ \A n \in Mems : PointInv(n)'
       /\ BoundedGrowth' /\ NoAbort' /\ (OffsetSize = 0 => NoBadFree)'
  BY <1>1, Unlocked DEF IInv, BoundedGrowth, NoAbort, NoBadFree
<1> HIDE DEF t, b
<1> QED
  BY <1>7, <1>12, <1>13, <1>14, <1>15, <1>16 DEF IInv

\* A mem_t gives its block up, whichever way: the others keep theirs.
LEMMA GiveUp ==
    ASSUME IInv, NEW m \in Mems, mem[m].buf # NULL,
           mem' = [mem EXCEPT ![m] = Cleared]
    PROVE  /\ mem' \in [Mems -> Pblks]
           /\ \A n \in Mems \ {m} : mem'[n] = mem[n] /\ mem[n].buf # mem[m].buf
           /\ mem'[m].buf = NULL
           /\ Holders' = Holders \ {m}
           /\ HeldBlocks' = HeldBlocks \ {mem[m].buf}
           /\ mem[m].buf \in Blocks \cap HeldBlocks
           /\ mem[m].block_size \in 1 .. block_size
           /\ heap[mem[m].buf] = mem[m].block_size
<1>1. /\ mem' \in [Mems -> Pblks]
      /\ \A n \in Mems : mem'[n] = IF n = m THEN Cleared ELSE mem[n]
  BY DEF IInv, TypeOK, Cleared, Pblks
<1>2. mem'[m].buf = NULL
  BY <1>1 DEF Cleared
<1>3. \A n \in Mems \ {m} : mem'[n] = mem[n] /\ mem[n].buf # mem[m].buf
  BY <1>1 DEF IInv, HeldInv
<1>4. Holders' = Holders \ {m} /\ m \in Holders /\ Holders \subseteq Mems
  BY <1>2, <1>3 DEF Holders
<1>5. HeldBlocks' = HeldBlocks \ {mem[m].buf}
  BY <1>3, <1>4 DEF HeldBlocks
<1>6. mem[m].buf \in Blocks
  BY Types DEF IInv
<1> QED
  BY <1>1, <1>2, <1>3, <1>4, <1>5, <1>6, Places DEF IInv, HeldInv

\* An orphan is freed at its checkin.
LEMMA OrphanStep ==
    ASSUME IInv, NEW m \in Mems, CheckinOrphan(m)
    PROVE  IInv'
<1> DEFINE b == mem[m].buf
<1>1. /\ pc[m] = "checkin" /\ lock' = NULL /\ pc' = [pc EXCEPT ![m] = "idle"]
      /\ mem' = [mem EXCEPT ![m] = Cleared]
      /\ mem[m].block_size # block_size
      /\ bad_free' = (bad_free \/ b \notin Live)
      /\ heap' = [heap EXCEPT ![b] = 0]
      /\ UNCHANGED <<block_ptrs, block_ptrs_len, num_blocks, top_index, block_size,
                     req_size, initialized, aborted>>
  BY DEF CheckinOrphan, Released, Goto, pool
<1>2. /\ TypeOK /\ initialized /\ SlotsInv /\ b # NULL
      /\ \A n \in Mems : HeldInv(n)
  BY <1>1, Inside DEF IInv, PointInv
<1>3. /\ mem' \in [Mems -> Pblks]
      /\ \A n \in Mems \ {m} : mem'[n] = mem[n] /\ mem[n].buf # b
      /\ mem'[m].buf = NULL
      /\ Holders' = Holders \ {m}
      /\ HeldBlocks' = HeldBlocks \ {b}
      /\ b \in Blocks \cap HeldBlocks
      /\ mem[m].block_size \in 1 .. block_size
      /\ heap[b] = mem[m].block_size
  BY <1>1, <1>2, GiveUp
<1>4. /\ Available' = Available /\ Slots' = Slots /\ Pooled' = Pooled /\ b \notin Pooled
      /\ \A x \in Blocks : heap'[x] = IF x = b THEN 0 ELSE heap[x]
  BY <1>1, <1>2 DEF Available, Slots, Pooled, TypeOK, HeldInv
<1>5. Live' = Live \ {b} /\ b \in Live
  BY <1>3, <1>4 DEF Live
<1>6. CurrentHolders' = CurrentHolders
  BY <1>1, <1>3 DEF CurrentHolders, Holders
<1>7. SlotsInv'
  <2>1. \A i \in Available : block_ptrs[i].buf \in Pooled
    BY DEF Pooled
  <2> QED
    BY <1>1, <1>2, <1>4, <2>1 DEF SlotsInv
<1>8. \A n \in Mems : HeldInv(n)'
  <2>1. HeldInv(m)'
    BY <1>3 DEF HeldInv
  <2>2. ASSUME NEW n \in Mems \ {m} PROVE HeldInv(n)'
    <3>1. /\ mem'[n] = mem[n] /\ HeldInv(n) /\ mem[n].buf # b
          /\ mem[n].buf # NULL => mem[n].buf \in Blocks
      BY <1>2, <1>3, Types
    <3>2. \A q \in Mems : mem'[q].buf = mem[n].buf /\ mem[n].buf # NULL
                            => mem[q].buf = mem[n].buf
      BY <1>3
    <3> QED
      BY <1>1, <1>4, <3>1, <3>2 DEF HeldInv
  <2> QED
    BY <2>1, <2>2
<1>9. Accounting'
  BY <1>1, <1>2, <1>3, <1>4, <1>5, Places DEF Accounting
<1>10. TypeOK'
  <2>1. pc' \in [Mems -> Points] /\ lock' \in Mems \cup {NULL}
    BY <1>1, Unlocked
  <2>2. heap' \in [Blocks -> Nat] /\ bad_free' \in BOOLEAN
    BY <1>1, <1>2 DEF TypeOK
  <2> QED
    BY <1>1, <1>2, <1>3, <1>4, <2>1, <2>2 DEF TypeOK
<1>11. /\ \A n \in Mems : PointInv(n)'
       /\ BoundedGrowth' /\ NoAbort' /\ (OffsetSize = 0 => NoBadFree)'
       /\ (top_index = Cardinality(CurrentHolders))'
  BY <1>1, <1>5, <1>6, Unlocked DEF IInv, BoundedGrowth, NoAbort, NoBadFree
<1> HIDE DEF b
<1> QED
  BY <1>7, <1>8, <1>9, <1>10, <1>11 DEF IInv

\* A block of the present size goes back into the array: there is a place
\* for it, since its holder is counted by top_index.
LEMMA CheckinStep ==
    ASSUME IInv, NEW m \in Mems, Checkin(m)
    PROVE  IInv'
<1> DEFINE b == mem[m].buf
<1> DEFINE t == top_index - 1
<1>1. /\ pc[m] = "checkin" /\ lock' = NULL /\ pc' = [pc EXCEPT ![m] = "idle"]
      /\ mem' = [mem EXCEPT ![m] = Cleared]
      /\ mem[m].block_size = block_size
      /\ UNCHANGED <<block_ptrs_len, num_blocks, block_size, heap, req_size,
                     initialized, bad_free>>
  BY DEF Checkin, Released, Goto
<1>2. /\ TypeOK /\ initialized /\ SlotsInv /\ b # NULL
      /\ \A n \in Mems : HeldInv(n)
      /\ top_index = Cardinality(CurrentHolders)
  BY <1>1, Inside DEF IInv, PointInv
<1>3. /\ mem' \in [Mems -> Pblks]
      /\ \A n \in Mems \ {m} : mem'[n] = mem[n] /\ mem[n].buf # b
      /\ mem'[m].buf = NULL
      /\ Holders' = Holders \ {m}
      /\ HeldBlocks' = HeldBlocks \ {b}
      /\ b \in Blocks \cap HeldBlocks
      /\ heap[b] = block_size
  BY <1>1, <1>2, GiveUp
<1>4. m \in CurrentHolders /\ CurrentHolders' = CurrentHolders \ {m}
  BY <1>1, <1>2, <1>3 DEF CurrentHolders, Holders
<1>5. /\ IsFiniteSet(CurrentHolders)
      /\ Cardinality(CurrentHolders') = top_index - 1
      /\ top_index # 0
  <2>1. IsFiniteSet(CurrentHolders)
    BY MemsFinite DEF CurrentHolders, Holders
  <2>2. CurrentHolders # {}
    BY <1>4
  <2> QED
    BY <1>2, <1>4, <2>1, <2>2, FS_RemoveElement, FS_EmptySet
<1>6. /\ block_ptrs' = [block_ptrs EXCEPT ![t] = mem[m]]
      /\ top_index' = t /\ aborted' = aborted
  BY <1>5 DEF Checkin
<1>7. /\ top_index \in Nat /\ t \in Nat /\ t \in Slots /\ num_blocks \in Nat
      /\ Slots' = Slots /\ Live' = Live
      /\ Available' = Available \cup {t} /\ t \notin Available
      /\ Available \subseteq Slots
      /\ 0 .. top_index' - 1 \subseteq 0 .. top_index - 1
      /\ 0 .. top_index - 1 \subseteq Slots /\ t \notin 0 .. top_index' - 1
  BY <1>1, <1>2, <1>5, <1>6, Types DEF Slots, Available, Live
<1>8. \A i \in Slots : block_ptrs'[i] = IF i = t THEN mem[m] ELSE block_ptrs[i]
  BY <1>2, <1>6, <1>7 DEF TypeOK
<1>9. b \notin Pooled /\ \A i \in Available : block_ptrs[i].buf # b
  BY <1>2 DEF HeldInv, Pooled
<1>10. SlotsInv'
  BY <1>1, <1>2, <1>3, <1>7, <1>8, <1>9 DEF SlotsInv
<1>11. Pooled' = Pooled \cup {b}
  BY <1>7, <1>8 DEF Pooled
<1>12. \A n \in Mems : HeldInv(n)'
  <2>1. HeldInv(m)'
    BY <1>3 DEF HeldInv
  <2>2. ASSUME NEW n \in Mems \ {m} PROVE HeldInv(n)'
    <3>1. mem'[n] = mem[n] /\ HeldInv(n) /\ mem[n].buf # b
      BY <1>2, <1>3
    <3>2. \A q \in Mems : mem'[q].buf = mem[n].buf /\ mem[n].buf # NULL
                            => mem[q].buf = mem[n].buf
      BY <1>3
    <3> QED
      BY <1>1, <1>11, <3>1, <3>2 DEF HeldInv
  <2> QED
    BY <2>1, <2>2
<1>13. Accounting'
  BY <1>1, <1>2, <1>3, <1>7, <1>11, Places DEF Accounting
<1>14. TypeOK'
  <2>1. pc' \in [Mems -> Points] /\ lock' \in Mems \cup {NULL}
    BY <1>1, Unlocked
  <2>2. block_ptrs' \in [Slots -> Pblks] /\ top_index' \in 0 .. num_blocks
    BY <1>2, <1>6, <1>7, Types DEF TypeOK
  <2> QED
    BY <1>1, <1>2, <1>3, <1>6, <1>7, <2>1, <2>2 DEF TypeOK
<1>15. /\ \A n \in Mems : PointInv(n)'
       /\ BoundedGrowth' /\ NoAbort' /\ (OffsetSize = 0 => NoBadFree)'
  BY <1>1, <1>6, Unlocked DEF IInv, BoundedGrowth, NoAbort, NoBadFree
<1> HIDE DEF b, t
<1>16. (top_index = Cardinality(CurrentHolders))'
  BY <1>5, <1>6 DEF t
<1> QED
  BY <1>10, <1>12, <1>13, <1>14, <1>15, <1>16 DEF IInv

\* An exhausted pool grows by one block, for the caller: all its blocks are
\* with other mem_t objects.
LEMMA GrowStep ==
    ASSUME IInv, NEW m \in Mems, Grow(m)
    PROVE  IInv'
<1>0. PICK b \in Blocks \ Live :
        /\ block_ptrs' = [i \in 0 .. num_blocks |->
                            IF i = num_blocks THEN Pblk(b, block_size) ELSE block_ptrs[i]]
        /\ heap' = [heap EXCEPT ![b] = block_size]
  BY DEF Grow
<1>1. /\ pc[m] = "room" /\ pc' = [pc EXCEPT ![m] = "take"]
      /\ top_index = num_blocks /\ num_blocks' = num_blocks + 1
      /\ block_ptrs_len' = IF block_ptrs_len < num_blocks + 1
                             THEN Larger(2 * block_ptrs_len, num_blocks + 1)
                             ELSE block_ptrs_len
      /\ UNCHANGED <<top_index, block_size, lock, req_size, mem, initialized,
                     aborted, bad_free>>
  BY DEF Grow, Goto, faults
<1>2. /\ TypeOK /\ initialized /\ SlotsInv /\ lock = m /\ mem[m].buf = NULL
      /\ block_size >= req_size[m]
      /\ \A n \in Mems : HeldInv(n)
      /\ \A n \in Mems \ {m} : pc[n] = "idle"
  BY <1>1, Inside DEF IInv, PointInv
<1>3. /\ num_blocks \in Nat /\ block_size \in Nat /\ block_size > 0
      /\ Available = {} /\ Available' = {num_blocks}
      /\ Slots' = 0 .. num_blocks /\ Slots' = Slots \cup {num_blocks}
      /\ 0 .. top_index' - 1 = 0 .. top_index - 1
      /\ 0 .. top_index - 1 = Slots /\ num_blocks \notin Slots
  BY <1>1, <1>2, Types DEF Available, Slots
<1>4. /\ \A i \in Slots : block_ptrs'[i] = block_ptrs[i]
      /\ block_ptrs'[num_blocks].buf = b
      /\ block_ptrs'[num_blocks].block_size = block_size
      /\ \A x \in Blocks : heap'[x] = IF x = b THEN block_size ELSE heap[x]
  BY <1>0, <1>2, <1>3 DEF Pblk, TypeOK
<1>5. /\ Live' = Live \cup {b} /\ Pooled = {} /\ Pooled' = {b}
      /\ Holders' = Holders /\ HeldBlocks' = HeldBlocks /\ b \notin HeldBlocks
      /\ CurrentHolders' = CurrentHolders
  <2>1. Live' = Live \cup {b}
    BY <1>3, <1>4 DEF Live
  <2>2. Pooled = {} /\ Pooled' = {b}
    BY <1>3, <1>4 DEF Pooled
  <2>3. Holders' = Holders /\ HeldBlocks' = HeldBlocks /\ CurrentHolders' = CurrentHolders
    BY <1>1 DEF Holders, HeldBlocks, CurrentHolders
  <2> QED
    BY <1>0, <1>2, <2>1, <2>2, <2>3, Places
<1>6. SlotsInv'
  BY <1>1, <1>2, <1>3, <1>4 DEF SlotsInv
<1>7. \A n \in Mems : HeldInv(n)'
  <2> SUFFICES ASSUME NEW n \in Mems, mem[n].buf # NULL PROVE HeldInv(n)'
    BY <1>1 DEF HeldInv
  <2>1. mem[n].buf # b /\ mem[n].buf \in Blocks /\ HeldInv(n)
    BY <1>2, <1>5, Places, Types
  <2> QED
    BY <1>1, <1>4, <1>5, <2>1 DEF HeldInv
<1>8. \A n \in Mems : PointInv(n)'
  <2>1. \A n \in Mems : pc'[n] = IF n = m THEN "take" ELSE "idle"
    BY <1>1, <1>2 DEF TypeOK
  <2> QED
    BY <1>1, <1>2, <1>3, <2>1, MemsAssumption DEF PointInv
<1>9. Accounting'
  BY <1>1, <1>2, <1>5, Places DEF Accounting
<1>10. block_ptrs_len' \in Nat /\ num_blocks' <= block_ptrs_len'
  <2>1. block_ptrs_len \in Nat /\ 2 * block_ptrs_len \in Nat /\ num_blocks + 1 \in Nat
    BY <1>2, <1>3 DEF TypeOK
  <2>2. /\ Larger(2 * block_ptrs_len, num_blocks + 1) \in Nat
        /\ num_blocks + 1 <= Larger(2 * block_ptrs_len, num_blocks + 1)
    BY <2>1, LargerFacts
  <2>3. CASE block_ptrs_len < num_blocks + 1
    BY <1>1, <2>2, <2>3
  <2>4. CASE ~ (block_ptrs_len < num_blocks + 1)
    BY <1>1, <1>3, <2>1, <2>4
  <2> QED
    BY <2>3, <2>4
<1>11. num_blocks' <= Larger(InitNum, Cardinality(Mems))
  <2>1. m \notin CurrentHolders /\ CurrentHolders \subseteq Mems
    BY <1>2 DEF CurrentHolders, Holders
  <2>2. num_blocks < Cardinality(Mems) /\ Cardinality(Mems) \in Nat
    BY <1>1, <2>1, MemsFinite DEF IInv
  <2>3. Cardinality(Mems) <= Larger(InitNum, Cardinality(Mems))
        /\ Larger(InitNum, Cardinality(Mems)) \in Nat
    BY <2>2, InitAssumption, LargerFacts
  <2> QED
    BY <1>1, <1>3, <2>2, <2>3
<1>12. TypeOK'
  <2>1. block_ptrs' \in [Slots' -> Pblks]
    <3>1. Pblk(b, block_size) \in Pblks
      BY <1>3 DEF Pblk, Pblks
    <3> QED
      BY <1>0, <1>2, <1>3, <3>1 DEF TypeOK
  <2>2. heap' \in [Blocks -> Nat] /\ pc' \in [Mems -> Points]
    BY <1>0, <1>1, <1>2 DEF TypeOK, Points
  <2>3. num_blocks' \in Nat /\ top_index' \in 0 .. num_blocks'
    BY <1>1, <1>3
  <2> QED
    BY <1>1, <1>2, <1>10, <2>1, <2>2, <2>3 DEF TypeOK
<1> QED
  BY <1>1, <1>5, <1>6, <1>7, <1>8, <1>9, <1>10, <1>11, <1>12
  DEF IInv, BoundedGrowth, NoAbort, NoBadFree

\* Freeing entries of the array that are cleared or available is sound if
\* no pointer is offset.
LEMMA FreeIsGood ==
    ASSUME IInv, initialized, NEW I \in SUBSET Slots
    PROVE  /\ OffsetSize = 0 => ~BadFree(I)
           /\ BadFree(I) \in BOOLEAN
           /\ Freed(I) \subseteq Pooled
<1>1. Slots = (0 .. top_index - 1) \cup Available
  BY Types DEF IInv, Slots, Available
<1>2. \A i \in I : block_ptrs[i].buf # NULL => i \in Available
  BY <1>1 DEF IInv, SlotsInv
<1>3. \A i \in Available : block_ptrs[i].buf \in Live
  BY DEF IInv, TypeOK, SlotsInv, Live
<1>4. OffsetSize = 0 => ~BadFree(I)
  BY <1>2, <1>3 DEF BadFree, IInv, SlotsInv
<1>5. Freed(I) \subseteq Pooled
  BY <1>2 DEF Freed, Pooled
<1> QED
  BY <1>4, <1>5 DEF BadFree

\* What bli_pool_init makes of the pool, if the new blocks are placed apart
\* from those that are held.
LEMMA PoolInitFacts ==
    ASSUME num_blocks' \in Nat, block_size' \in Nat \ {0}, top_index' = 0,
           NEW f \in [Slots' -> Blocks],
           \A i, j \in Slots' : f[i] = f[j] => i = j,
           \A i \in Slots' : heap'[f[i]] = block_size',
           block_ptrs' = [i \in Slots' |-> Pblk(f[i], block_size')]
    PROVE  /\ SlotsInv'
           /\ Pooled' = {f[i] : i \in Slots'}
           /\ block_ptrs' \in [Slots' -> Pblks]
<1>1. /\ Available' = Slots' /\ 0 .. top_index' - 1 = {}
  BY DEF Slots, Available
<1>2. \A i \in Slots' : /\ block_ptrs'[i].buf = f[i]
                        /\ block_ptrs'[i].block_size = block_size'
  BY DEF Pblk
<1>3. SlotsInv'
  BY <1>1, <1>2 DEF SlotsInv
<1>4. Pooled' = {f[i] : i \in Slots'}
  BY <1>1, <1>2 DEF Pooled
<1>5. block_ptrs' \in [Slots' -> Pblks]
  BY DEF Pblk, Pblks
<1> QED
  BY <1>3, <1>4, <1>5

\* The length bli_pool_init gives to the array.
LEMMA PoolInitLength ==
    ASSUME NEW num \in Nat, NEW len \in Nat
    PROVE  /\ Larger(Larger(len, num), 1) \in Nat
           /\ num <= Larger(Larger(len, num), 1)
<1>1. Larger(len, num) \in Nat /\ num <= Larger(len, num)
  BY LargerFacts
<1>2. /\ Larger(Larger(len, num), 1) \in Nat
      /\ Larger(len, num) <= Larger(Larger(len, num), 1)
  BY <1>1, LargerFacts
<1> QED
  BY <1>1, <1>2

\* A pool whose blocks are too small is replaced; the blocks that are out
\* become orphans, since the new size is larger than any of theirs.
LEMMA ReinitStep ==
    ASSUME IInv, NEW m \in Mems, Reinit(m)
    PROVE  IInv'
<1>0. PICK f \in Placements(Slots, Live \ Freed(Slots)) :
        /\ PoolInit(num_blocks, block_ptrs_len, req_size[m], f)
        /\ heap' = [b \in Blocks |->
                      IF \E i \in Slots : f[i] = b THEN req_size[m]
                      ELSE IF b \in Freed(Slots) THEN 0 ELSE heap[b]]
  BY DEF Reinit
<1>1. /\ pc[m] = "size" /\ pc' = [pc EXCEPT ![m] = "room"]
      /\ block_size < req_size[m]
      /\ bad_free' = (bad_free \/ BadFree(Slots))
      /\ UNCHANGED <<lock, req_size, mem, initialized, aborted>>
  BY DEF Reinit, Goto
<1>2. /\ TypeOK /\ initialized /\ SlotsInv /\ lock = m /\ mem[m].buf = NULL
      /\ \A n \in Mems : HeldInv(n)
      /\ \A n \in Mems \ {m} : pc[n] = "idle"
  BY <1>1, Inside DEF IInv, PointInv
<1>3. /\ num_blocks \in Nat /\ block_ptrs_len \in Nat
      /\ req_size[m] \in Nat \ {0} /\ Slots = 0 .. num_blocks - 1
      /\ block_size \in Nat
  BY <1>1, <1>2, Types DEF TypeOK, Slots
<1>4. Freed(Slots) = Pooled
  <2>1. Available \subseteq Slots
    BY <1>2, Types DEF Available, Slots
  <2>2. \A i \in Available : block_ptrs[i].buf # NULL
    BY <1>2, BlocksAssumption DEF SlotsInv
  <2>3. Pooled \subseteq Freed(Slots)
    BY <2>1, <2>2 DEF Pooled, Freed
  <2> QED
    BY <1>2, <2>3, FreeIsGood
<1>5. Live \ Freed(Slots) = HeldBlocks
  BY <1>2, <1>4, Places
<1>6. /\ f \in [0 .. num_blocks - 1 -> Blocks]
      /\ \A i, j \in 0 .. num_blocks - 1 : f[i] = f[j] => i = j
      /\ \A i \in 0 .. num_blocks - 1 : f[i] \notin HeldBlocks
  BY <1>0, <1>3, <1>5 DEF Placements
<1>7. \A i \in 0 .. num_blocks - 1 : heap'[f[i]] = req_size[m]
  BY <1>0, <1>3, <1>6
<1>8. /\ SlotsInv'
      /\ Pooled' = {f[i] : i \in 0 .. num_blocks - 1}
      /\ block_ptrs' \in [Slots' -> Pblks]
      /\ num_blocks' = num_blocks /\ top_index' = 0 /\ block_size' = req_size[m]
      /\ block_ptrs_len' \in Nat /\ num_blocks' <= block_ptrs_len'
      /\ top_index' \in 0 .. num_blocks'
  <2>1. /\ num_blocks' = num_blocks /\ top_index' = 0 /\ block_size' = req_size[m]
        /\ Slots' = 0 .. num_blocks - 1
        /\ block_ptrs_len' = Larger(Larger(block_ptrs_len, num_blocks), 1)
    BY <1>0 DEF PoolInit, Slots
  <2>2. block_ptrs' = [i \in Slots' |-> Pblk(f[i], block_size')]
    BY <1>0, <2>1 DEF PoolInit
  <2>3. /\ SlotsInv' /\ Pooled' = {f[i] : i \in Slots'}
        /\ block_ptrs' \in [Slots' -> Pblks]
    <3>1. /\ num_blocks' \in Nat /\ block_size' \in Nat \ {0} /\ f \in [Slots' -> Blocks]
          /\ \A i, j \in Slots' : f[i] = f[j] => i = j
          /\ \A i \in Slots' : heap'[f[i]] = block_size'
      BY <1>3, <1>6, <1>7, <2>1
    <3> QED
      BY <2>1, <2>2, <3>1, PoolInitFacts
  <2>4. block_ptrs_len' \in Nat /\ num_blocks' <= block_ptrs_len'
    BY <1>3, <2>1, PoolInitLength
  <2> QED
    BY <1>3, <2>1, <2>3, <2>4
<1>9. /\ HeldBlocks' = HeldBlocks /\ Holders' = Holders
      /\ Pooled' \cap HeldBlocks = {}
      /\ \A b \in HeldBlocks : b \in Blocks => heap'[b] = heap[b]
  <2>1. HeldBlocks' = HeldBlocks /\ Holders' = Holders
    BY <1>1 DEF HeldBlocks, Holders
  <2>2. Pooled' \cap HeldBlocks = {}
    BY <1>6, <1>8
  <2>3. \A b \in HeldBlocks : b \in Blocks => heap'[b] = heap[b]
    BY <1>0, <1>3, <1>4, <1>6, Places
  <2> QED
    BY <2>1, <2>2, <2>3
<1>10. Live' = Pooled' \cup HeldBlocks
  <2>1. ASSUME NEW b \in Blocks
        PROVE  b \in Live' <=> b \in Pooled' \cup HeldBlocks
    <3>1. CASE \E i \in Slots : f[i] = b
      <4>1. heap'[b] = req_size[m] /\ b \in Pooled'
        BY <1>0, <1>3, <1>8, <3>1
      <4> QED
        BY <1>3, <4>1 DEF Live
    <3>2. CASE ~ \E i \in Slots : f[i] = b
      <4>1. heap'[b] = IF b \in Pooled THEN 0 ELSE heap[b]
        BY <1>0, <1>4, <3>2
      <4>2. b \notin Pooled'
        BY <1>3, <1>8, <3>2
      <4>3. heap[b] > 0 <=> b \in Pooled \cup HeldBlocks
        BY <1>2, Places DEF Live
      <4> QED
        BY <4>1, <4>2, <4>3, Places DEF Live
    <3> QED
      BY <3>1, <3>2
  <2>2. Live' \subseteq Blocks
    BY DEF Live
  <2>3. Pooled' \subseteq Blocks
    BY <1>6, <1>8
  <2>4. HeldBlocks \subseteq Blocks
    BY <1>2, Places, Types
  <2> QED
    BY <2>1, <2>2, <2>3, <2>4
<1>11. \A n \in Mems : HeldInv(n)'
  <2> SUFFICES ASSUME NEW n \in Mems, mem[n].buf # NULL PROVE HeldInv(n)'
    BY <1>1 DEF HeldInv
  <2>1. /\ HeldInv(n) /\ mem[n].buf \in Blocks /\ mem[n].buf \in HeldBlocks
        /\ mem[n].block_size \in Nat
    BY <1>2, Places, Types
  <2>2. heap'[mem[n].buf] = heap[mem[n].buf] /\ mem[n].buf \notin Pooled'
    BY <1>9, <2>1
  <2>3. mem[n].block_size \in 1 .. block_size'
    BY <1>1, <1>3, <1>8, <2>1 DEF HeldInv
  <2> QED
    BY <1>1, <2>1, <2>2, <2>3 DEF HeldInv
<1>12. \A n \in Mems : PointInv(n)'
  <2>1. \A n \in Mems : pc'[n] = IF n = m THEN "room" ELSE "idle"
    BY <1>1, <1>2 DEF TypeOK
  <2> QED
    BY <1>1, <1>2, <1>3, <1>8, <2>1, MemsAssumption DEF PointInv
<1>13. (top_index = Cardinality(CurrentHolders))'
  <2>1. \A n \in Holders : mem'[n].block_size # block_size'
    BY <1>1, <1>2, <1>3, <1>8 DEF HeldInv, Holders
  <2>2. CurrentHolders' = {}
    BY <1>9, <2>1 DEF CurrentHolders
  <2> QED
    BY <1>8, <2>2, FS_EmptySet
<1>14. Accounting'
  BY <1>1, <1>2, <1>9, <1>10 DEF Accounting
<1>15. BoundedGrowth'
  BY <1>8 DEF IInv, BoundedGrowth
<1>16. TypeOK'
  <2>1. heap' \in [Blocks -> Nat] /\ pc' \in [Mems -> Points] /\ bad_free' \in BOOLEAN
    BY <1>0, <1>1, <1>2, <1>3, FreeIsGood DEF TypeOK, Points
  <2> QED
    BY <1>1, <1>2, <1>3, <1>8, <2>1 DEF TypeOK
<1>17. NoAbort' /\ (OffsetSize = 0 => NoBadFree)'
  BY <1>1, <1>2, FreeIsGood DEF IInv, NoAbort, NoBadFree
<1> QED
  BY <1>1, <1>8, <1>11, <1>12, <1>13, <1>14, <1>15, <1>16, <1>17 DEF IInv

\* Only available blocks are removed from the end of the array.
LEMMA ShrinkStep ==
    ASSUME IInv, NEW k \in Nat, Shrink(k)
    PROVE  IInv'
<1> DEFINE avail == num_blocks - top_index
<1> DEFINE sub == IF k < avail THEN k ELSE avail
<1> DEFINE new == num_blocks - sub
<1> DEFINE gone == new .. num_blocks - 1
<1>1. /\ initialized /\ lock = NULL
      /\ bad_free' = (bad_free \/ BadFree(gone))
      /\ heap' = [b \in Blocks |-> IF b \in Freed(gone) THEN 0 ELSE heap[b]]
      /\ num_blocks' = new
      /\ block_ptrs' = [i \in 0 .. new - 1 |-> block_ptrs[i]]
      /\ UNCHANGED <<block_ptrs_len, top_index, block_size, lock, pc, req_size, mem,
                     initialized, aborted>>
  BY DEF Shrink, threads
<1>2. TypeOK /\ SlotsInv /\ \A n \in Mems : HeldInv(n)
  BY <1>1 DEF IInv
<1>3. /\ num_blocks \in Nat /\ top_index \in Nat /\ new \in Nat
      /\ top_index <= new /\ new <= num_blocks /\ block_size \in Nat /\ block_size > 0
  BY <1>2, Types
<1> HIDE DEF avail, sub, new
<1>4. /\ Slots' = 0 .. new - 1 /\ Slots' \subseteq Slots
      /\ Available' = top_index .. new - 1 /\ Available = Available' \cup gone
      /\ Available' \cap gone = {} /\ gone \subseteq Slots
      /\ 0 .. top_index - 1 \subseteq Slots'
  BY <1>1, <1>3 DEF Slots, Available
<1>5. \A i \in Slots' : block_ptrs'[i] = block_ptrs[i]
  BY <1>1, <1>4
<1>6. Freed(gone) = {block_ptrs[i].buf : i \in gone}
  BY <1>2, <1>4, BlocksAssumption DEF Freed, SlotsInv
<1>7. Pooled' = Pooled \ Freed(gone) /\ Freed(gone) \subseteq Pooled
  <2>1. Pooled' = {block_ptrs[i].buf : i \in Available'}
    <3>1. \A i \in Available' : block_ptrs'[i] = block_ptrs[i]
      BY <1>3, <1>4, <1>5
    <3> QED
      BY <3>1 DEF Pooled
  <2>2. \A i \in Available', j \in gone : block_ptrs[i].buf # block_ptrs[j].buf
    BY <1>2, <1>4 DEF SlotsInv
  <2>3. Pooled' \cap Freed(gone) = {}
    BY <1>6, <2>1, <2>2
  <2>4. Pooled = Pooled' \cup Freed(gone)
    BY <1>4, <1>6, <2>1 DEF Pooled
  <2> QED
    BY <2>3, <2>4
<1>8. /\ Holders' = Holders /\ HeldBlocks' = HeldBlocks /\ CurrentHolders' = CurrentHolders
      /\ Live' = Live \ Freed(gone)
  BY <1>1 DEF Holders, HeldBlocks, CurrentHolders, Live
<1>9. SlotsInv'
  <2>1. \A i \in Available' : block_ptrs[i].buf \notin Freed(gone)
    BY <1>2, <1>4, <1>6 DEF SlotsInv
  <2>2. \A i \in 0 .. top_index - 1 : block_ptrs'[i].buf = NULL
    BY <1>2, <1>4, <1>5 DEF SlotsInv
  <2>3. Available' \subseteq Slots' /\ Available' \subseteq Available
    BY <1>3, <1>4
  <2> QED
    BY <1>1, <1>2, <1>5, <2>1, <2>2, <2>3 DEF SlotsInv
<1>10. \A n \in Mems : HeldInv(n)'
  <2> SUFFICES ASSUME NEW n \in Mems, mem[n].buf # NULL PROVE HeldInv(n)'
    BY <1>1 DEF HeldInv
  <2>1. HeldInv(n) /\ mem[n].buf \in Blocks /\ mem[n].buf \notin Pooled
    BY <1>2, Types DEF HeldInv
  <2> QED
    BY <1>1, <1>7, <2>1 DEF HeldInv
<1>11. \A n \in Mems : PointInv(n)'
  <2>1. \A n \in Mems : pc[n] = "idle" /\ n # NULL
    BY <1>1, MemsAssumption DEF IInv, PointInv
  <2> QED
    BY <1>1, <2>1 DEF PointInv
<1>12. Accounting'
  BY <1>1, <1>7, <1>8, Places DEF Accounting
<1>13. BoundedGrowth'
  <2>1. /\ Larger(InitNum, Cardinality(Mems)) \in Nat /\ block_ptrs_len \in Nat
    BY <1>2, MemsFinite, InitAssumption, LargerFacts DEF TypeOK
  <2> QED
    BY <1>1, <1>3, <2>1 DEF IInv, BoundedGrowth
<1>14. TypeOK'
  <2>1. block_ptrs' \in [Slots' -> Pblks]
    BY <1>1, <1>2, <1>4, Types
  <2>2. heap' \in [Blocks -> Nat] /\ bad_free' \in BOOLEAN
    BY <1>1, <1>2, <1>4, FreeIsGood DEF TypeOK
  <2>3. num_blocks' \in Nat /\ top_index' \in 0 .. num_blocks'
    BY <1>1, <1>3
  <2> QED
    BY <1>1, <1>2, <2>1, <2>2, <2>3 DEF TypeOK
<1>15. /\ NoAbort' /\ (OffsetSize = 0 => NoBadFree)'
       /\ (top_index = Cardinality(CurrentHolders))'
  BY <1>1, <1>4, <1>8, FreeIsGood DEF IInv, NoAbort, NoBadFree
<1> QED
  BY <1>9, <1>10, <1>11, <1>12, <1>13, <1>14, <1>15 DEF IInv

\* bli_pba_finalize_pools finds the pool full, and frees all of it.
LEMMA FinalizeStep ==
    ASSUME IInv, Finalize
    PROVE  IInv'
<1>1. /\ initialized /\ lock = NULL
      /\ \A n \in Mems : mem[n].buf = NULL
      /\ aborted' = (aborted \/ top_index # 0)
      /\ bad_free' = (bad_free \/ BadFree(Slots))
      /\ heap' = [b \in Blocks |-> IF b \in Freed(Slots) THEN 0 ELSE heap[b]]
      /\ initialized' = FALSE
      /\ UNCHANGED <<block_ptrs, block_ptrs_len, num_blocks, top_index, block_size, lock,
                     pc, req_size, mem>>
  BY DEF Finalize, pool, threads
<1>2. TypeOK /\ SlotsInv
  BY <1>1 DEF IInv
<1>3. /\ Holders = {} /\ HeldBlocks = {} /\ CurrentHolders = {}
      /\ Holders' = {} /\ HeldBlocks' = {} /\ CurrentHolders' = {}
  BY <1>1 DEF Holders, HeldBlocks, CurrentHolders
<1>4. top_index = 0
  BY <1>3, FS_EmptySet DEF IInv
<1>5. Live \subseteq Freed(Slots)
  <2>1. Live = Pooled
    BY <1>1, <1>3, Places
  <2>2. Available = Slots
    BY <1>4 DEF Available, Slots
  <2> QED
    BY <1>2, <2>1, <2>2, BlocksAssumption DEF Pooled, Freed, SlotsInv
<1>6. Live' = {}
  <2>1. ASSUME NEW b \in Blocks PROVE ~ (heap'[b] > 0)
    <3>1. heap'[b] = IF b \in Freed(Slots) THEN 0 ELSE heap[b]
      BY <1>1
    <3>2. CASE b \in Freed(Slots)
      BY <3>1, <3>2
    <3>3. CASE b \notin Freed(Slots)
      BY <1>5, <3>1, <3>3 DEF Live
    <3> QED
      BY <3>2, <3>3
  <2> QED
    BY <2>1 DEF Live
<1>7. \A n \in Mems : pc[n] = "idle" /\ n # NULL
  BY <1>1, MemsAssumption DEF IInv, PointInv
<1>8. \A n \in Mems : PointInv(n)' /\ HeldInv(n)'
  BY <1>1, <1>7 DEF PointInv, HeldInv
<1>9. TypeOK'
  <2>1. heap' \in [Blocks -> Nat] /\ bad_free' \in BOOLEAN /\ aborted' \in BOOLEAN
    BY <1>1, <1>2, FreeIsGood DEF TypeOK
  <2>2. Slots' = Slots
    BY <1>1 DEF Slots
  <2> QED
    BY <1>1, <1>2, <2>1, <2>2 DEF TypeOK
<1>10. /\ Accounting' /\ BoundedGrowth' /\ NoAbort' /\ (OffsetSize = 0 => NoBadFree)'
       /\ (top_index = Cardinality(CurrentHolders))'
  BY <1>1, <1>3, <1>4, <1>6, FreeIsGood
  DEF IInv, Accounting, BoundedGrowth, NoAbort, NoBadFree
<1> QED
  BY <1>1, <1>8, <1>9, <1>10 DEF IInv

\* A later bli_init finds no block and makes the pool afresh.
LEMMA InitPoolsStep ==
    ASSUME IInv, InitPools
    PROVE  IInv'
<1>0. PICK f \in Placements(0 .. InitNum - 1, Live) :
        /\ PoolInit(InitNum, InitLen, InitSize, f)
        /\ heap' = [b \in Blocks |->
                      IF \E i \in 0 .. InitNum - 1 : f[i] = b THEN InitSize ELSE heap[b]]
  BY DEF InitPools
<1>1. /\ ~initialized /\ initialized' = TRUE
      /\ UNCHANGED <<lock, pc, req_size, mem, aborted, bad_free>>
  BY DEF InitPools, threads, faults
<1>2. /\ TypeOK /\ Live = {} /\ InitNum \in Nat /\ InitLen \in Nat
      /\ InitSize \in Nat \ {0}
  BY <1>1, Places, InitAssumption DEF IInv
<1>3. \A n \in Mems : mem[n].buf = NULL /\ pc[n] = "idle" /\ n # NULL /\ lock # n
  BY <1>1, MemsAssumption DEF IInv, HeldInv, PointInv
<1>4. /\ Holders' = {} /\ HeldBlocks' = {} /\ CurrentHolders' = {}
  BY <1>1, <1>3 DEF Holders, HeldBlocks, CurrentHolders
<1>5. /\ f \in [0 .. InitNum - 1 -> Blocks]
      /\ \A i, j \in 0 .. InitNum - 1 : f[i] = f[j] => i = j
      /\ \A i \in 0 .. InitNum - 1 : heap'[f[i]] = InitSize
  BY <1>0 DEF Placements
<1>6. /\ SlotsInv'
      /\ Pooled' = {f[i] : i \in 0 .. InitNum - 1}
      /\ block_ptrs' \in [Slots' -> Pblks]
      /\ num_blocks' = InitNum /\ top_index' = 0 /\ block_size' = InitSize
      /\ block_ptrs_len' \in Nat /\ num_blocks' <= block_ptrs_len'
      /\ top_index' \in 0 .. num_blocks'
  <2>1. /\ num_blocks' = InitNum /\ top_index' = 0 /\ block_size' = InitSize
        /\ Slots' = 0 .. InitNum - 1
        /\ block_ptrs_len' = Larger(Larger(InitLen, InitNum), 1)
    BY <1>0 DEF PoolInit, Slots
  <2>2. block_ptrs' = [i \in Slots' |-> Pblk(f[i], block_size')]
    BY <1>0, <2>1 DEF PoolInit
  <2>3. /\ SlotsInv' /\ Pooled' = {f[i] : i \in Slots'}
        /\ block_ptrs' \in [Slots' -> Pblks]
    <3>1. /\ num_blocks' \in Nat /\ block_size' \in Nat \ {0} /\ f \in [Slots' -> Blocks]
          /\ \A i, j \in Slots' : f[i] = f[j] => i = j
          /\ \A i \in Slots' : heap'[f[i]] = block_size'
      BY <1>2, <1>5, <2>1
    <3> QED
      BY <2>1, <2>2, <3>1, PoolInitFacts
  <2>4. block_ptrs_len' \in Nat /\ num_blocks' <= block_ptrs_len'
    BY <1>2, <2>1, PoolInitLength
  <2> QED
    BY <1>2, <2>1, <2>3, <2>4
<1>7. Live' = Pooled'
  <2>1. ASSUME NEW b \in Blocks PROVE b \in Live' <=> b \in Pooled'
    <3>1. heap'[b] = IF b \in Pooled' THEN InitSize ELSE heap[b]
      BY <1>0, <1>6
    <3>2. ~ (heap[b] > 0)
      BY <1>2 DEF Live
    <3> QED
      BY <1>2, <3>1, <3>2 DEF Live
  <2>2. Live' \subseteq Blocks /\ Pooled' \subseteq Blocks
    BY <1>5, <1>6 DEF Live
  <2> QED
    BY <2>1, <2>2
<1>8. \A n \in Mems : PointInv(n)' /\ HeldInv(n)'
  BY <1>1, <1>3 DEF PointInv, HeldInv
<1>9. TypeOK'
  <2>1. heap' \in [Blocks -> Nat]
    BY <1>0, <1>2 DEF TypeOK
  <2> QED
    BY <1>1, <1>2, <1>6, <2>1 DEF TypeOK
<1>10. BoundedGrowth'
  <2>1. InitNum <= Larger(InitNum, Cardinality(Mems))
    BY <1>2, MemsFinite, LargerFacts
  <2> QED
    BY <1>6, <2>1 DEF BoundedGrowth
<1>11. /\ Accounting' /\ NoAbort' /\ (OffsetSize = 0 => NoBadFree)'
       /\ (top_index = Cardinality(CurrentHolders))'
  BY <1>1, <1>4, <1>6, <1>7, FS_EmptySet DEF IInv, Accounting, NoAbort, NoBadFree
<1> QED
  BY <1>6, <1>8, <1>9, <1>10, <1>11 DEF IInv

-----------------------------------------------------------------------------

\* Every step preserves the invariant.
LEMMA NextIInv ==
    ASSUME IInv, [Next]_vars
    PROVE  IInv'
<1>1. CASE UNCHANGED vars
  <2>1. UNCHANGED <<Slots, Available, Pooled, Holders, HeldBlocks, CurrentHolders, Live>>
    BY <1>1 DEF vars, pool, threads, Slots, Available, Pooled, Holders, HeldBlocks,
                CurrentHolders, Live
  <2>2. TypeOK' /\ (initialized => SlotsInv)'
    BY <1>1, <2>1 DEF vars, pool, threads, faults, IInv, TypeOK, SlotsInv
  <2>3. \A m \in Mems : PointInv(m)' /\ HeldInv(m)'
    BY <1>1, <2>1 DEF vars, pool, threads, IInv, PointInv, HeldInv
  <2> QED
    BY <1>1, <2>1, <2>2, <2>3
    DEF vars, pool, faults, IInv, Accounting, BoundedGrowth, NoAbort, NoBadFree
<1>2. ASSUME NEW m \in Mems, Step(m) PROVE IInv'
  BY <1>2, ControlStep, ReinitStep, GrowStep, TakeStep, OrphanStep, CheckinStep DEF Step
<1>3. ASSUME NEW k \in {1, 2}, Shrink(k) PROVE IInv'
  BY <1>3, ShrinkStep
<1>4. CASE Finalize
  BY <1>4, FinalizeStep
<1>5. CASE InitPools
  BY <1>5, InitPoolsStep
<1> QED
  BY <1>1, <1>2, <1>3, <1>4, <1>5 DEF Next

\* The invariant of the pool.
THEOREM Invariance == Spec => []IInv
<1>1. IInv /\ [Next]_vars => IInv'
  BY NextIInv
<1> QED
  BY <1>1, InitIInv, PTL DEF Spec

\* Type correctness of the pool.
THEOREM TypeCorrect == Spec => []TypeOK
<1>1. IInv => TypeOK
  BY DEF IInv
<1> QED
  BY <1>1, Invariance, PTL

\* No block is lost or in two places, whatever the order of checkouts,
\* checkins, reinitialisations and shrinks.
THEOREM BlocksAccounted == Spec => []Accounting
<1>1. IInv => Accounting
  BY DEF IInv
<1> QED
  BY <1>1, Invariance, PTL

\* The calls of bli_abort in bli_pool_checkin_block and bli_pool_finalize
\* are unreachable.
THEOREM NeverAborts == Spec => []NoAbort
<1>1. IInv => NoAbort
  BY DEF IInv
<1> QED
  BY <1>1, Invariance, PTL

\* With the default offset of 0 the pool frees only what was allocated, and
\* once.
THEOREM FreesAreGood == ASSUME OffsetSize = 0 PROVE Spec => []NoBadFree
<1>1. IInv => NoBadFree
  BY DEF IInv
<1> QED
  BY <1>1, Invariance, PTL

\* An acquired block is at least as large as requested.
THEOREM BlocksBigEnough == Spec => []BigEnough
<1>1. IInv => BigEnough
  BY DEF IInv, HeldInv, BigEnough, Holders
<1> QED
  BY <1>1, Invariance, PTL

\* The pool never has more blocks than there are mem_t objects (or initial
\* blocks), and the array always has room for them.
THEOREM GrowthIsBounded == Spec => []BoundedGrowth
<1>1. IInv => BoundedGrowth
  BY DEF IInv
<1> QED
  BY <1>1, Invariance, PTL

-----------------------------------------------------------------------------

\* What is held is allocated, before and after a step.
LEMMA HeldIsLive ==
    /\ IInv => HeldBlocks \subseteq Live
    /\ IInv' => (HeldBlocks \subseteq Live)'
<1>1. IInv => HeldBlocks \subseteq Live
  BY Places
<1>2. IInv' => (HeldBlocks \subseteq Live)'
  BY <1>1, PTL
<1> QED
  BY <1>1, <1>2

\* Only a Take, a Checkin and an orphan's checkin change who holds what.
LEMMA AllocatorSimulation ==
    ASSUME IInv, [Next]_vars
    PROVE  [AbstractAllocator!Next]_(AbstractAllocator!vars)
<1> DEFINE held == [m \in Mems |-> mem[m].buf]
<1>0. UNCHANGED <<held, Live>> => UNCHANGED AbstractAllocator!vars
  BY DEF AbstractAllocator!vars
<1>1. AbstractAllocator!Held = HeldBlocks
  BY DEF AbstractAllocator!Held, HeldBlocks, Holders
<1>2. HeldBlocks \subseteq Live /\ HeldBlocks' \subseteq Live'
  BY NextIInv, HeldIsLive
<1>3. Live \subseteq Blocks /\ Live' \subseteq Blocks
  BY DEF Live
<1>4. ASSUME UNCHANGED mem
      PROVE  AbstractAllocator!Manage
  <2>1. held' = held /\ HeldBlocks' = HeldBlocks
    BY <1>4 DEF HeldBlocks, Holders
  <2> QED
    BY <1>1, <1>2, <1>3, <2>1 DEF AbstractAllocator!Manage
<1>5. ASSUME NEW m \in Mems, Take(m)
      PROVE  AbstractAllocator!Acquire(m)
  <2>1. /\ mem[m].buf = NULL /\ SlotsInv /\ top_index \in Available
        /\ mem' = [mem EXCEPT ![m] = block_ptrs[top_index]] /\ Live' = Live
    <3>1. mem[m].buf = NULL /\ SlotsInv /\ top_index < num_blocks
      BY <1>5, Inside DEF Take, IInv, PointInv
    <3> QED
      BY <1>5, <3>1, Types DEF Take, IInv, Available, Live
  <2>2. block_ptrs[top_index].buf \in Live \ HeldBlocks
    <3>1. block_ptrs[top_index].buf \in Pooled
      BY <2>1 DEF Pooled
    <3>2. block_ptrs[top_index].buf \in Live
      BY <2>1 DEF IInv, TypeOK, SlotsInv, Live
    <3> QED
      BY <3>1, <3>2, Places
  <2>3. held' = [held EXCEPT ![m] = block_ptrs[top_index].buf]
    BY <2>1 DEF IInv, TypeOK
  <2> QED
    BY <1>1, <2>1, <2>2, <2>3 DEF AbstractAllocator!Acquire
<1>6. ASSUME NEW m \in Mems, CheckinOrphan(m) \/ Checkin(m)
      PROVE  AbstractAllocator!Release(m)
  <2>1. mem[m].buf # NULL /\ mem' = [mem EXCEPT ![m] = Cleared]
    BY <1>6, Inside DEF CheckinOrphan, Checkin, Released, IInv, PointInv
  <2>2. held' = [held EXCEPT ![m] = NULL]
    BY <2>1 DEF IInv, TypeOK, Cleared
  <2>3. Live' \in {Live, Live \ {mem[m].buf}}
    <3>1. CASE CheckinOrphan(m)
      BY <3>1 DEF CheckinOrphan, Live, IInv, TypeOK
    <3>2. CASE Checkin(m)
      BY <3>2 DEF Checkin, Live
    <3> QED
      BY <1>6, <3>1, <3>2
  <2> QED
    BY <2>1, <2>2, <2>3 DEF AbstractAllocator!Release
<1>7. CASE UNCHANGED vars
  BY <1>0, <1>7 DEF vars, threads, Live
<1>8. ASSUME NEW m \in Mems, Step(m)
      PROVE  AbstractAllocator!Next
  <2>1. CASE UNCHANGED mem
    BY <1>4, <2>1 DEF AbstractAllocator!Next
  <2>2. CASE Take(m) \/ CheckinOrphan(m) \/ Checkin(m)
    BY <1>5, <1>6, <2>2 DEF AbstractAllocator!Next
  <2> QED
    BY <1>8, <2>1, <2>2 DEF Step, Acquire, LargeEnough, Reinit, HasRoom, Grow, Release
<1>9. CASE (\E k \in {1, 2} : Shrink(k)) \/ Finalize \/ InitPools
  BY <1>4, <1>9 DEF Shrink, Finalize, InitPools, threads, AbstractAllocator!Next
<1> HIDE DEF held
<1> QED
  BY <1>7, <1>8, <1>9 DEF Next

\* The pool implements the allocator: blocks are exclusive, and stay
\* allocated while they are held.
THEOREM AllocatorRefinement == Spec => ImplementsAllocator
<1>1. Init => AbstractAllocator!Init
  BY DEF Init, AbstractAllocator!Init, Cleared, Live
<1> QED
  BY <1>1, AllocatorSimulation, Invariance, PTL
     DEF Spec, ImplementsAllocator, AbstractAllocator!Spec
=============================================================================
