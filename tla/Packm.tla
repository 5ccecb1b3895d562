-------------------------------- MODULE Packm --------------------------------
(***************************************************************************)
(* A team of threads packs one block of a matrix after another into a      *)
(* shared buffer and computes with it: bli_packm_int and the variant it    *)
(* calls (bli_packm_blk_var1), bli_packm_alloc_ex, the computation that    *)
(* follows, and the release of the buffer in bli_thrinfo_free.  Every      *)
(* thread keeps its own copy, in its thrinfo_t node, of the mem_t that     *)
(* describes the buffer.                                                   *)
(*                                                                         *)
(* The module composes the components whose detail is elsewhere by what    *)
(* they promise: the barrier of the team's communicator is Barrier, the    *)
(* packing block allocator is Allocator.  The allocator serves other teams *)
(* as well, which write into the blocks they hold.                         *)
(***************************************************************************)
EXTENDS Integers, Sequences

CONSTANTS
    N,          \* threads in the team
    Packs,      \* size_needed of each packing, in order; 0 if there is
                \* nothing to pack
    MaxSize,    \* bound on the sizes of blocks
    Blocks, NULL

ASSUME PackmAssumption ==
    /\ N \in Nat \ {0}
    /\ MaxSize \in Nat
    /\ Packs \in Seq(0 .. MaxSize)
    /\ NULL \notin Blocks

Members == 0 .. N - 1
Sizes == 0 .. MaxSize
NoMem == [block |-> NULL, size |-> 0]       \* bli_mem_clear

VARIABLES
    pc,
    k,              \* the packing the thread is at
    ret,            \* where the barrier in progress returns to
    mem,            \* the mem_t in the thread's node
    local_mem_s,    \* the chief's local mem_t, and whether the call of
                    \* bli_packm_alloc_ex that it is local to has not returned
    sent,           \* the call whose local_mem_s the chief broadcast last
    local_mem_p,    \* the same, as received by each thread
    content,        \* content[b][t]: the packing whose panels thread t of the
                    \* team wrote last into block b; 0 if others wrote there
    entered, left,  \* the barrier
    held, live      \* the allocator

node == <<mem, local_mem_s, sent, local_mem_p>>
alloc == <<held, live>>
vars == <<pc, k, ret, node, content, entered, left, alloc>>

TeamBarrier == INSTANCE Barrier WITH Threads <- Members
Pba == INSTANCE Allocator WITH Mems <- {"team", "others"}

Init ==
    /\ pc = [t \in Members |-> "ready"]
    /\ k = [t \in Members |-> 0]
    /\ ret = [t \in Members |-> "ready"]
    /\ mem = [t \in Members |-> NoMem]
    /\ local_mem_s = [live |-> FALSE, mem |-> NoMem]
    /\ sent = 0
    /\ local_mem_p = [t \in Members |-> 0]
    /\ content = [b \in Blocks |-> [t \in Members |-> 0]]
    /\ TeamBarrier!Init
    /\ Pba!Init

Goto(t, point) == pc' = [pc EXCEPT ![t] = point]

\* bli_thrinfo_barrier: arrive, and return to point when all have.
Barrier(t, point) ==
    /\ TeamBarrier!Enter(t)
    /\ ret' = [ret EXCEPT ![t] = point]
    /\ Goto(t, "barrier")

Leave(t) ==
    /\ pc[t] = "barrier"
    /\ TeamBarrier!Leave(t)
    /\ Goto(t, ret[t])
    /\ UNCHANGED <<k, ret, node, content, alloc>>

-----------------------------------------------------------------------------

\* Mutant of PackmInt: without the barrier.
PackmIntAtOnce(t) ==
    /\ pc[t] = "ready" /\ k[t] < Len(Packs)
    /\ k' = [k EXCEPT ![t] = @ + 1]
    /\ Goto(t, "alloc")
    /\ UNCHANGED <<ret, entered, left, node, content, alloc>>

\* The first barrier of bli_packm_int.
PackmInt(t) ==
    /\ pc[t] = "ready" /\ k[t] < Len(Packs)
    /\ k' = [k EXCEPT ![t] = @ + 1]
    /\ Barrier(t, "alloc")
    /\ UNCHANGED <<node, content, alloc>>

size_needed(t) == Packs[k[t]]

\* Mutant of NothingToPack: the chief returns from bli_packm_int as well.
NothingAtOnce(t) ==
    /\ pc[t] = "alloc" /\ size_needed(t) = 0
    /\ IF t = 0 THEN Goto(t, "ready") /\ UNCHANGED <<ret, entered, left>>
                ELSE Barrier(t, "ready")
    /\ UNCHANGED <<k, node, content, alloc>>

\* The variant returns early if there is nothing to pack.
NothingToPack(t) ==
    /\ pc[t] = "alloc" /\ size_needed(t) = 0
    /\ Barrier(t, "ready")
    /\ UNCHANGED <<k, node, content, alloc>>

\* The block that the node already has is large enough.
Reuse(t) ==
    /\ pc[t] = "alloc" /\ size_needed(t) > 0
    /\ mem[t].size >= size_needed(t)
    /\ Goto(t, "pack")
    /\ UNCHANGED <<k, ret, node, content, entered, left, alloc>>

\* The chief goes on to replace the block, the others to its broadcast.
Replace(t) ==
    /\ pc[t] = "alloc" /\ mem[t].size < size_needed(t)
    /\ IF t = 0
         THEN /\ local_mem_s' = [live |-> TRUE, mem |-> NoMem]
              /\ Goto(t, IF mem[t].block # NULL THEN "release" ELSE "acquire")
              /\ UNCHANGED <<ret, entered, left>>
         ELSE /\ UNCHANGED local_mem_s
              /\ Barrier(t, "receive")
    /\ UNCHANGED <<k, mem, sent, local_mem_p, content, alloc>>

\* bli_pba_release, which clears the mem_t
ReleaseOld(t) ==
    /\ pc[t] = "release"
    /\ Pba!Release("team")
    /\ mem' = [mem EXCEPT ![t] = NoMem]
    /\ Goto(t, "acquire")
    /\ UNCHANGED <<k, ret, local_mem_s, sent, local_mem_p, content, entered, left>>

\* bli_pba_acquire_m( pba, size_needed, pack_buf_type, &local_mem_s ), and
\* the start of the broadcast of &local_mem_s
AcquireNew(t) ==
    /\ pc[t] = "acquire"
    /\ Pba!Acquire("team")
    /\ \E size \in size_needed(t) .. MaxSize :
          local_mem_s' = [live |-> TRUE, mem |-> [block |-> held'["team"], size |-> size]]
    /\ sent' = k[t]
    /\ Barrier(t, "receive")
    /\ UNCHANGED <<k, mem, local_mem_p, content>>

\* The rest of the broadcast.
Receive(t) ==
    /\ pc[t] = "receive"
    /\ local_mem_p' = [local_mem_p EXCEPT ![t] = sent]
    /\ Barrier(t, "copy")
    /\ UNCHANGED <<k, mem, local_mem_s, sent, content, alloc>>

\* Mutants of CopyMem: only the chief copies; the barrier is missing.
CopyByChief(t) ==
    /\ pc[t] = "copy"
    /\ mem' = IF t = 0 THEN [mem EXCEPT ![t] = local_mem_s.mem] ELSE mem
    /\ Barrier(t, "alloced")
    /\ UNCHANGED <<k, local_mem_s, sent, local_mem_p, content, alloc>>

CopyAtOnce(t) ==
    /\ pc[t] = "copy"
    /\ mem' = [mem EXCEPT ![t] = local_mem_s.mem]
    /\ Goto(t, "alloced")
    /\ UNCHANGED <<k, ret, entered, left, local_mem_s, sent, local_mem_p, content, alloc>>

\* *mem_p = *local_mem_p, and the barrier at the end of bli_packm_alloc_ex
CopyMem(t) ==
    /\ pc[t] = "copy"
    /\ mem' = [mem EXCEPT ![t] = local_mem_s.mem]
    /\ Barrier(t, "alloced")
    /\ UNCHANGED <<k, local_mem_s, sent, local_mem_p, content, alloc>>

\* bli_packm_alloc_ex returns, and the chief's local_mem_s is gone.
AllocReturn(t) ==
    /\ pc[t] = "alloced"
    /\ local_mem_s' = IF t = 0 THEN [live |-> FALSE, mem |-> NoMem] ELSE local_mem_s
    /\ Goto(t, "pack")
    /\ UNCHANGED <<k, ret, mem, sent, local_mem_p, content, entered, left, alloc>>

\* The thread packs its panels; the second barrier of bli_packm_int.
PackPanels(t) ==
    /\ pc[t] = "pack"
    /\ content' = [content EXCEPT ![mem[t].block][t] = k[t]]
    /\ Barrier(t, "compute")
    /\ UNCHANGED <<k, node, alloc>>

\* The computation reads the panels that all threads of the team packed.
Compute(t) ==
    /\ pc[t] = "compute"
    /\ Goto(t, "ready")
    /\ UNCHANGED <<k, ret, node, content, entered, left, alloc>>

\* The closing barrier of the thread decorator.
Close(t) ==
    /\ pc[t] = "ready" /\ k[t] = Len(Packs)
    /\ Barrier(t, "free")
    /\ UNCHANGED <<k, node, content, alloc>>

\* bli_thrinfo_free: the chief releases the block, if there is one.
FreeMem(t) ==
    /\ pc[t] = "free"
    /\ IF t = 0 /\ mem[t].block # NULL
         THEN /\ Pba!Release("team")
              /\ mem' = [mem EXCEPT ![t] = NoMem]
         ELSE UNCHANGED <<alloc, mem>>
    /\ Goto(t, "done")
    /\ UNCHANGED <<k, ret, local_mem_s, sent, local_mem_p, content, entered, left>>

-----------------------------------------------------------------------------

Step(t) ==
    \/ Leave(t)
    \/ PackmInt(t) \/ NothingToPack(t) \/ Reuse(t) \/ Replace(t) \/ ReleaseOld(t)
    \/ AcquireNew(t) \/ Receive(t) \/ CopyMem(t) \/ AllocReturn(t) \/ PackPanels(t)
    \/ Compute(t) \/ Close(t) \/ FreeMem(t)

\* The other users of the allocator, and what it does on its own.
OthersPack ==
    /\ held["others"] # NULL
    /\ content' = [content EXCEPT ![held["others"]] = [t \in Members |-> 0]]
    /\ UNCHANGED alloc

Others ==
    /\ \/ OthersPack
       \/ (Pba!Acquire("others") \/ Pba!Release("others")) /\ UNCHANGED content
    /\ UNCHANGED <<pc, k, ret, node, entered, left>>

\* The allocator obtains free blocks and returns them as it sees fit.
Manage ==
    /\ Pba!Manage
    /\ UNCHANGED <<pc, k, ret, node, content, entered, left>>

Next == (\E t \in Members : Step(t)) \/ Others \/ Manage

\* The allocator has a free block again and again: an acquisition that finds
\* none makes one (Pool).  The threads run, and each that can go on again and
\* again does.
Spec ==
    /\ Init /\ [][Next]_vars
    /\ WF_vars(Manage /\ live \subseteq Pba!Held /\ ~(live' \subseteq Pba!Held))
    /\ \A t \in Members : SF_vars(Step(t))

-----------------------------------------------------------------------------

\* A thread packs into, and computes from, the block that the team holds,
\* which is large enough: not one that its own stale mem_t still names after
\* the chief has replaced it.  When the chief is done the team holds none.
BufferIsHeld ==
    \A t \in Members :
        /\ pc[t] \in {"pack", "compute"} /\ size_needed(t) > 0 =>
            /\ mem[t].block = held["team"] /\ mem[t].block \in live
            /\ mem[t].size >= size_needed(t)
        /\ t = 0 /\ pc[t] = "done" => held["team"] = NULL

\* While a thread computes, every panel of the buffer is that of its packing:
\* no peer is late with its part, none has begun to pack the next block and
\* no other team writes there (the comments on both barriers of
\* bli_packm_int).
PackedDataStable ==
    \A t \in Members : pc[t] = "compute" =>
        \A u \in Members : content[mem[t].block][u] = k[t]

\* "Barrier so that the master thread doesn't return from the function before
\* we are done reading": the local mem_t that is copied is that of the call
\* in progress, and has not gone out of scope.
LocalOutlivesReaders ==
    \A t \in Members : pc[t] = "copy" =>
        local_mem_s.live /\ local_mem_p[t] = k[t] /\ k[0] = k[t]

\* Every thread returns from the operation.
AllReturn == <>(\A t \in Members : pc[t] = "done")
=============================================================================
