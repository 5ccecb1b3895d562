------------------------------ MODULE GemmLoops ------------------------------
(***************************************************************************)
(* The loops by which the threads of one level-3 operation update C: the   *)
(* third loop (bli_gemm_blk_var1 and, for the update that follows a solve, *)
(* bli_trsm_blk_var1), in which a thread takes a range of the rows and     *)
(* goes through it block by block, and the second and first loops of the   *)
(* macrokernel (bli_gemm_ker_var2), in which it takes microtiles of the    *)
(* block.  No lock protects C: what each thread updates follows from its   *)
(* place in the team and the arithmetic of ThreadRange alone.              *)
(*                                                                         *)
(* A microtile has MR rows; its NR columns are one column here.            *)
(***************************************************************************)
EXTENDS ThreadRange

CONSTANTS
    NT,         \* number of threads
    Problems    \* what may be executed: records of
                \*   m, n_iter   rows of C, and microtiles in a row of C
                \*   ic, jr, ir  the ways of the three loops
                \*   MR          rows of a microtile, of which ranges and
                \*               blocks are multiples
                \*   b_alg, b_max  the blocksize and its maximum
                \*   backward    the direction (BLIS_BWD)
                \*   tlb         BLIS_ENABLE_JRIR_TLB, else slabs

ASSUME ProblemsAssumption ==
    /\ NT \in Nat \ {0}
    /\ \A p \in Problems :
        /\ {p.m, p.n_iter, p.ic, p.jr, p.ir, p.MR, p.b_alg, p.b_max} \subseteq Nat \ {0}
        /\ p.ic * p.jr * p.ir = NT
        /\ p.b_alg % p.MR = 0 /\ p.b_max % p.MR = 0 /\ p.b_alg <= p.b_max
        /\ {p.backward, p.tlb} \subseteq BOOLEAN

Threads == 0 .. NT - 1

VARIABLES
    p,          \* the problem that is executed
    c,          \* how often each row of each microtile of C was updated
    \* each thread
    pc,
    range,      \* my_start, my_end of the third loop
    i,          \* its index
    b_alg,      \* the size of the block, by which it is advanced
    block,      \* the rows of the block: [off, len]
    ker         \* the indices and bounds of the macrokernel's loops

vars == <<p, c, pc, range, i, b_alg, block, ker>>

\* The thread's work ids at the three nodes of its tree (bli_thrinfo_split).
IcId(t) == t \div (p.jr * p.ir)
JrId(t) == (t % (p.jr * p.ir)) \div p.ir
IrId(t) == t % p.ir

NoBlock == [off |-> 0, len |-> 0]
NoKer == [j |-> 0, i |-> 0, j_end |-> 0, i_end |-> 0, i_next |-> 0, n_ut |-> 0]

Init ==
    /\ p \in Problems
    /\ c = [x \in (0 .. p.m - 1) \X (0 .. p.n_iter - 1) |-> 0]
    /\ pc = [t \in Threads |-> "range"]
    /\ range = [t \in Threads |-> [start |-> 0, end |-> 0]]
    /\ i = [t \in Threads |-> 0]
    /\ b_alg = [t \in Threads |-> 0]
    /\ block = [t \in Threads |-> NoBlock]
    /\ ker = [t \in Threads |-> NoKer]

\* bli_thread_range_mdim, which is bli_thread_range_sub for an A that does
\* not intersect the diagonal or is not weighted.
Range(t) ==
    /\ pc[t] = "range"
    /\ LET r == RangeSub(IcId(t), p.ic, p.m, p.MR, p.backward)
       IN  /\ range' = [range EXCEPT ![t] = r]
           /\ i' = [i EXCEPT ![t] = r.start]
    /\ pc' = [pc EXCEPT ![t] = "block"]
    /\ UNCHANGED <<p, c, b_alg, block, ker>>

\* bli_acquire_mpart_mdim, for SUBPART1: indices of a backward traversal
\* count from the end.
MPart(idx, b) ==
    LET len == IF b > p.m - idx THEN p.m - idx ELSE b
    IN  [off |-> IF p.backward THEN p.m - idx - len ELSE idx, len |-> len]

\* The next iteration of the third loop.
NextBlock(t) ==
    /\ pc[t] = "block" /\ i[t] < range[t].end
    /\ b_alg' = [b_alg EXCEPT ![t] =
            DetermineBlocksize(p.backward, range[t].end - i[t], p.b_alg, p.b_max)]
    /\ block' = [block EXCEPT ![t] = MPart(i[t], b_alg'[t])]
    /\ pc' = [pc EXCEPT ![t] = "kernel"]
    /\ UNCHANGED <<p, c, range, i, ker>>

Finish(t) ==
    /\ pc[t] = "block" /\ i[t] >= range[t].end
    /\ pc' = [pc EXCEPT ![t] = "done"]
    /\ UNCHANGED <<p, c, range, i, b_alg, block, ker>>

\* The macrokernel returns to the third loop.
KernelReturn(t) ==
    /\ pc' = [pc EXCEPT ![t] = "block"]
    /\ i' = [i EXCEPT ![t] = @ + b_alg[t]]
    /\ ker' = [ker EXCEPT ![t] = NoKer]

MIter(t) == (block[t].len + p.MR - 1) \div p.MR

Slabs(t) ==
    LET jr == RangeSub(JrId(t), p.jr, p.n_iter, 1, FALSE)
        ir == RangeSub(IrId(t), p.ir, MIter(t), 1, FALSE)
    IN  [j |-> jr.start, i |-> ir.start, j_end |-> jr.end, i_end |-> ir.end,
         i_next |-> ir.start, n_ut |-> (ir.end - ir.start) * (jr.end - jr.start)]

\* The microtiles of a thread go down the columns, which are whole between
\* its first and its last.  The ways and work ids of the first loop are not
\* queried.
Tiles(t) ==
    LET r == RangeTlb(p.jr, JrId(t), MIter(t), p.n_iter)
    IN  [j |-> r.j, i |-> r.i, j_end |-> p.n_iter, i_end |-> MIter(t),
         i_next |-> 0, n_ut |-> r.n_ut]

\* bli_gemm_ker_var2 up to its loops.
Kernel(t) ==
    /\ pc[t] = "kernel"
    /\ LET k == IF p.tlb THEN Tiles(t) ELSE Slabs(t)
       IN  IF k.n_ut = 0
           THEN KernelReturn(t)
           ELSE /\ ker' = [ker EXCEPT ![t] = k]
                /\ pc' = [pc EXCEPT ![t] = "tile"]
                /\ UNCHANGED i
    /\ UNCHANGED <<p, c, range, b_alg, block>>

\* The rows of C in the microtile that the thread is at.
TileRows(t) ==
    LET first == block[t].off + ker[t].i * p.MR
        limit == block[t].off + block[t].len
    IN  first .. (IF first + p.MR < limit THEN first + p.MR ELSE limit) - 1

\* Mutant of Advance: a column of microtiles starts at the top.
AdvanceToTop(k) ==
    IF k.i + 1 < k.i_end
    THEN [k EXCEPT !.i = @ + 1, !.n_ut = @ - 1]
    ELSE [k EXCEPT !.j = @ + 1, !.i = 0, !.n_ut = @ - 1]

Advance(k) ==
    IF k.i + 1 < k.i_end
    THEN [k EXCEPT !.i = @ + 1, !.n_ut = @ - 1]
    ELSE [k EXCEPT !.j = @ + 1, !.i = k.i_next, !.n_ut = @ - 1]

\* One call of the microkernel, and the step of the loops after it.
Microkernel(t) ==
    /\ pc[t] = "tile"
    /\ c' = [x \in DOMAIN c |->
                IF x[1] \in TileRows(t) /\ x[2] = ker[t].j THEN c[x] + 1 ELSE c[x]]
    /\ LET k == Advance(ker[t])
       IN  IF k.n_ut = 0 \/ k.j >= k.j_end
           THEN KernelReturn(t)
           ELSE ker' = [ker EXCEPT ![t] = k] /\ UNCHANGED <<pc, i>>
    /\ UNCHANGED <<p, range, b_alg, block>>

Step(t) == Range(t) \/ NextBlock(t) \/ Finish(t) \/ Kernel(t) \/ Microkernel(t)

AllDone == \A t \in Threads : pc[t] = "done"

Terminated == AllDone /\ UNCHANGED vars

Next == (\E t \in Threads : Step(t)) \/ Terminated

\* Every thread is a thread of the system, and runs.
Spec == Init /\ [][Next]_vars /\ \A t \in Threads : WF_vars(Step(t))

-----------------------------------------------------------------------------

\* No element of C is updated twice.  An update adds to C: the second one is
\* an error in the result, and nothing keeps the two threads apart.  The
\* comment in bli_thread_range_sub says that it partitions the space.
UpdatedOnce == \A x \in DOMAIN c : c[x] <= 1

\* When the threads are done every element of C has been updated: neither
\* the ranges nor the blocks nor the slabs leave a gap.
AllUpdated == AllDone => \A x \in DOMAIN c : c[x] >= 1

\* No loop runs for ever: a block is never empty while there are rows left.
AllReturn == <>AllDone
=============================================================================
