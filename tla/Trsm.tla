--------------------------------- MODULE Trsm ---------------------------------
(***************************************************************************)
(* The solve of a triangular system from the left, A X = B, by one team:   *)
(* bli_trsm_blk_var3, which goes through the columns of A in blocks of KC  *)
(* and packs the rows of B that belong to the block; bli_trsm_blk_var1,    *)
(* which solves these rows and updates those that are left with them; and  *)
(* the macrokernels bli_trsm_ll_ker_var2 and bli_trsm_lu_ker_var2.         *)
(*                                                                         *)
(* Rows and columns are counted in micropanels, and an element stands for  *)
(* a microtile.  What it holds is a term: which solved rows have been      *)
(* subtracted from it, and whether it has been solved itself.  B is        *)
(* overwritten with X, in C here as in the source.  The packing of A has   *)
(* barriers of its own (Packm); nothing here relies on them.               *)
(***************************************************************************)
EXTENDS ThreadRange

CONSTANTS
    NT,         \* number of threads in the team: the product of the ways
    Solves      \* what may be executed: records of
                \*   m, n           rows and columns of B
                \*   ic, jr, ir     the ways of the loops
                \*   kc, mc         the blocksizes (and maximums)
                \*   backward       A is upper triangular (BLIS_BWD)

Threads == 0 .. NT - 1

VARIABLES
    p,          \* the system that is solved
    c,          \* the elements of B, by row and column
    bp,         \* the packed rows of B, by their place in the block
    \* each thread
    pc,
    calls,      \* the barriers it has called
    kblk,       \* the block of A's columns: [i, off, len]
    range,      \* my_start, my_end of the loop over rows
    i,          \* its index
    blk,        \* the rows of the block: [off, len]
    ker         \* the place of the macrokernel: [j, j_end, r]

vars == <<p, c, bp, pc, calls, kblk, range, i, blk, ker>>

Rows == 0 .. p.m - 1
Cols == 0 .. p.n - 1
Span(x) == x.off .. x.off + x.len - 1

\* The work ids of the thread in ir_loop_trsm and ir_loop_gemm, and in the ic
\* loop (bli_trsm_l_cntl_init, bli_thrinfo_split).
SolveWays == p.ic * p.jr
SolveId(t) == t \div (NT \div SolveWays)
IcId(t) == t \div (p.jr * p.ir)
UpdateWays == p.jr * p.ir
UpdateId(t) == t % UpdateWays

-----------------------------------------------------------------------------
\* Terms

Term(r, sub, solved) == [row |-> r, sub |-> sub, solved |-> solved]

\* What is not a term of the solution, whatever is done with it
Garbled == Term(-1, {}, TRUE)

\* The rows that come before r, which A says must be subtracted from it.
Before(r) == {s \in Rows : IF p.backward THEN s > r ELSE s < r}

Solution(r) == Term(r, Before(r), TRUE)

\* v less the product of A and the rows of the packed block, at the column j
Subtract(v, rows, t, j) ==
    IF /\ ~v.solved /\ v.sub \cap rows = {}
       /\ \A s \in rows : bp[<<s - kblk[t].off, j>>] = Solution(s)
      THEN [v EXCEPT !.sub = @ \cup rows]
      ELSE Garbled

SolveRow(v) ==
    IF ~v.solved /\ v.sub = Before(v.row)
      THEN [v EXCEPT !.solved = TRUE] ELSE Garbled

-----------------------------------------------------------------------------

NoBlock == [off |-> 0, len |-> 0]
NoKer == [j |-> 0, j_end |-> 0, r |-> 0]

Init ==
    /\ p \in Solves
    /\ c = [x \in Rows \X Cols |-> Term(x[1], {}, FALSE)]
    /\ bp = [x \in (0 .. p.kc - 1) \X Cols |-> Garbled]
    /\ pc = [t \in Threads |-> "var3"]
    /\ calls = [t \in Threads |-> 0]
    /\ kblk = [t \in Threads |-> [i |-> 0, off |-> 0, len |-> 0]]
    /\ range = [t \in Threads |-> [start |-> 0, end |-> 0]]
    /\ i = [t \in Threads |-> 0]
    /\ blk = [t \in Threads |-> NoBlock]
    /\ ker = [t \in Threads |-> NoKer]

Goto(t, point) == pc' = [pc EXCEPT ![t] = point]

\* bli_acquire_mpart_mdim for SUBPART1: b rows at the index idx of the part
\* of the matrix that has the rows of x.
MPart(x, idx, b) ==
    LET len == IF b > x.len - idx THEN x.len - idx ELSE b
    IN  [off |-> x.off + (IF p.backward THEN x.len - idx - len ELSE idx), len |-> len]

\* SUBPART1A: what is ahead of the block that the thread has solved.  The
\* rows behind the block are zero in A, and are pruned.
Ahead(t) ==
    LET k == kblk[t]
    IN  IF p.backward THEN [off |-> 0, len |-> k.off]
        ELSE [off |-> k.off + k.len, len |-> p.m - k.off - k.len]

\* The next iteration of bli_trsm_blk_var3, up to the first barrier of the
\* packing of B.
NextKBlock(t) ==
    /\ pc[t] = "var3" /\ kblk[t].i + kblk[t].len < p.m
    /\ LET k == kblk[t].i + kblk[t].len
           b == MPart([off |-> 0, len |-> p.m], k,
                      DetermineBlocksize(p.backward, p.m - k, p.kc, p.kc))
       IN  kblk' = [kblk EXCEPT ![t] = [i |-> k, off |-> b.off, len |-> b.len]]
    /\ calls' = [calls EXCEPT ![t] = @ + 1]
    /\ Goto(t, "pack")
    /\ UNCHANGED <<p, c, bp, range, i, blk, ker>>

Finish(t) ==
    /\ pc[t] = "var3" /\ kblk[t].i + kblk[t].len >= p.m
    /\ Goto(t, "done")
    /\ UNCHANGED <<p, c, bp, calls, kblk, range, i, blk, ker>>

\* Mutant of Released: nobody waits.
NotHeld(t) == TRUE

\* The barrier that the thread has called last has been called by all.
Released(t) == \A u \in Threads : calls[u] >= calls[t]

\* bli_packm_int for B, where each thread packs a slab of the micropanels
\* (here the columns), and its second barrier
Pack(t) ==
    /\ pc[t] = "pack" /\ Released(t)
    /\ LET r == RangeSub(t, NT, p.n, 1, FALSE)
           k == kblk[t]
       IN  bp' = [x \in DOMAIN bp |->
                    IF x[2] \in r.start .. r.end - 1
                      THEN IF x[1] < k.len THEN c[<<k.off + x[1], x[2]>>] ELSE Garbled
                      ELSE bp[x]]
    /\ calls' = [calls EXCEPT ![t] = @ + 1]
    /\ Goto(t, "packed")
    /\ UNCHANGED <<p, c, kblk, range, i, blk, ker>>

\* bli_trsm_blk_var1: all threads iterate over the entire diagonal block.
BeginSolve(t) ==
    /\ pc[t] = "packed" /\ Released(t)
    /\ range' = [range EXCEPT ![t] = [start |-> 0, end |-> kblk[t].len]]
    /\ i' = [i EXCEPT ![t] = 0]
    /\ Goto(t, "solve")
    /\ UNCHANGED <<p, c, bp, calls, kblk, blk, ker>>

\* Mutant of UpdateSlab: all threads share the columns, as in the solve.
UpdateSlabByAll(t) == RangeSub(t, NT, p.n, 1, FALSE)

\* The columns of a thread in the macrokernel, when it solves and when it
\* updates
SolveSlab(t) == RangeSub(SolveId(t), SolveWays, p.n, 1, FALSE)
UpdateSlab(t) == RangeSub(UpdateId(t), UpdateWays, p.n, 1, FALSE)

\* The next block of rows in one of the two loops of bli_trsm_blk_var1, and
\* the macrokernel up to its loops.
NextBlock(t, from, whole, slab, to) ==
    /\ pc[t] = from /\ i[t] < range[t].end
    /\ LET b == DetermineBlocksize(p.backward, range[t].end - i[t], p.mc, p.mc)
           x == MPart(whole, i[t], b)
       IN  /\ i' = [i EXCEPT ![t] = @ + b]
           /\ blk' = [blk EXCEPT ![t] = x]
           /\ IF slab.start = slab.end THEN UNCHANGED <<ker, pc>>
              ELSE /\ ker' = [ker EXCEPT ![t] =
                        [j |-> slab.start, j_end |-> slab.end, r |-> 0]]
                   /\ Goto(t, to)
    /\ UNCHANGED <<p, c, bp, calls, kblk, range>>

NextSolve(t) == NextBlock(t, "solve", kblk[t], SolveSlab(t), "gemmtrsm")
NextUpdate(t) == NextBlock(t, "update", Ahead(t), UpdateSlab(t), "gemm")

\* The row and the column of the microtile that the thread is at: down the
\* columns in bli_trsm_ll_ker_var2, and up in bli_trsm_lu_ker_var2
Row(t) == IF p.backward THEN blk[t].off + blk[t].len - 1 - ker[t].r
          ELSE blk[t].off + ker[t].r

Advance(t, back) ==
    LET k == ker[t]
    IN  IF k.r + 1 < blk[t].len
          THEN ker' = [ker EXCEPT ![t].r = @ + 1] /\ UNCHANGED pc
        ELSE IF k.j + 1 < k.j_end
          THEN ker' = [ker EXCEPT ![t].j = @ + 1, ![t].r = 0] /\ UNCHANGED pc
        ELSE ker' = [ker EXCEPT ![t] = NoKer] /\ Goto(t, back)

\* The gemmtrsm microkernel: it subtracts the rows of the block that come
\* before, solves, and stores the result both in the packed B and in C.
Gemmtrsm(t) ==
    /\ pc[t] = "gemmtrsm"
    /\ LET r == Row(t)
           j == ker[t].j
           at == <<r - kblk[t].off, j>>
           x == SolveRow(Subtract(bp[at], Before(r) \cap Span(kblk[t]), t, j))
       IN  /\ bp' = [bp EXCEPT ![at] = x]
           /\ c' = [c EXCEPT ![<<r, j>>] = x]
    /\ Advance(t, "solve")
    /\ UNCHANGED <<p, calls, kblk, range, i, blk>>

\* The barrier "because the upcoming rank-k update requires the packed matrix
\* B to be fully updated by the trsm subproblem"
EndSolve(t) ==
    /\ pc[t] = "solve" /\ i[t] >= range[t].end
    /\ calls' = [calls EXCEPT ![t] = @ + 1]
    /\ Goto(t, "solved")
    /\ UNCHANGED <<p, c, bp, kblk, range, i, blk, ker>>

\* The thread's range of the rows that are left.
BeginUpdate(t) ==
    /\ pc[t] = "solved" /\ Released(t)
    /\ LET r == RangeSub(IcId(t), p.ic, Ahead(t).len, 1, p.backward)
       IN  /\ range' = [range EXCEPT ![t] = r]
           /\ i' = [i EXCEPT ![t] = r.start]
    /\ Goto(t, "update")
    /\ UNCHANGED <<p, c, bp, calls, kblk, blk, ker>>

\* The gemm microkernel: the whole block of B is subtracted from a row that
\* is not in the block.
Gemm(t) ==
    /\ pc[t] = "gemm"
    /\ LET x == <<Row(t), ker[t].j>>
       IN  c' = [c EXCEPT ![x] = Subtract(@, Span(kblk[t]), t, ker[t].j)]
    /\ Advance(t, "update")
    /\ UNCHANGED <<p, bp, calls, kblk, range, i, blk>>

EndUpdate(t) ==
    /\ pc[t] = "update" /\ i[t] >= range[t].end
    /\ Goto(t, "var3")
    /\ UNCHANGED <<p, c, bp, calls, kblk, range, i, blk, ker>>

Step(t) ==
    \/ NextKBlock(t) \/ Finish(t) \/ Pack(t)
    \/ BeginSolve(t) \/ NextSolve(t) \/ Gemmtrsm(t) \/ EndSolve(t)
    \/ BeginUpdate(t) \/ NextUpdate(t) \/ Gemm(t) \/ EndUpdate(t)

AllDone == \A t \in Threads : pc[t] = "done"

Terminated == AllDone /\ UNCHANGED vars

Next == (\E t \in Threads : Step(t)) \/ Terminated

\* Every thread is a thread of the system, and runs.
Spec == Init /\ [][Next]_vars /\ \A t \in Threads : WF_vars(Step(t))

-----------------------------------------------------------------------------

\* No microtile is ever solved before every row above it has been subtracted,
\* solved twice, or updated with rows that are not solved or with a packed
\* block that is not the one the thread works on: three barriers for each
\* block of KC and the ways of the loops keep the threads apart
\* (bli_trsm_blk_var1.c:119-122, bli_packm_int.c:50-64).
NeverGarbled == \A x \in DOMAIN c : c[x] # Garbled

\* What the operation computes: the threads come to their end, and then every
\* element of B is the solution.
SolutionComputed == <>(AllDone /\ \A x \in DOMAIN c : c[x] = Solution(x[1]))
=============================================================================
