----------------------------- MODULE ThreadRange -----------------------------
(***************************************************************************)
(* The arithmetic by which the threads of a team divide a loop among them  *)
(* (src/frame/thread/bli_thread_range.c, bli_thread_range_tlb.c), and by   *)
(* which a thread divides its range into blocks (base/bli_blksz.c).        *)
(***************************************************************************)
EXTENDS Integers

\* Mutant of RangeSub: the remainders are given to no thread.
RangeWithoutRemainders(work_id, n_way, n, bf, handle_edge_low) ==
    LET size == ((n \div bf) \div n_way) * bf
    IN  [start |-> work_id * size, end |-> (work_id + 1) * size]

(***************************************************************************)
(* bli_thread_range_sub: the range start .. end - 1 of the thread work_id  *)
(* of n_way.  n is divided into blocks of bf; the threads at one end get   *)
(* one block more than the others if the blocks cannot be divided evenly,  *)
(* and the last thread, or the first, gets the edge of n % bf.             *)
(***************************************************************************)
RangeSubN(work_id, n_way, n_bf, n_th_more, n_bf_left, bf, handle_edge_low) ==
    LET size == n_bf * bf               \* the rows of n_bf whole blocks
        size_more == (n_bf + 1) * bf
        n_th_lo == IF handle_edge_low THEN n_way - n_th_more ELSE n_th_more
        size_lo == IF handle_edge_low THEN size ELSE size_more
        size_hi == IF handle_edge_low THEN size_more ELSE size
        edge_lo == IF handle_edge_low THEN n_bf_left ELSE 0
        hi_start == (n_th_lo * size_lo) + edge_lo
        th_hi == work_id - n_th_lo
    IN  IF work_id < n_th_lo
        THEN [start |-> (work_id * size_lo) + (IF work_id = 0 THEN 0 ELSE edge_lo),
              end |-> ((work_id + 1) * size_lo) + edge_lo]
        ELSE [start |-> hi_start + (th_hi * size_hi),
              end |-> hi_start + ((th_hi + 1) * size_hi)
                        + (IF work_id = n_way - 1 THEN n_bf_left - edge_lo ELSE 0)]

RangeSub(work_id, n_way, n, bf, handle_edge_low) ==
    IF n_way = 1 THEN [start |-> 0, end |-> n]
    ELSE RangeSubN(work_id, n_way, (n \div bf) \div n_way, (n \div bf) % n_way,
                   n % bf, bf, handle_edge_low)

\* bli_thread_range_tlb_d: the number of microtiles of a thread, and its
\* first one.  Microtiles are counted down the columns.
RangeTlb(nt, tid, m_iter, n_iter) ==
    LET n_ut_per_thr == (m_iter * n_iter) \div nt
        n_ut_pt_left == (m_iter * n_iter) % nt
        n_ut_before ==
            tid * n_ut_per_thr + (IF tid < n_ut_pt_left THEN tid ELSE n_ut_pt_left)
    IN  [n_ut |-> n_ut_per_thr + (IF tid < n_ut_pt_left THEN 1 ELSE 0),
         j |-> n_ut_before \div m_iter,
         i |-> n_ut_before % m_iter]

\* Mutant of DetermineBlocksize: < for <=.
DetermineBlocksizeStrict(backward, dim_left, b_alg, b_max) ==
    LET dim_at_edge == dim_left % b_alg
    IN  IF backward
        THEN IF b_alg + dim_at_edge < b_max THEN b_alg + dim_at_edge ELSE dim_at_edge
        ELSE IF dim_left < b_max THEN dim_left ELSE b_alg

\* bli_determine_blocksize: the size of the next block, where dim_left is
\* what is left of the dimension.
DetermineBlocksize(backward, dim_left, b_alg, b_max) ==
    LET dim_at_edge == dim_left % b_alg
    IN  IF backward
        THEN IF b_alg + dim_at_edge <= b_max THEN b_alg + dim_at_edge ELSE dim_at_edge
        ELSE IF dim_left <= b_max THEN dim_left ELSE b_alg
=============================================================================
