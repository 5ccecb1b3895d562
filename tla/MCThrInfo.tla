----------------------------- MODULE MCThrInfo -----------------------------
\* The operations of the ThrInfo runs, with four threads.
EXTENDS ThrInfo

\* A trsm: the tree that bli_l3_thrinfo_grow makes of the control tree of
\* bli_trsm_l_cntl_init, whose ic node has two sub-nodes that parallelize
\* differently.
TrsmTree(jc, ic, jr) ==
    << [par |->  1, way |-> jc],            \*  2: part_pc
       [par |->  2, way |-> 1],             \*  3: pack_b
       [par |->  3, way |-> 1],             \*  4: part_ic
       [par |->  4, way |-> 1],             \*  5: pack_a_trsm, its sub-node 0
       [par |->  5, way |-> 1],             \*  6: trsm_ker
       [par |->  6, way |-> ic * jr],       \*  7: ir_loop_trsm
       [par |->  7, way |-> 1],             \*  8: its leaf
       [par |->  4, way |-> ic],            \*  9: pack_a_gemm, its sub-node 1
       [par |->  9, way |-> 1],             \* 10: gemm_ker
       [par |-> 10, way |-> jr],            \* 11: ir_loop_gemm
       [par |-> 11, way |-> 1] >>           \* 12: its leaf

\* The barriers of packing B, and of packing A in the gemm branch.
Trsm == [trees |-> <<TrsmTree(1, 2, 2)>>, work |-> <<3, 9>>]

\* A sup operation.  bli_rntm_factorize_sup has chosen 2 ways in jc and in ic;
\* the handler chooses again, in micropanels, and bli_l3_sup_thrinfo_update
\* regrows the tree, here with the same ways: bli_l3_sup_thrinfo_grow makes a
\* chain of the jc, pc, pb, ic, pa, jr, ir nodes.
SupTree(jc, ic) ==
    LET ways == <<jc, 1, 1, ic, 1, 1, 1>>
    IN  [i \in 1 .. 7 |-> [par |-> i, way |-> ways[i]]]

Sup == [trees |-> <<SupTree(2, 2), SupTree(2, 2)>>, work |-> <<2>>]

BothOperations == {Trsm, Sup}
SupOnly == {Sup}
=============================================================================
