----------------------------- MODULE MCGemmLoops -----------------------------
(***************************************************************************)
(* Four threads that execute the loops of a gemm, or the solve of a trsm.  *)
(* The variables of the other operation stand still, as if it were done.   *)
(***************************************************************************)
EXTENDS GemmLoops

\* Ways of the ic, jr and ir loops.
Ways == {<<4, 1, 1>>, <<2, 2, 1>>, <<2, 1, 2>>, <<1, 2, 2>>}

Problem(m, n_iter, ways, b_alg_def, b_alg_max, backward_, tlb_) ==
    [m |-> m, n_iter |-> n_iter, ic |-> ways[1], jr |-> ways[2], ir |-> ways[3],
     MR |-> 2, b_alg |-> b_alg_def, b_max |-> b_alg_max, backward |-> backward_,
     tlb |-> tlb_]

\* Forwards with and without a maximum above the blocksize, backwards
\* without; slabs with all ways, tiles without the first loop's.
Correct ==
    UNION {
        {Problem(m, 1, w, 4, b_max, FALSE, FALSE) :
            m \in {1, 7}, w \in Ways, b_max \in {4, 6}},
        {Problem(m, 1, w, 4, 4, TRUE, FALSE) : m \in {1, 7}, w \in Ways},
        {Problem(19, 1, <<4, 1, 1>>, 2, 4, FALSE, FALSE),
         Problem(19, 1, <<4, 1, 1>>, 4, 4, TRUE, FALSE),
         Problem(6, 3, <<1, 2, 2>>, 6, 6, FALSE, FALSE),
         Problem(6, 3, <<2, 2, 1>>, 6, 6, TRUE, FALSE)},
        {Problem(m, 3, w, 6, 6, FALSE, TRUE) :
            m \in {3, 5}, w \in {<<1, 4, 1>>, <<2, 2, 1>>}} }

\* The MC of knl, 120 with a maximum of 144 and MR = 24, in units of 12 rows,
\* backwards in the update of a trsm with an upper triangular A.
BackwardMax ==
    {[m |-> 8, n_iter |-> 1, ic |-> 4, jr |-> 1, ir |-> 1, MR |-> 2,
      b_alg |-> 10, b_max |-> 12, backward |-> TRUE, tlb |-> FALSE]}

-----------------------------------------------------------------------------

CONSTANT Solves     \* systems that a trsm may solve

ASSUME SolvesAssumption ==
    \A s \in Solves :
        /\ {s.m, s.n, s.ic, s.jr, s.ir, s.kc, s.mc} \subseteq Nat \ {0}
        /\ s.ic * s.jr * s.ir = NT
        /\ s.backward \in BOOLEAN

VARIABLES
    trsm_p, trsm_c, trsm_bp, trsm_pc, trsm_calls, trsm_kblk, trsm_range,
    trsm_i, trsm_blk, trsm_ker

trsm_vars ==
    <<trsm_p, trsm_c, trsm_bp, trsm_pc, trsm_calls, trsm_kblk, trsm_range,
      trsm_i, trsm_blk, trsm_ker>>
MCvars == <<vars, trsm_vars>>

Solve == INSTANCE Trsm WITH
    p <- trsm_p, c <- trsm_c, bp <- trsm_bp, pc <- trsm_pc,
    calls <- trsm_calls, kblk <- trsm_kblk, range <- trsm_range, i <- trsm_i,
    blk <- trsm_blk, ker <- trsm_ker

GemmIdle ==
    /\ p = <<>> /\ c = <<>>
    /\ pc = [t \in Threads |-> "done"]
    /\ range = <<>> /\ i = <<>> /\ b_alg = <<>> /\ block = <<>> /\ ker = <<>>

TrsmIdle ==
    /\ trsm_p = <<>> /\ trsm_c = <<>> /\ trsm_bp = <<>>
    /\ trsm_pc = [t \in Threads |-> "done"]
    /\ trsm_calls = <<>> /\ trsm_kblk = <<>> /\ trsm_range = <<>>
    /\ trsm_i = <<>> /\ trsm_blk = <<>> /\ trsm_ker = <<>>

MCInit == (Init /\ TrsmIdle) \/ (Solve!Init /\ GemmIdle)

MCStep(t) ==
    \/ Step(t) /\ UNCHANGED trsm_vars
    \/ Solve!Step(t) /\ UNCHANGED vars

MCTerminated == AllDone /\ Solve!AllDone /\ UNCHANGED MCvars

SomeStep == \E t \in Threads : MCStep(t)

MCNext == SomeStep \/ MCTerminated

\* Every step of a thread brings it nearer to its end, so it is enough that
\* some thread that can go on does.
MCSpec == MCInit /\ [][MCNext]_MCvars /\ WF_MCvars(SomeStep)

\* A system of m by n micropanels, with ways of the ic, jr and ir loops.
System(m, n, ways, kc, mc, backward_) ==
    [m |-> m, n |-> n, ic |-> ways[1], jr |-> ways[2], ir |-> ways[3],
     kc |-> kc, mc |-> mc, backward |-> backward_]

\* A lower and an upper triangular A of five rows, the last block of which is
\* smaller, and one whose blocks of KC are blocks of MC and more.
\* There are fewer columns than threads, and more.
Systems ==
    UNION {
        {System(5, 3, w, 2, 2, b) :
            w \in {<<4, 1, 1>>, <<1, 4, 1>>, <<2, 2, 1>>}, b \in BOOLEAN},
        {System(4, 2, <<2, 2, 1>>, 3, 2, b) : b \in BOOLEAN},
        {System(2, 6, <<2, 2, 1>>, 1, 1, TRUE)} }

\* Two ways of the ir loop.
FirstLoopSystems == {System(2, 2, <<1, 2, 2>>, 2, 2, FALSE)}

None == {}

-----------------------------------------------------------------------------

\* No microtile of a trsm is ever computed from what is not ready.
SolvesNeverGarbled == Solve!NeverGarbled

\* A trsm computes its solution.
SolutionComputed == Solve!SolutionComputed

=============================================================================
