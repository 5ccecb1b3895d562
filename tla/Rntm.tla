-------------------------------- MODULE Rntm --------------------------------
(***************************************************************************)
(* The runtime object rntm_t of src/frame/base/bli_rntm.c, as a record, and*)
(* the functions that set it, bring it into a consistent state, and factor *)
(* a number of threads into ways of parallelism, one for each loop.  The   *)
(* ways of the pc and pr loops are left out: every setter stores 1 there.  *)
(***************************************************************************)
EXTENDS Integers

CONSTANTS
    RatioM, RatioN,     \* BLIS_THREAD_RATIO_M, _N
    MaxIR, MaxJR,       \* BLIS_THREAD_MAX_IR, _JR
    NTMaxPrime          \* BLIS_NT_MAX_PRIME

ASSUME RntmAssumption ==
    {RatioM, RatioN, MaxIR, MaxJR, NTMaxPrime} \subseteq Nat \ {0}

Impls == {"single", "openmp", "posix"}

\* rntm_t
RntmType ==
    [ti : Impls, af : BOOLEAN, nt : Int, jc : Int, ic : Int, jr : Int, ir : Int]

\* BLIS_RNTM_INITIALIZER
Initializer == [ti |-> "single", af |-> FALSE, nt |-> 1,
                jc |-> 1, ic |-> 1, jr |-> 1, ir |-> 1]

\* bli_rntm_calc_num_threads
CalcNumThreads(r) == r.jc * r.ic * r.jr * r.ir

WithWays(r, jc, ic, jr, ir) ==
    [r EXCEPT !.jc = jc, !.ic = ic, !.jr = jr, !.ir = ir]

ClearWays(r) == WithWays(r, 1, 1, 1, 1)

AtLeast1(x) == IF x < 1 THEN 1 ELSE x

-----------------------------------------------------------------------------

\* Mutant of Sanitize: the ways do not prevail over the number of threads.
SanitizeBoth(r) ==
    LET w == WithWays(r, AtLeast1(r.jc), AtLeast1(r.ic),
                         AtLeast1(r.jr), AtLeast1(r.ir))
        nt == AtLeast1(r.nt)
        ways_set == CalcNumThreads(w) > 1
    IN IF r.ti = "single"
         THEN [ClearWays(r) EXCEPT !.nt = 1, !.af = FALSE]
         ELSE [w EXCEPT !.nt = nt, !.af = ~ways_set /\ nt > 1]

\* bli_rntm_sanitize: a single-threaded implementation overrides everything
\* else, and ways that are set override the number of threads.
Sanitize(r) ==
    LET w == WithWays(r, AtLeast1(r.jc), AtLeast1(r.ic),
                         AtLeast1(r.jr), AtLeast1(r.ir))
        nt == AtLeast1(r.nt)
        ways_set == CalcNumThreads(w) > 1
    IN IF r.ti = "single"
         THEN [ClearWays(r) EXCEPT !.nt = 1, !.af = FALSE]
         ELSE [w EXCEPT !.nt = IF ways_set THEN CalcNumThreads(w) ELSE nt,
                        !.af = ~ways_set /\ nt > 1]

\* bli_rntm_set_num_threads and bli_rntm_set_ways, for a rntm_t of the user
SetNumThreads(nt, r) == Sanitize(ClearWays([r EXCEPT !.nt = nt]))

SetWays(jc, ic, jr, ir, r) ==
    Sanitize([WithWays(r, jc, ic, jr, ir) EXCEPT !.nt = 1])

\* bli_rntm_set_thread_impl and bli_thread_set_thread_impl do not sanitize.
SetThreadImpl(ti, r) == [r EXCEPT !.ti = ti]

\* bli_thread_set_num_threads and bli_thread_set_ways, for the global one:
\* neither clears what the other has set.
GlobalSetNumThreads(nt, r) == Sanitize([r EXCEPT !.nt = nt])

GlobalSetWays(jc, ic, jr, ir, r) == Sanitize(WithWays(r, jc, ic, jr, ir))

\* bli_rntm_init_from_env, with what it reads of the environment (-1 where
\* a variable is not set).
FromEnv(ti, nt, jc, ic, jr, ir) ==
    Sanitize([WithWays(Initializer, jc, ic, jr, ir) EXCEPT !.ti = ti, !.nt = nt])

-----------------------------------------------------------------------------

\* bli_next_prime_factor: the least factor of what is left of a number
\* whose square root (rounded down) was sqrt, or all that is left; 1 at the
\* end.  The loop goes on from the factor before, which is no different.
NextPrimeFactor(left, sqrt) ==
    LET divides == {f \in 2 .. sqrt : left % f = 0}
    IN IF divides = {} THEN left
       ELSE CHOOSE f \in divides : \A g \in divides : f <= g

Sqrt(n) == CHOOSE s \in 0 .. n : s * s <= n /\ n < (s + 1) * (s + 1)

IsPrime(n) == NextPrimeFactor(n, Sqrt(n)) = n

\* The loop of bli_thread_partition_2x2_fast, by what it works on: the
\* bli_prime_factors_t, and for each side its work and its threads.
Assignments ==
    [left : Nat \ {0}, sqrt : Nat, w1 : Nat, w2 : Nat,
     nt1 : Nat \ {0}, nt2 : Nat \ {0}]

NextFactor(p) == NextPrimeFactor(p.left, p.sqrt)

\* Each prime factor goes to the side with more work for each thread so far.
AssignFactor(p) ==
    LET f == NextFactor(p)
    IN IF p.w1 > p.w2
         THEN [p EXCEPT !.left = @ \div f, !.w1 = @ \div f, !.nt1 = @ * f]
         ELSE [p EXCEPT !.left = @ \div f, !.w2 = @ \div f, !.nt2 = @ * f]

Assigned[p \in Assignments] ==
    IF NextFactor(p) = 1 THEN p ELSE Assigned[AssignFactor(p)]

AssignFactors(n, w1, w2) ==
    Assigned[[left |-> n, sqrt |-> Sqrt(n), w1 |-> w1, w2 |-> w2,
              nt1 |-> 1, nt2 |-> 1]]

Abs(x) == IF x < 0 THEN -x ELSE x

\* Its end: a factor of 2 changes sides if that balances the work better.
Rebalanced(p) ==
    IF /\ p.w1 > p.w2 /\ p.nt2 % 2 = 0
       /\ Abs(p.w1 \div 2 - p.w2 * 2) < p.w1 - p.w2
      THEN [p EXCEPT !.nt1 = @ * 2, !.nt2 = @ \div 2]
    ELSE IF /\ p.w1 < p.w2 /\ p.nt1 % 2 = 0
            /\ Abs(p.w2 \div 2 - p.w1 * 2) < p.w2 - p.w1
      THEN [p EXCEPT !.nt1 = @ \div 2, !.nt2 = @ * 2]
    ELSE p

\* bli_thread_partition_2x2
Partition2x2(n, w1, w2) ==
    IF n < 4
      THEN [w1 |-> w1, w2 |-> w2, nt1 |-> IF w1 >= w2 THEN n ELSE 1,
            nt2 |-> IF w1 < w2 THEN n ELSE 1]
      ELSE Rebalanced(AssignFactors(n, w1, w2))

\* The first of max, max - 1, ..., 1 that divides n
LargestDivisor(n, max) ==
    CHOOSE d \in 1 .. max : n % d = 0 /\ \A e \in d + 1 .. max : n % e # 0

\* A prime number of threads above the limit is reduced by one, so that it
\* can be factored at all (BLIS_DISABLE_AUTO_PRIME_NUM_THREADS, the default).
Reduced(nt) == IF NTMaxPrime < nt /\ IsPrime(nt) THEN nt - 1 ELSE nt

\* bli_rntm_factorize, for an operation on an m x n matrix C
Factorize(m, n, r) ==
    LET nt == Reduced(r.nt)
        p == Partition2x2(nt, m * RatioM, n * RatioN)
        ir == LargestDivisor(p.nt1, MaxIR)
        jr == LargestDivisor(p.nt2, MaxJR)
    IN IF r.af /\ m > 0 /\ n > 0
         THEN [WithWays(r, p.nt2 \div jr, p.nt1 \div ir, jr, ir)
                 EXCEPT !.nt = nt]
         ELSE r

\* bli_rntm_factorize_sup
FactorizeSup(m, n, r) ==
    LET nt == Reduced(r.nt)
        p == Partition2x2(nt, m, n)
    IN IF r.af /\ m > 0 /\ n > 0
         THEN [WithWays(r, p.nt2, p.nt1, 1, 1) EXCEPT !.nt = nt]
         ELSE r

-----------------------------------------------------------------------------

\* What a rntm_t promises an operation: after the factorization, the ways of
\* parallelism multiply to the number of threads.  Stated for a set of
\* thread numbers and sizes.
FactorsMultiply(numbers, sizes) ==
    \A nt \in numbers, m, n \in sizes :
        LET r == SetNumThreads(nt, [Initializer EXCEPT !.ti = "posix"])
            f == Factorize(m, n, r)
            s == FactorizeSup(m, n, r)
        IN /\ CalcNumThreads(f) = f.nt /\ CalcNumThreads(s) = s.nt
           /\ f.nt \in {nt, nt - 1} /\ s.nt = f.nt
=============================================================================
