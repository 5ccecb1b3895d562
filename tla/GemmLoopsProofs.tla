--------------------------- MODULE GemmLoopsProofs ---------------------------
(***************************************************************************)
(* Theorems about the arithmetic of ThreadRange, for every dimension,      *)
(* block factor, blocksize and number of threads, in both directions, and  *)
(* about the loops of GemmLoops that use it to keep threads apart; and     *)
(* about the solve of Trsm, which needs its barriers as well.              *)
(***************************************************************************)
EXTENDS MCGemmLoops, WellFoundedInduction, TLAPS

\* Division, as the solver is to know it.
LEMMA DivMod ==
    ASSUME NEW a \in Nat, NEW b \in Nat \ {0}
    PROVE  /\ a \div b \in Nat
           /\ a % b \in 0 .. b - 1
           /\ a = b * (a \div b) + (a % b)
BY SMT

LEMMA Product ==
    /\ \A a, b \in Nat : a * b \in Nat
    /\ \A a, b \in Int : a * b \in Int
BY SMT

LEMMA ProductMonotone ==
    ASSUME NEW a \in Nat, NEW b \in Nat, NEW k \in Nat, a <= b
    PROVE  a * k <= b * k
BY SMT

LEMMA Distribute ==
    ASSUME NEW a \in Int, NEW b \in Int, NEW k \in Int
    PROVE  (a + b) * k = (a * k) + (b * k)
BY SMT

LEMMA LeastElement ==
    ASSUME NEW T \in SUBSET Nat, T # {}
    PROVE  \E x \in T : \A y \in T : x <= y
<1>1. PICK x \in T : \A y \in T : ~ (<<y, x>> \in OpToRel(<, Nat))
  BY WFMin, NatLessThanWellFounded, Zenon
<1>2. \A y \in T : ~ (y < x)
  BY <1>1, Zenon DEF OpToRel
<1> QED  BY <1>2, SMT
-----------------------------------------------------------------------------
(***************************************************************************)
(* The cuts between the ranges, in closed form: thread w has Cut(w) to     *)
(* Cut(w + 1) - 1.  Before the cut w there are w shares of the blocks that *)
(* every thread has, Extra blocks of those that some have in addition, and *)
(* the edge if it is below.                                                *)
(***************************************************************************)
Extra(w, n_way, more, low) ==
    IF low THEN (IF w < n_way - more THEN 0 ELSE w - (n_way - more))
           ELSE (IF w < more THEN w ELSE more)

Edge(w, n_way, left, low) ==
    IF low THEN (IF w = 0 THEN 0 ELSE left) ELSE (IF w = n_way THEN left ELSE 0)

Cut(w, n_way, each, more, left, bf, low) ==
    (w * (each * bf)) + (Extra(w, n_way, more, low) * bf) + Edge(w, n_way, left, low)

\* The cuts are those that bli_thread_range_sub computes.
LEMMA RangesAreCuts ==
    ASSUME NEW n_way \in Nat \ {0}, NEW each \in Nat, NEW more \in 0 .. n_way - 1,
           NEW bf \in Nat \ {0}, NEW left \in 0 .. bf - 1, NEW low \in BOOLEAN,
           NEW w \in 0 .. n_way - 1
    PROVE  RangeSubN(w, n_way, each, more, left, bf, low)
               = [start |-> Cut(w, n_way, each, more, left, bf, low),
                  end |-> Cut(w + 1, n_way, each, more, left, bf, low)]
<1> DEFINE size == each * bf
           lo == IF low THEN n_way - more ELSE more
<1>1. size \in Nat
  BY Product
<1>2. (each + 1) * bf = size + bf
  BY Distribute, SMT
<1>3. lo \in Nat /\ lo <= n_way
  BY SMT
<1>4. w \in Nat /\ w + 1 \in Nat /\ bf \in Nat /\ left \in Nat
  OBVIOUS
<1> HIDE DEF size, lo
<1>5. /\ (w + 1) * size = (w * size) + size
      /\ (w + 1) * bf = (w * bf) + bf
      /\ w * (size + bf) = (w * size) + (w * bf)
      /\ (w + 1) * (size + bf) = (w * size) + (w * bf) + size + bf
      /\ lo * (size + bf) = (lo * size) + (lo * bf)
  BY <1>1, <1>3, <1>4, SMT
<1>6. /\ (w - lo) * size = (w * size) - (lo * size)
      /\ (w - lo) * bf = (w * bf) - (lo * bf)
      /\ (w - lo) * (size + bf) = (w * size) - (lo * size) + (w * bf) - (lo * bf)
      /\ (w - lo + 1) * size = (w * size) - (lo * size) + size
      /\ (w - lo + 1) * bf = (w * bf) - (lo * bf) + bf
      /\ (w - lo + 1) * (size + bf)
            = (w * size) - (lo * size) + (w * bf) - (lo * bf) + size + bf
  BY <1>1, <1>3, <1>4, SMT
<1>7. CASE low = FALSE
  <2>1. lo = more
    BY <1>7 DEF lo
  <2>2. CASE w < more
    BY <1>2, <1>4, <1>5, <1>7, <2>1, <2>2, SMT DEF size, RangeSubN, Cut, Extra, Edge
  <2>3. CASE w >= more
    BY <1>2, <1>4, <1>5, <1>6, <1>7, <2>1, <2>3, SMT DEF size, RangeSubN, Cut, Extra, Edge
  <2> QED
    BY <1>4, <2>2, <2>3, SMT
<1>8. CASE low = TRUE
  <2>1. lo = n_way - more
    BY <1>8 DEF lo
  <2>2. CASE w < lo
    BY <1>2, <1>4, <1>5, <1>8, <2>1, <2>2, SMT DEF size, RangeSubN, Cut, Extra, Edge
  <2>3. CASE w >= lo
    BY <1>2, <1>4, <1>5, <1>6, <1>8, <2>1, <2>3, SMT DEF size, RangeSubN, Cut, Extra, Edge
  <2> QED
    BY <1>3, <1>4, <2>2, <2>3, SMT
<1> QED  BY <1>7, <1>8

\* The first range begins at 0, and the last one ends with the dimension.
LEMMA CutEnds ==
    ASSUME NEW n_way \in Nat \ {0}, NEW each \in Nat, NEW more \in 0 .. n_way - 1,
           NEW bf \in Nat \ {0}, NEW left \in 0 .. bf - 1, NEW low \in BOOLEAN
    PROVE  /\ Cut(0, n_way, each, more, left, bf, low) = 0
           /\ Cut(n_way, n_way, each, more, left, bf, low)
                = (bf * ((n_way * each) + more)) + left
<1>1. Extra(0, n_way, more, low) = 0 /\ Extra(n_way, n_way, more, low) = more
  BY SMT DEF Extra
<1>2. Edge(0, n_way, left, low) = 0 /\ Edge(n_way, n_way, left, low) = left
  BY SMT DEF Edge
<1> QED  BY <1>1, <1>2, SMT DEF Cut

\* The cuts are in order.
LEMMA CutMonotone ==
    ASSUME NEW n_way \in Nat \ {0}, NEW each \in Nat, NEW more \in 0 .. n_way - 1,
           NEW bf \in Nat \ {0}, NEW left \in 0 .. bf - 1, NEW low \in BOOLEAN,
           NEW v \in 0 .. n_way, NEW w \in 0 .. n_way, v <= w
    PROVE  /\ Cut(v, n_way, each, more, left, bf, low) \in Nat
           /\ Cut(v, n_way, each, more, left, bf, low)
                <= Cut(w, n_way, each, more, left, bf, low)
<1> DEFINE size == each * bf
           xv == Extra(v, n_way, more, low)
           xw == Extra(w, n_way, more, low)
<1>1. size \in Nat
  BY Product
<1>2. xv \in Nat /\ xw \in Nat /\ xv <= xw
  BY SMT DEF Extra
<1>3. /\ Edge(v, n_way, left, low) \in Nat /\ Edge(w, n_way, left, low) \in Nat
      /\ Edge(v, n_way, left, low) <= Edge(w, n_way, left, low)
  BY SMT DEF Edge
<1>4. v \in Nat /\ w \in Nat /\ bf \in Nat
  OBVIOUS
<1> HIDE DEF size, xv, xw
<1>5. v * size \in Nat /\ w * size \in Nat /\ v * size <= w * size
  BY <1>1, <1>4, Product, ProductMonotone
<1>6. xv * bf \in Nat /\ xw * bf \in Nat /\ xv * bf <= xw * bf
  BY <1>2, <1>4, Product, ProductMonotone
<1>7. /\ Cut(v, n_way, each, more, left, bf, low)
            = (v * size) + (xv * bf) + Edge(v, n_way, left, low)
      /\ Cut(w, n_way, each, more, left, bf, low)
            = (w * size) + (xw * bf) + Edge(w, n_way, left, low)
  BY DEF Cut, size, xv, xw
<1> QED  BY <1>3, <1>5, <1>6, <1>7, SMT

-----------------------------------------------------------------------------

\* The cuts of RangeSub, for any number of ways.
RangeCut(w, n_way, n, bf, low) ==
    Cut(w, n_way, (n \div bf) \div n_way, (n \div bf) % n_way, n % bf, bf, low)

LEMMA Parts ==
    ASSUME NEW n_way \in Nat \ {0}, NEW n \in Nat, NEW bf \in Nat \ {0}
    PROVE  /\ (n \div bf) \div n_way \in Nat
           /\ (n \div bf) % n_way \in 0 .. n_way - 1
           /\ n % bf \in 0 .. bf - 1
           /\ n = (bf * ((n_way * ((n \div bf) \div n_way)) + ((n \div bf) % n_way))) + (n % bf)
<1> DEFINE blocks == n \div bf
<1>1. blocks \in Nat /\ n % bf \in 0 .. bf - 1 /\ n = (bf * blocks) + (n % bf)
  BY DivMod
<1> HIDE DEF blocks
<1>2. /\ blocks \div n_way \in Nat /\ blocks % n_way \in 0 .. n_way - 1
      /\ blocks = (n_way * (blocks \div n_way)) + (blocks % n_way)
  BY <1>1, DivMod
<1> QED  BY <1>1, <1>2 DEF blocks

LEMMA RangeCutEnds ==
    ASSUME NEW n_way \in Nat \ {0}, NEW n \in Nat, NEW bf \in Nat \ {0},
           NEW low \in BOOLEAN
    PROVE  RangeCut(0, n_way, n, bf, low) = 0 /\ RangeCut(n_way, n_way, n, bf, low) = n
<1> DEFINE left == n % bf
           each == (n \div bf) \div n_way
           more == (n \div bf) % n_way
<1>1. /\ each \in Nat /\ more \in 0 .. n_way - 1 /\ left \in 0 .. bf - 1
      /\ n = (bf * ((n_way * each) + more)) + left
  BY Parts
<1>2. \A w : RangeCut(w, n_way, n, bf, low) = Cut(w, n_way, each, more, left, bf, low)
  BY DEF RangeCut
<1> HIDE DEF left, each, more
<1> QED  BY <1>1, <1>2, CutEnds

LEMMA RangeCutMonotone ==
    ASSUME NEW n_way \in Nat \ {0}, NEW n \in Nat, NEW bf \in Nat \ {0},
           NEW low \in BOOLEAN,
           NEW v \in 0 .. n_way, NEW w \in 0 .. n_way, v <= w
    PROVE  /\ RangeCut(v, n_way, n, bf, low) \in Nat
           /\ RangeCut(v, n_way, n, bf, low) <= RangeCut(w, n_way, n, bf, low)
BY Parts, CutMonotone DEF RangeCut

LEMMA RangeSubIsCut ==
    ASSUME NEW n_way \in Nat \ {0}, NEW n \in Nat, NEW bf \in Nat \ {0},
           NEW low \in BOOLEAN,
           NEW w \in 0 .. n_way - 1
    PROVE  RangeSub(w, n_way, n, bf, low)
                = [start |-> RangeCut(w, n_way, n, bf, low),
                   end |-> RangeCut(w + 1, n_way, n, bf, low)]
<1> DEFINE left == n % bf
           each == (n \div bf) \div n_way
           more == (n \div bf) % n_way
<1>1. /\ each \in Nat /\ more \in 0 .. n_way - 1 /\ left \in 0 .. bf - 1
      /\ n = (bf * ((n_way * each) + more)) + left
  BY Parts
<1>2. \A u : RangeCut(u, n_way, n, bf, low) = Cut(u, n_way, each, more, left, bf, low)
  BY DEF RangeCut
<1>3. n_way # 1 =>
        RangeSub(w, n_way, n, bf, low) = RangeSubN(w, n_way, each, more, left, bf, low)
  BY DEF RangeSub
<1> HIDE DEF left, each, more
<1>4. CASE n_way = 1
  <2>1. w = 0 /\ w + 1 = n_way
    BY <1>4, SMT
  <2> QED  BY <1>4, <2>1, RangeCutEnds DEF RangeSub
<1>5. CASE n_way # 1
  BY <1>1, <1>2, <1>3, <1>5, RangesAreCuts
<1> QED  BY <1>4, <1>5

Indices(r) == r.start .. r.end - 1

\* bli_thread_range_sub partitions the dimension: whatever the dimension, the
\* block factor, the number of threads and the end that gets the edge, every
\* index is in the range of exactly one thread.
THEOREM RangesPartition ==
    ASSUME NEW n_way \in Nat \ {0}, NEW n \in Nat, NEW bf \in Nat \ {0},
           NEW low \in BOOLEAN, NEW x \in 0 .. n - 1
    PROVE  \E w \in 0 .. n_way - 1 :
                /\ x \in Indices(RangeSub(w, n_way, n, bf, low))
                /\ \A v \in (0 .. n_way - 1) \ {w} :
                        x \notin Indices(RangeSub(v, n_way, n, bf, low))
<1> DEFINE cut(w) == RangeCut(w, n_way, n, bf, low)
           above == {w \in 0 .. n_way : x < cut(w)}
<1>1. cut(0) = 0 /\ cut(n_way) = n
  BY RangeCutEnds
<1>2. \A v, w \in 0 .. n_way : v <= w => cut(v) \in Nat /\ cut(v) <= cut(w)
  BY RangeCutMonotone
<1>3. \A w \in 0 .. n_way - 1 :
        RangeSub(w, n_way, n, bf, low) = [start |-> cut(w), end |-> cut(w + 1)]
  BY RangeSubIsCut
<1> HIDE DEF cut
<1>4. above \subseteq Nat /\ n_way \in above
  BY <1>1, <1>2, SMT
<1>5. PICK u \in above : \A y \in above : u <= y
  BY <1>4, LeastElement
<1>6. u \in 1 .. n_way /\ x < cut(u)
  BY <1>1, <1>2, <1>5, SMT
<1>7. cut(u - 1) \in Nat /\ cut(u - 1) <= x
  BY <1>1, <1>2, <1>5, <1>6, SMT
<1>8. u - 1 \in 0 .. n_way - 1 /\ u - 1 + 1 = u
  BY <1>6, SMT
<1>9. x \in Indices(RangeSub(u - 1, n_way, n, bf, low))
  <2>1. cut(u) \in Nat
    BY <1>1, <1>2, <1>6, SMT
  <2> QED  BY <1>3, <1>6, <1>7, <1>8, <2>1, SMT DEF Indices
<1>10. ASSUME NEW v \in (0 .. n_way - 1) \ {u - 1}
      PROVE  x \notin Indices(RangeSub(v, n_way, n, bf, low))
  <2>1. Indices(RangeSub(v, n_way, n, bf, low)) = cut(v) .. cut(v + 1) - 1
    BY <1>3 DEF Indices
  <2>2. CASE v < u - 1
    <3>1. cut(v + 1) <= cut(u - 1) /\ cut(v + 1) \in Nat
      BY <1>1, <1>2, <1>6, <2>2, SMT
    <3> QED  BY <1>7, <2>1, <3>1, SMT
  <2>3. CASE v > u - 1
    <3>1. cut(u) <= cut(v) /\ cut(u) \in Nat /\ cut(v) \in Nat
      BY <1>1, <1>2, <1>6, <2>3, SMT
    <3> QED  BY <1>6, <2>1, <3>1, SMT
  <2> QED  BY <1>6, <2>2, <2>3, SMT
<1> QED  BY <1>8, <1>9, <1>10

\* bli_determine_blocksize returns a block that is not empty and not more
\* than what is left, so that the loops end and do not leave the range, if
\* they go forward or if the maximum is the blocksize itself.  (With a larger
\* maximum a loop that goes backward may leave its range.)
THEOREM BlocksFit ==
    ASSUME NEW backward \in BOOLEAN, NEW dim_left \in Nat \ {0},
           NEW alg \in Nat \ {0}, NEW max \in Nat,
           alg <= max, backward => max = alg
    PROVE  DetermineBlocksize(backward, dim_left, alg, max) \in 1 .. dim_left
<1> DEFINE edge == dim_left % alg
           whole == dim_left \div alg
<1>1. whole \in Nat /\ edge \in 0 .. alg - 1 /\ dim_left = (alg * whole) + edge
  BY DivMod
<1> HIDE DEF edge, whole
<1>2. DetermineBlocksize(backward, dim_left, alg, max) =
        IF backward THEN IF alg + edge <= max THEN alg + edge ELSE edge
                    ELSE IF dim_left <= max THEN dim_left ELSE alg
  BY DEF DetermineBlocksize, edge
<1>3. CASE backward = TRUE /\ edge = 0
  <2>1. whole # 0
    BY <1>1, <1>3, SMT
  <2>2. alg <= alg * whole
    BY <1>1, <2>1, SMT
  <2>3. alg <= dim_left
    BY <1>1, <1>3, <2>2, SMT
  <2> QED  BY <1>2, <1>3, <2>3, SMT
<1>4. CASE backward = TRUE /\ edge # 0
  <2>1. alg * whole \in Nat
    BY <1>1, Product
  <2>2. edge \in 1 .. dim_left
    BY <1>1, <1>4, <2>1, SMT
  <2>3. ~ (alg + edge <= max)
    BY <1>4, <2>2, SMT
  <2> QED  BY <1>2, <1>4, <2>2, <2>3
<1>5. CASE backward = FALSE
  BY <1>2, <1>5, SMT
<1> QED  BY <1>3, <1>4, <1>5

-----------------------------------------------------------------------------
(***************************************************************************)
(* More about division, cuts and blocks.                                   *)
(***************************************************************************)
LEMMA DivModUnique ==
    ASSUME NEW b \in Nat \ {0}, NEW q \in Nat, NEW r \in 0 .. b - 1, NEW a \in Nat,
           a = (b * q) + r
    PROVE  a \div b = q /\ a % b = r
<1> DEFINE d == a \div b
           e == a % b
<1>1. d \in Nat /\ e \in 0 .. b - 1 /\ a = (b * d) + e
  BY DivMod
<1> HIDE DEF d, e
<1>2. CASE d < q
  <2>1. b * (d + 1) <= b * q
    BY <1>1, <1>2, ProductMonotone, SMT
  <2>2. b * (d + 1) = (b * d) + b
    BY <1>1, SMT
  <2>3. b * d \in Nat /\ b * q \in Nat
    BY <1>1, Product
  <2> QED
    BY <1>1, <2>1, <2>2, <2>3, SMT
<1>3. CASE q < d
  <2>1. b * (q + 1) <= b * d
    BY <1>1, <1>3, ProductMonotone, SMT
  <2>2. b * (q + 1) = (b * q) + b
    BY SMT
  <2>3. b * d \in Nat /\ b * q \in Nat
    BY <1>1, Product
  <2> QED
    BY <1>1, <2>1, <2>2, <2>3, SMT
<1>4. CASE d = q
  BY <1>1, <1>4 DEF d, e
<1> QED
  BY <1>1, <1>2, <1>3, <1>4, SMT

LEMMA DivModQuotient ==
    \A b \in Nat \ {0} : \A q \in Nat : \A r \in 0 .. b - 1 : \A a \in Nat :
        a = (b * q) + r => a \div b = q /\ a % b = r
BY DivModUnique, SMT

LEMMA Multiple ==
    ASSUME NEW b \in Nat \ {0}, NEW q \in Nat, NEW a \in Nat, a = (b * q) + 0
    PROVE  a % b = 0 /\ a \div b = q
<1>1. 0 \in 0 .. b - 1
  BY SMT
<1> QED
  BY <1>1, DivModQuotient

\* Cuts in order divide what is between the first and the last.
LEMMA CutsPartition ==
    ASSUME NEW n \in Nat \ {0}, NEW cut \in [0 .. n -> Nat], cut[0] = 0,
           \A v, w \in 0 .. n : v <= w => cut[v] <= cut[w],
           NEW x \in Nat, x < cut[n]
    PROVE  \E w \in 0 .. n - 1 :
                /\ cut[w] <= x /\ x < cut[w + 1]
                /\ \A v \in 0 .. n - 1 : cut[v] <= x /\ x < cut[v + 1] => v = w
<1> DEFINE above == {w \in 0 .. n : x < cut[w]}
<1>1. above \subseteq Nat /\ n \in above
  BY SMT
<1>2. PICK u \in above : \A y \in above : u <= y
  BY <1>1, LeastElement
<1>3. u \in 1 .. n /\ x < cut[u]
  BY <1>2, SMT
<1>4. u - 1 \in 0 .. n - 1 /\ u - 1 + 1 = u /\ u - 1 \in 0 .. n
  BY <1>3, SMT
<1>5. cut[u - 1] <= x
  BY <1>2, <1>4, SMT
<1>6. ASSUME NEW v \in 0 .. n - 1, cut[v] <= x, x < cut[v + 1]
      PROVE  v = u - 1
  <2>1. v \in 0 .. n /\ v + 1 \in 0 .. n /\ cut[v] \in Nat /\ cut[v + 1] \in Nat
    BY SMT
  <2>2. cut[u] \in Nat /\ cut[u - 1] \in Nat /\ u \in 0 .. n
    BY <1>3, <1>4
  <2>3. CASE v < u - 1
    <3>1. cut[v + 1] <= cut[u - 1]
      BY <1>4, <2>1, <2>3, SMT
    <3> QED
      BY <1>5, <1>6, <2>1, <2>2, <3>1, SMT
  <2>4. CASE v > u - 1
    <3>1. cut[u] <= cut[v]
      BY <1>3, <2>1, <2>2, <2>4, SMT
    <3> QED
      BY <1>3, <1>6, <2>1, <2>2, <3>1, SMT
  <2> QED
    BY <1>3, <2>3, <2>4, SMT
<1> QED
  BY <1>3, <1>4, <1>5, <1>6

\* The microtiles before those of thread tid, by bli_thread_range_tlb_d
Before(nt, tid, n) ==
    (tid * (n \div nt)) + (IF tid < n % nt THEN tid ELSE n % nt)

LEMMA BeforeCuts ==
    ASSUME NEW nt \in Nat \ {0}, NEW n \in Nat
    PROVE  /\ Before(nt, 0, n) = 0 /\ Before(nt, nt, n) = n
           /\ \A v, w \in 0 .. nt : v <= w =>
                /\ Before(nt, v, n) \in Nat /\ Before(nt, w, n) \in Nat
                /\ Before(nt, v, n) <= Before(nt, w, n)
<1> DEFINE each == n \div nt
           left == n % nt
<1>1. each \in Nat /\ left \in 0 .. nt - 1 /\ n = (nt * each) + left
  BY DivMod
<1>2. \A v : Before(nt, v, n) = (v * each) + (IF v < left THEN v ELSE left)
  BY DEF Before
<1> HIDE DEF each, left
<1>3. 0 * each = 0
  BY <1>1, SMT
<1>4. ASSUME NEW v \in 0 .. nt, NEW w \in 0 .. nt, v <= w
      PROVE  /\ Before(nt, v, n) \in Nat /\ Before(nt, w, n) \in Nat
             /\ Before(nt, v, n) <= Before(nt, w, n)
  <2>1. v * each \in Nat /\ w * each \in Nat /\ v * each <= w * each
    BY <1>1, <1>4, Product, ProductMonotone, SMT
  <2> QED
    BY <1>1, <1>2, <1>4, <2>1, SMT
<1> QED
  BY <1>1, <1>2, <1>3, <1>4, SMT

\* The range of microtiles that bli_thread_range_tlb_d gives to a thread: r
\* begins where the threads before it end, and has as many as are its own
SharesOut(r, nt, tid, m_iter, n) ==
    /\ r.n_ut = Before(nt, tid + 1, n) - Before(nt, tid, n)
    /\ r.j \in Nat /\ r.i \in 0 .. m_iter - 1
    /\ (r.j * m_iter) + r.i = Before(nt, tid, n)

LEMMA TlbRange ==
    ASSUME NEW nt \in Nat \ {0}, NEW tid \in 0 .. nt - 1,
           NEW m_iter \in Nat \ {0}, NEW n_iter \in Nat
    PROVE  SharesOut(RangeTlb(nt, tid, m_iter, n_iter), nt, tid, m_iter, m_iter * n_iter)
<1>1. PICK n \in Nat : n = m_iter * n_iter
  BY Product
<1> DEFINE each == n \div nt
           left == n % nt
           before == Before(nt, tid, n)
<1>2. each \in Nat /\ left \in 0 .. nt - 1
  BY DivMod
<1>3. before \in Nat
  BY BeforeCuts, SMT
<1>4. RangeTlb(nt, tid, m_iter, n_iter) =
        [n_ut |-> each + (IF tid < left THEN 1 ELSE 0),
         j |-> before \div m_iter, i |-> before % m_iter]
  BY <1>1 DEF RangeTlb, Before
<1>5. Before(nt, tid + 1, n) =
        ((tid + 1) * each) + (IF tid + 1 < left THEN tid + 1 ELSE left)
  BY DEF Before
<1>6. before = (tid * each) + (IF tid < left THEN tid ELSE left)
  BY DEF Before
<1>7. (tid + 1) * each = (tid * each) + each /\ tid * each \in Nat
  BY <1>2, SMT
<1> HIDE DEF each, left, before
<1>8. each + (IF tid < left THEN 1 ELSE 0) = Before(nt, tid + 1, n) - before
  BY <1>2, <1>5, <1>6, <1>7, SMT
<1>9. /\ before \div m_iter \in Nat /\ before % m_iter \in 0 .. m_iter - 1
      /\ before = (m_iter * (before \div m_iter)) + (before % m_iter)
  BY <1>3, DivMod
<1>10. ((before \div m_iter) * m_iter) + (before % m_iter) = before
  BY <1>9, SMT
<1> QED
  BY <1>1, <1>4, <1>8, <1>9, <1>10 DEF before, SharesOut

(***************************************************************************)
(* The blocks of a range: where they begin is known in closed form.  The   *)
(* last block of a forward traversal is what is left as soon as that is at *)
(* most the maximum; a backward traversal begins with the edge.            *)
(***************************************************************************)
Grid(backward, start, end, alg, max) ==
    {idx \in start .. end - 1 :
        \/ idx = start
        \/ \E k \in Nat \ {0} :
              IF backward THEN end - idx = k * alg
              ELSE idx = start + (k * alg) /\ (end - idx) + alg > max}

LEMMA GridStep ==
    ASSUME NEW backward \in BOOLEAN, NEW start \in Nat, NEW end \in Nat,
           NEW alg \in Nat \ {0}, NEW max \in Nat,
           alg <= max, backward => max = alg,
           NEW idx \in Grid(backward, start, end, alg, max),
           NEW size, size = DetermineBlocksize(backward, end - idx, alg, max)
    PROVE  /\ size \in 1 .. end - idx
           /\ idx + size # end => idx + size \in Grid(backward, start, end, alg, max)
           /\ \A next \in Grid(backward, start, end, alg, max) :
                idx < next => idx + size <= next
<1> DEFINE grid == Grid(backward, start, end, alg, max)
           dim_left == end - idx
<1>1. idx \in start .. end - 1 /\ dim_left \in Nat \ {0}
  BY SMT DEF Grid
<1>2. size \in 1 .. dim_left
  BY <1>1, BlocksFit
<1>3. \A next \in grid : next \in start .. end - 1
  BY DEF Grid
<1>4. CASE backward = FALSE
  <2>1. size = IF dim_left <= max THEN dim_left ELSE alg
    BY <1>4 DEF DetermineBlocksize
  <2>2. PICK k \in Nat : idx = start + (k * alg)
    <3>1. CASE idx = start
      BY <3>1, SMT
    <3>2. CASE idx # start
      BY <1>4, <3>2 DEF Grid
    <3> QED
      BY <3>1, <3>2
  <2>3. k * alg \in Nat /\ (k + 1) * alg = (k * alg) + alg
    BY Product, Distribute, SMT
  <2>4. ASSUME NEW next \in grid, idx < next
        PROVE  idx + alg <= next /\ dim_left > max
    <3>1. next # start
      BY <1>1, <2>4, SMT
    <3>2. PICK n \in Nat \ {0} : next = start + (n * alg) /\ (end - next) + alg > max
      BY <1>4, <3>1 DEF Grid
    <3>3. ~(n <= k)
      <4>1. n <= k => n * alg <= k * alg
        BY ProductMonotone
      <4>2. n * alg \in Nat
        BY Product
      <4> QED
        BY <2>2, <2>3, <2>4, <3>2, <4>1, <4>2, SMT
    <3>4. (k + 1) * alg <= n * alg
      BY <3>3, ProductMonotone, SMT
    <3>5. n * alg \in Nat
      BY Product
    <3>6. idx + alg <= next
      BY <2>2, <2>3, <3>2, <3>4, <3>5, SMT
    <3>7. dim_left > max
      BY <1>1, <1>3, <3>2, <3>6, SMT
    <3> QED
      BY <3>6, <3>7
  <2>5. ASSUME idx + size # end
        PROVE  idx + size \in grid
    <3>1. dim_left > max /\ size = alg
      BY <1>1, <2>1, <2>5, SMT
    <3>2. idx + size = start + ((k + 1) * alg) /\ k + 1 \in Nat \ {0}
      BY <2>2, <2>3, <3>1, SMT
    <3>3. idx + size \in start .. end - 1 /\ (end - (idx + size)) + alg > max
      BY <1>1, <3>1, SMT
    <3> QED
      BY <1>4, <3>2, <3>3 DEF Grid
  <2>6. ASSUME NEW next \in grid, idx < next
        PROVE  idx + size <= next
    BY <2>1, <2>4, <2>6, SMT
  <2> QED
    BY <1>2, <2>5, <2>6
<1>5. CASE backward = TRUE
  <2> DEFINE edge == dim_left % alg
             whole == dim_left \div alg
  <2>1. whole \in Nat /\ edge \in 0 .. alg - 1 /\ dim_left = (alg * whole) + edge
    BY <1>1, DivMod
  <2>2. size = IF edge = 0 THEN alg ELSE edge
    <3>1. size = IF alg + edge <= max THEN alg + edge ELSE edge
      BY <1>5 DEF DetermineBlocksize
    <3>2. max = alg
      BY <1>5
    <3> HIDE DEF edge, whole
    <3> QED
      BY <2>1, <3>1, <3>2, SMT
  <2> HIDE DEF edge, whole
  <2>3. whole * alg = alg * whole /\ whole * alg \in Nat
    BY <2>1, Product, SMT
  <2>4. ASSUME NEW n \in Nat, idx + size + (n * alg) = end
        PROVE  idx + size # end => idx + size \in grid
    <3>1. n # 0 \/ idx + size = end
      BY <1>1, <1>2, <2>4, SMT
    <3>2. n * alg \in Nat
      BY Product
    <3>3. idx + size # end => idx + size \in start .. end - 1 /\ end - (idx + size) = n * alg
      BY <1>1, <1>2, <2>4, <3>2, SMT
    <3> QED
      BY <1>5, <3>1, <3>3 DEF Grid
  <2>5. CASE edge = 0
    <3>1. whole # 0
      BY <1>1, <2>1, <2>5, SMT
    <3>2. whole - 1 \in Nat /\ (whole - 1) * alg = (whole * alg) - alg
      BY <2>1, <3>1, SMT
    <3>3. idx + size + ((whole - 1) * alg) = end
      BY <1>1, <2>1, <2>2, <2>3, <2>5, <3>2, SMT
    <3>4. ASSUME NEW next \in grid, idx < next
          PROVE  idx + size <= next
      <4>1. next # start
        BY <1>1, <3>4, SMT
      <4>2. PICK n \in Nat \ {0} : end - next = n * alg
        BY <1>5, <4>1 DEF Grid
      <4>3. n * alg \in Nat /\ ~(whole <= n)
        <5>1. whole <= n => whole * alg <= n * alg
          BY <2>1, ProductMonotone
        <5>2. n * alg \in Nat
          BY Product
        <5> QED
          BY <1>1, <1>3, <2>1, <2>3, <2>5, <3>4, <4>2, <5>1, <5>2, SMT
      <4>4. n * alg <= (whole - 1) * alg
        BY <2>1, <3>2, <4>3, ProductMonotone, SMT
      <4> QED
        BY <1>1, <1>3, <3>2, <3>3, <4>2, <4>3, <4>4, <2>3, <1>2, SMT
    <3> QED
      BY <1>2, <2>4, <3>2, <3>3, <3>4
  <2>6. CASE edge # 0
    <3>1. idx + size + (whole * alg) = end
      BY <1>1, <2>1, <2>2, <2>3, <2>6, SMT
    <3>2. idx = start
      <4> SUFFICES ASSUME idx # start PROVE FALSE
        OBVIOUS
      <4>1. PICK n \in Nat \ {0} : end - idx = n * alg
        BY <1>5 DEF Grid
      <4>2. dim_left = (alg * n) + 0 /\ dim_left \in Nat
        BY <1>1, <4>1, SMT
      <4>3. dim_left % alg = 0
        BY <4>2, Multiple
      <4> QED
        BY <2>6, <4>3 DEF edge
    <3>3. ASSUME NEW next \in grid, idx < next
          PROVE  idx + size <= next
      <4>1. next # start
        BY <3>2, <3>3, <1>1, SMT
      <4>2. PICK n \in Nat \ {0} : end - next = n * alg
        BY <1>5, <4>1 DEF Grid
      <4>3. n * alg \in Nat /\ ~(whole + 1 <= n)
        <5>1. whole + 1 <= n => (whole + 1) * alg <= n * alg
          BY <2>1, ProductMonotone, SMT
        <5>2. n * alg \in Nat /\ (whole + 1) * alg = (whole * alg) + alg
          BY <2>1, Product, Distribute, SMT
        <5> QED
          BY <1>1, <1>3, <2>1, <2>3, <3>3, <4>2, <5>1, <5>2, SMT
      <4>4. n * alg <= whole * alg
        BY <2>1, <4>3, ProductMonotone, SMT
      <4> QED
        BY <1>1, <1>2, <1>3, <2>3, <3>1, <4>2, <4>3, <4>4, SMT
    <3> QED
      BY <1>2, <2>1, <2>4, <3>1, <3>3
  <2> QED
    BY <2>5, <2>6
<1> QED
  BY <1>4, <1>5

\* Every index of a range is in one of its blocks, and in one only.
LEMMA GridCovers ==
    ASSUME NEW backward \in BOOLEAN, NEW start \in Nat, NEW end \in Nat,
           NEW alg \in Nat \ {0}, NEW max \in Nat,
           alg <= max, backward => max = alg,
           NEW x \in start .. end - 1
    PROVE  \E idx \in Grid(backward, start, end, alg, max) :
              /\ idx <= x
              /\ x < idx + DetermineBlocksize(backward, end - idx, alg, max)
<1> DEFINE grid == Grid(backward, start, end, alg, max)
           behind == {d \in Nat : x - d \in grid}
<1>1. start \in grid
  BY SMT DEF Grid
<1>2. \A idx \in grid : idx \in start .. end - 1
  BY DEF Grid
<1>3. behind \subseteq Nat /\ x - start \in behind
  <2>1. x - start \in Nat /\ x - (x - start) = start
    BY SMT
  <2> HIDE DEF grid
  <2> QED
    BY <1>1, <2>1
<1> HIDE DEF grid
<1>4. PICK d \in behind : \A e \in behind : d <= e
  BY <1>3, LeastElement
<1> DEFINE idx == x - d
           size == DetermineBlocksize(backward, end - idx, alg, max)
<1>5. d \in Nat /\ idx \in grid /\ idx \in Nat /\ idx <= x
  BY <1>2, <1>4, SMT
<1>6. size \in 1 .. end - idx /\ (idx + size # end => idx + size \in grid)
  <2>1. size = DetermineBlocksize(backward, end - idx, alg, max)
    OBVIOUS
  <2>2. idx \in Grid(backward, start, end, alg, max)
    BY <1>5 DEF grid
  <2> HIDE DEF idx, size
  <2> QED
    BY <2>1, <2>2, GridStep DEF grid
<1>7. x < idx + size
  <2> SUFFICES ASSUME idx + size <= x PROVE FALSE
    BY <1>2, <1>5, <1>6, SMT
  <2>1. idx + size \in grid
    BY <1>2, <1>5, <1>6, SMT
  <2> DEFINE e == d - size
  <2>2. e \in Nat /\ x - e = idx + size /\ e < d
    BY <1>2, <1>5, <1>6, SMT
  <2>3. e \in behind
    <3> HIDE DEF e, size, idx
    <3> QED
      BY <2>1, <2>2
  <2> QED
    BY <1>4, <1>5, <2>2, <2>3, SMT
<1> QED
  BY <1>5, <1>7 DEF grid

-----------------------------------------------------------------------------
(***************************************************************************)
(* Which thread updates what.  The theorems need of the problem p that a   *)
(* loop that goes backward has no larger maximum, and that tiles have one  *)
(* way in the first loop.                                                  *)
(***************************************************************************)
Tame ==
    /\ p \in Problems
    /\ p.backward => p.b_max = p.b_alg
    /\ p.tlb => p.ir = 1

LEMMA Parameters ==
    ASSUME Tame
    PROVE  /\ p.m \in Nat \ {0} /\ p.n_iter \in Nat \ {0} /\ p.MR \in Nat \ {0}
           /\ p.ic \in Nat \ {0} /\ p.jr \in Nat \ {0} /\ p.ir \in Nat \ {0}
           /\ p.b_alg \in Nat \ {0} /\ p.b_max \in Nat \ {0} /\ p.b_alg <= p.b_max
           /\ p.backward \in BOOLEAN /\ p.tlb \in BOOLEAN
           /\ p.backward => p.b_max = p.b_alg
           /\ p.tlb => p.ir = 1
           /\ p.ic * p.jr * p.ir = NT /\ NT \in Nat \ {0}
BY ProblemsAssumption DEF Tame

\* The work ids of a thread are its number in a mixed radix.
LEMMA IdsInRange ==
    ASSUME Tame, NEW t \in Threads
    PROVE  /\ IcId(t) \in 0 .. p.ic - 1 /\ JrId(t) \in 0 .. p.jr - 1
           /\ IrId(t) \in 0 .. p.ir - 1
           /\ t = ((p.jr * p.ir) * IcId(t)) + ((p.ir * JrId(t)) + IrId(t))
<1> DEFINE ic == p.ic
           jr == p.jr
           ir == p.ir
           team == jr * ir
           a == t \div team
           b == (t % team) \div ir
           d == (t % team) % ir
<1>1. /\ ic \in Nat \ {0} /\ jr \in Nat \ {0} /\ ir \in Nat \ {0}
      /\ (ic * jr) * ir = NT /\ NT \in Nat \ {0}
  BY Parameters
<1>2. t \in Nat /\ t < NT
  BY <1>1, SMT DEF Threads
<1>3. IcId(t) = a /\ JrId(t) = b /\ IrId(t) = t % ir
  BY DEF IcId, JrId, IrId
<1> HIDE DEF ic, jr, ir
<1>4. team \in Nat \ {0} /\ ic * team = NT
  <2>1. jr * ir \in Nat \ {0} /\ ic * (jr * ir) = (ic * jr) * ir
    BY <1>1, SMT
  <2> QED
    BY <1>1, <2>1
<1> HIDE DEF team
<1>5. a \in Nat /\ t % team \in 0 .. team - 1 /\ t = (team * a) + (t % team)
  BY <1>2, <1>4, DivMod
<1> DEFINE e == t % team
<1> HIDE DEF e
<1>6. e \in Nat /\ e < team /\ t = (team * a) + e
  BY <1>4, <1>5, SMT DEF e
<1>7. b \in Nat /\ d \in 0 .. ir - 1 /\ e = (ir * b) + d
  BY <1>1, <1>6, DivMod DEF e
<1> HIDE DEF a, b, d
<1>8. a < ic
  <2>1. ic <= a => ic * team <= a * team
    BY <1>1, <1>4, <1>5, ProductMonotone
  <2>2. a * team = team * a /\ team * a \in Nat
    BY <1>4, <1>5, SMT
  <2> QED
    BY <1>1, <1>2, <1>4, <1>5, <1>6, <2>1, <2>2, SMT
<1>9. b < jr
  <2>1. jr <= b => jr * ir <= b * ir
    BY <1>1, <1>7, ProductMonotone
  <2>2. b * ir = ir * b /\ ir * b \in Nat /\ jr * ir \in Nat
    BY <1>1, <1>7, SMT
  <2>3. team = jr * ir
    BY DEF team
  <2> QED
    BY <1>1, <1>6, <1>7, <2>1, <2>2, <2>3, SMT
<1>10. t % ir = d
  <2> DEFINE q == (jr * a) + b
  <2>1. q \in Nat /\ (ir * q) = ((jr * ir) * a) + (ir * b)
    BY <1>1, <1>5, <1>7, SMT
  <2>2. t = (ir * q) + d
    <3>1. (jr * ir) * a \in Nat /\ ir * b \in Nat
      BY <1>1, <1>5, <1>7, SMT
    <3>2. team = jr * ir
      BY DEF team
    <3> QED
      BY <1>6, <1>7, <2>1, <3>1, <3>2, SMT
  <2> HIDE DEF q
  <2>3. /\ ir \in Nat \ {0} /\ q \in Nat /\ d \in 0 .. ir - 1 /\ t \in Nat
        /\ t = (ir * q) + d
    BY <1>1, <1>2, <1>7, <2>1, <2>2
  <2> QED
    BY <2>3, DivModQuotient, Zenon
<1>11. a \in 0 .. ic - 1 /\ b \in 0 .. jr - 1
  BY <1>1, <1>5, <1>7, <1>8, <1>9, SMT
<1>12. t = (team * a) + ((ir * b) + d)
  BY <1>6, <1>7
<1>13. ic = p.ic /\ jr = p.jr /\ ir = p.ir /\ team = p.jr * p.ir
  BY DEF ic, jr, ir, team
<1> QED
  BY <1>3, <1>7, <1>10, <1>11, <1>12, <1>13

LEMMA IdsAreUnique ==
    ASSUME Tame, NEW t \in Threads, NEW u \in Threads,
           IcId(t) = IcId(u), JrId(t) = JrId(u), IrId(t) = IrId(u)
    PROVE  t = u
BY IdsInRange

LEMMA ThreadWithIds ==
    ASSUME Tame, NEW a \in 0 .. p.ic - 1, NEW b \in 0 .. p.jr - 1, NEW d \in 0 .. p.ir - 1
    PROVE  \E t \in Threads : IcId(t) = a /\ JrId(t) = b /\ IrId(t) = d
<1> DEFINE ic == p.ic
           jr == p.jr
           ir == p.ir
           team == jr * ir
           e == (ir * b) + d
           t == (team * a) + e
<1>1. /\ ic \in Nat \ {0} /\ jr \in Nat \ {0} /\ ir \in Nat \ {0}
      /\ (ic * jr) * ir = NT /\ NT \in Nat \ {0}
  BY Parameters
<1>2. a \in 0 .. ic - 1 /\ b \in 0 .. jr - 1 /\ d \in 0 .. ir - 1
  OBVIOUS
<1>3. \A u : IcId(u) = u \div team /\ JrId(u) = (u % team) \div ir /\ IrId(u) = u % ir
  BY DEF IcId, JrId, IrId
<1> HIDE DEF ic, jr, ir
<1>4. team \in Nat \ {0} /\ ic * team = NT
  <2>1. jr * ir \in Nat \ {0} /\ ic * (jr * ir) = (ic * jr) * ir
    BY <1>1, SMT
  <2> QED
    BY <1>1, <2>1
<1>5. ir * b \in Nat /\ e \in Nat /\ e < team
  <2>1. (b + 1) * ir <= jr * ir
    BY <1>1, <1>2, ProductMonotone, SMT
  <2>2. (b + 1) * ir = (ir * b) + ir /\ ir * b \in Nat
    BY <1>1, <1>2, SMT
  <2> QED
    BY <1>1, <1>2, <1>4, <2>1, <2>2, SMT
<1> HIDE DEF e
<1>6. t \in Nat /\ t < NT
  <2>1. (a + 1) * team <= ic * team
    BY <1>1, <1>2, <1>4, ProductMonotone, SMT
  <2>2. (a + 1) * team = (team * a) + team /\ team * a \in Nat
    BY <1>2, <1>4, SMT
  <2> QED
    BY <1>1, <1>4, <1>5, <2>1, <2>2, SMT
<1>7. t \div team = a /\ t % team = e
  <2>1. e \in 0 .. team - 1 /\ a \in Nat /\ t = (team * a) + e
    BY <1>2, <1>4, <1>5, SMT
  <2> HIDE DEF t, team
  <2> QED
    BY <1>4, <1>6, <2>1, DivModUnique
<1>8. e \div ir = b
  <2>1. b \in Nat /\ e = (ir * b) + d
    BY <1>1, <1>2, SMT DEF e
  <2> QED
    BY <1>1, <1>2, <1>5, <2>1, DivModUnique
<1>9. t % ir = d
  <2> DEFINE q == (jr * a) + b
  <2>1. q \in Nat /\ (ir * q) = ((jr * ir) * a) + (ir * b)
    BY <1>1, <1>2, SMT
  <2>2. t = (ir * q) + d
    <3>1. (jr * ir) * a \in Nat
      BY <1>1, <1>2, SMT
    <3>2. t = ((jr * ir) * a) + ((ir * b) + d)
      BY DEF e
    <3> QED
      BY <1>2, <1>5, <2>1, <3>1, <3>2, SMT
  <2> HIDE DEF q, t
  <2>3. /\ ir \in Nat \ {0} /\ q \in Nat /\ d \in 0 .. ir - 1 /\ t \in Nat
        /\ t = (ir * q) + d
    BY <1>1, <1>2, <1>6, <2>1, <2>2
  <2> QED
    BY <2>3, DivModQuotient, Zenon
<1> HIDE DEF t, team
<1>10. t \in Threads
  BY <1>1, <1>6, SMT DEF Threads
<1> QED
  BY <1>3, <1>7, <1>8, <1>9, <1>10

-----------------------------------------------------------------------------
(***************************************************************************)
(* The microtiles of a block that are a thread's: those with Base <= i <   *)
(* Base + Width and Lo <= Line < Hi, in the order of Line.                 *)
(***************************************************************************)
MIters(len) == (len + p.MR - 1) \div p.MR
IrRange(t, len) == RangeSub(IrId(t), p.ir, MIters(len), 1, FALSE)
JrRange(t) == RangeSub(JrId(t), p.jr, p.n_iter, 1, FALSE)

Base(t, len) == IF p.tlb THEN 0 ELSE IrRange(t, len).start
Width(t, len) ==
    IF p.tlb THEN MIters(len) ELSE IrRange(t, len).end - IrRange(t, len).start
Lo(t, len) ==
    IF p.tlb THEN Before(p.jr, JrId(t), MIters(len) * p.n_iter)
    ELSE JrRange(t).start * Width(t, len)
Hi(t, len) ==
    IF p.tlb THEN Before(p.jr, JrId(t) + 1, MIters(len) * p.n_iter)
    ELSE JrRange(t).end * Width(t, len)
Line(t, len, ti, j) == (j * Width(t, len)) + (ti - Base(t, len))

Mine(t, len, ti, j) ==
    /\ Base(t, len) <= ti /\ ti < Base(t, len) + Width(t, len)
    /\ Lo(t, len) <= Line(t, len, ti, j) /\ Line(t, len, ti, j) < Hi(t, len)

LEMMA RangeWithin ==
    ASSUME NEW n_way \in Nat \ {0}, NEW n \in Nat, NEW bf \in Nat \ {0},
           NEW low \in BOOLEAN, NEW w \in 0 .. n_way - 1
    PROVE  LET r == RangeSub(w, n_way, n, bf, low)
           IN  /\ r \in [start : Nat, end : Nat]
               /\ r.start <= r.end /\ r.end <= n
<1> DEFINE cut(v) == RangeCut(v, n_way, n, bf, low)
<1>1. RangeSub(w, n_way, n, bf, low) = [start |-> cut(w), end |-> cut(w + 1)]
  BY RangeSubIsCut
<1>2. \A v, u \in 0 .. n_way : v <= u => cut(v) \in Nat /\ cut(v) <= cut(u)
  BY RangeCutMonotone
<1>3. cut(n_way) = n
  BY RangeCutEnds
<1> HIDE DEF cut
<1>4. /\ w \in 0 .. n_way /\ w + 1 \in 0 .. n_way /\ n_way \in 0 .. n_way
      /\ w <= w + 1 /\ w + 1 <= n_way
  BY SMT
<1>5. cut(w) \in Nat /\ cut(w + 1) \in Nat /\ cut(w) <= cut(w + 1) /\ cut(w + 1) <= n
  BY <1>2, <1>3, <1>4
<1> QED
  BY <1>1, <1>5

\* Where a block has rows it has microtiles, and each of its rows is in one.
LEMMA MItersCover ==
    ASSUME Tame, NEW len \in Nat \ {0}
    PROVE  /\ MIters(len) \in Nat \ {0}
           /\ \A d \in 0 .. len - 1 : d \div p.MR \in 0 .. MIters(len) - 1
<1> DEFINE MR == p.MR
           M == (len + MR - 1) \div MR
           r == (len + MR - 1) % MR
<1>1. MR \in Nat \ {0}
  BY Parameters
<1> HIDE DEF MR
<1>2. M \in Nat /\ r \in 0 .. MR - 1 /\ len + MR - 1 = (MR * M) + r
  <2>1. len + MR - 1 \in Nat
    BY <1>1, SMT
  <2> QED
    BY <1>1, <2>1, DivMod
<1> HIDE DEF M, r
<1>3. MR * M \in Nat /\ M * MR = MR * M
  BY <1>1, <1>2, SMT
<1>4. ASSUME NEW d \in 0 .. len - 1
      PROVE  d \div MR \in 0 .. M - 1
  <2> DEFINE q == d \div MR
  <2>1. q \in Nat /\ d % MR \in 0 .. MR - 1 /\ d = (MR * q) + (d % MR)
    <3>1. d \in Nat
      BY SMT
    <3> QED
      BY <1>1, <3>1, DivMod
  <2> HIDE DEF q
  <2>2. M <= q => M * MR <= q * MR
    BY <1>1, <1>2, <2>1, ProductMonotone
  <2>3. MR * q \in Nat /\ q * MR = MR * q
    BY <1>1, <2>1, SMT
  <2>4. q < M
    BY <1>1, <1>2, <1>3, <2>1, <2>2, <2>3, SMT
  <2> QED
    BY <1>2, <2>1, <2>4, SMT DEF q
<1>5. M # 0
  <2>1. 0 \in 0 .. len - 1
    BY SMT
  <2>2. 0 \div MR \in 0 .. M - 1
    BY <1>4, <2>1
  <2> QED
    BY <1>2, <2>2, SMT
<1> QED
  BY <1>2, <1>4, <1>5 DEF MIters, M, MR

\* Between its first and its last column a slab has all its microtiles.
LEMMA SlabLines ==
    ASSUME NEW w \in Nat, NEW js \in Nat, NEW je \in Nat, NEW j \in Nat,
           NEW d \in 0 .. w - 1
    PROVE  (js * w <= (j * w) + d /\ (j * w) + d < je * w) <=> (js <= j /\ j < je)
<1>1. js * w \in Nat /\ j * w \in Nat /\ je * w \in Nat /\ (j + 1) * w = (j * w) + w
  BY SMT
<1>2. js <= j => js * w <= j * w
  BY ProductMonotone
<1>3. j + 1 <= js => (j + 1) * w <= js * w
  BY ProductMonotone, SMT
<1>4. j + 1 <= je => (j + 1) * w <= je * w
  BY ProductMonotone, SMT
<1>5. je <= j => je * w <= j * w
  BY ProductMonotone
<1> QED
  BY <1>1, <1>2, <1>3, <1>4, <1>5, SMT

\* What a thread's bounds are when slabs are used.
LEMMA SlabBounds ==
    ASSUME Tame, p.tlb = FALSE, NEW t \in Threads, NEW len \in Nat \ {0}
    PROVE  /\ IrRange(t, len) \in [start : Nat, end : Nat]
           /\ IrRange(t, len).start <= IrRange(t, len).end
           /\ IrRange(t, len).end <= MIters(len)
           /\ JrRange(t) \in [start : Nat, end : Nat]
           /\ JrRange(t).start <= JrRange(t).end /\ JrRange(t).end <= p.n_iter
           /\ Base(t, len) = IrRange(t, len).start
           /\ Width(t, len) = IrRange(t, len).end - IrRange(t, len).start
           /\ Width(t, len) \in Nat
           /\ Lo(t, len) = JrRange(t).start * Width(t, len)
           /\ Hi(t, len) = JrRange(t).end * Width(t, len)
<1>1. FALSE \in BOOLEAN /\ 1 \in Nat \ {0}
  OBVIOUS
<1>2. MIters(len) \in Nat
  BY MItersCover
<1>3. /\ IrRange(t, len) \in [start : Nat, end : Nat]
      /\ IrRange(t, len).start <= IrRange(t, len).end
      /\ IrRange(t, len).end <= MIters(len)
  BY <1>1, <1>2, IdsInRange, Parameters, RangeWithin DEF IrRange
<1>4. /\ JrRange(t) \in [start : Nat, end : Nat]
      /\ JrRange(t).start <= JrRange(t).end /\ JrRange(t).end <= p.n_iter
  BY <1>1, IdsInRange, Parameters, RangeWithin DEF JrRange
<1>5. /\ Base(t, len) = IrRange(t, len).start
      /\ Width(t, len) = IrRange(t, len).end - IrRange(t, len).start
      /\ Lo(t, len) = JrRange(t).start * Width(t, len)
      /\ Hi(t, len) = JrRange(t).end * Width(t, len)
  BY DEF Base, Width, Lo, Hi
<1>6. Width(t, len) \in Nat
  BY <1>2, <1>3, <1>5, SMT
<1> QED
  BY <1>3, <1>4, <1>5, <1>6

\* With slabs a thread has what is in its ranges.
LEMMA SlabMine ==
    ASSUME Tame, p.tlb = FALSE, NEW t \in Threads, NEW len \in Nat \ {0},
           NEW ti \in Nat, NEW j \in Nat
    PROVE  Mine(t, len, ti, j) <=>
                ti \in Indices(IrRange(t, len)) /\ j \in Indices(JrRange(t))
<1> DEFINE is == IrRange(t, len).start
           ie == IrRange(t, len).end
           js == JrRange(t).start
           je == JrRange(t).end
           w == Width(t, len)
           d == ti - is
<1>1. /\ is \in Nat /\ ie \in Nat /\ is <= ie /\ js \in Nat /\ je \in Nat /\ w \in Nat
      /\ w = ie - is
  BY SlabBounds
<1>2. Mine(t, len, ti, j) <=>
        /\ is <= ti /\ ti < is + w
        /\ js * w <= (j * w) + d /\ (j * w) + d < je * w
  BY SlabBounds DEF Mine, Line
<1>3. Indices(IrRange(t, len)) = is .. ie - 1 /\ Indices(JrRange(t)) = js .. je - 1
  BY DEF Indices
<1> HIDE DEF is, ie, js, je, w
<1>4. CASE is <= ti /\ ti < is + w
  <2>1. d \in 0 .. w - 1
    BY <1>1, <1>4, SMT
  <2> HIDE DEF d
  <2>2. (js * w <= (j * w) + d /\ (j * w) + d < je * w) <=> (js <= j /\ j < je)
    BY <1>1, <2>1, SlabLines
  <2> QED
    BY <1>1, <1>2, <1>3, <1>4, <2>2, SMT
<1>5. CASE ~(is <= ti /\ ti < is + w)
  BY <1>1, <1>2, <1>3, <1>5, SMT
<1> QED
  BY <1>4, <1>5

\* Every microtile of a block is one thread's, of those that have the block.
LEMMA TileOwner ==
    ASSUME Tame, NEW len \in Nat \ {0}, NEW a \in 0 .. p.ic - 1,
           NEW ti \in 0 .. MIters(len) - 1, NEW j \in 0 .. p.n_iter - 1
    PROVE  \E t \in Threads :
              /\ IcId(t) = a /\ Mine(t, len, ti, j)
              /\ \A u \in Threads : IcId(u) = a /\ Mine(u, len, ti, j) => u = t
<1> DEFINE M == MIters(len)
<1>1. M \in Nat \ {0} /\ ti \in Nat /\ j \in Nat /\ p.n_iter \in Nat \ {0}
  BY MItersCover, Parameters
<1>2. CASE p.tlb = FALSE
  <2>1. PICK d \in 0 .. p.ir - 1 :
            /\ ti \in Indices(RangeSub(d, p.ir, M, 1, FALSE))
            /\ \A v \in (0 .. p.ir - 1) \ {d} :
                    ti \notin Indices(RangeSub(v, p.ir, M, 1, FALSE))
    <3>1. /\ p.ir \in Nat \ {0} /\ M \in Nat /\ 1 \in Nat \ {0} /\ FALSE \in BOOLEAN
          /\ ti \in 0 .. M - 1
      BY <1>1, Parameters
    <3> HIDE DEF M
    <3> QED
      BY <3>1, RangesPartition
  <2>2. PICK b \in 0 .. p.jr - 1 :
            /\ j \in Indices(RangeSub(b, p.jr, p.n_iter, 1, FALSE))
            /\ \A v \in (0 .. p.jr - 1) \ {b} :
                    j \notin Indices(RangeSub(v, p.jr, p.n_iter, 1, FALSE))
    <3>1. /\ p.jr \in Nat \ {0} /\ p.n_iter \in Nat /\ 1 \in Nat \ {0} /\ FALSE \in BOOLEAN
          /\ j \in 0 .. p.n_iter - 1
      BY <1>1, Parameters
    <3> QED
      BY <3>1, RangesPartition
  <2>3. PICK t \in Threads : IcId(t) = a /\ JrId(t) = b /\ IrId(t) = d
    BY ThreadWithIds
  <2>4. \A u \in Threads : Mine(u, len, ti, j) <=>
            /\ ti \in Indices(RangeSub(IrId(u), p.ir, M, 1, FALSE))
            /\ j \in Indices(RangeSub(JrId(u), p.jr, p.n_iter, 1, FALSE))
    BY <1>1, <1>2, SlabMine DEF IrRange, JrRange
  <2>5. Mine(t, len, ti, j)
    BY <2>1, <2>2, <2>3, <2>4
  <2>6. ASSUME NEW u \in Threads, IcId(u) = a, Mine(u, len, ti, j)
        PROVE  u = t
    <3>1. IrId(u) = d /\ JrId(u) = b
      BY <2>1, <2>2, <2>4, <2>6, IdsInRange
    <3> QED
      BY <2>3, <2>6, <3>1, IdsAreUnique
  <2> QED
    BY <2>3, <2>5, <2>6
<1>3. CASE p.tlb = TRUE
  <2> DEFINE n == M * p.n_iter
             cut == [v \in 0 .. p.jr |-> Before(p.jr, v, n)]
             x == (j * M) + ti
  <2>1. n \in Nat /\ x \in Nat /\ x < n
    <3> DEFINE N == p.n_iter
    <3>1. N \in Nat \ {0} /\ j \in 0 .. N - 1 /\ ti \in 0 .. M - 1
      BY <1>1
    <3> HIDE DEF N, M
    <3>2. (j + 1) * M <= N * M /\ (j + 1) * M = (j * M) + M /\ j * M \in Nat
      BY <1>1, <3>1, ProductMonotone, SMT
    <3>3. N * M = M * N /\ M * N \in Nat
      BY <1>1, <3>1, SMT
    <3> QED
      BY <1>1, <3>1, <3>2, <3>3, SMT DEF N
  <2>2. \A u \in Threads : Mine(u, len, ti, j) <=>
            cut[JrId(u)] <= x /\ x < cut[JrId(u) + 1]
    <3> SUFFICES ASSUME NEW u \in Threads
                 PROVE  Mine(u, len, ti, j) <=> cut[JrId(u)] <= x /\ x < cut[JrId(u) + 1]
      OBVIOUS
    <3>1. JrId(u) \in 0 .. p.jr /\ JrId(u) + 1 \in 0 .. p.jr
      BY IdsInRange, Parameters, SMT
    <3>2. 0 <= ti /\ ti < 0 + M /\ ti - 0 = ti
      BY <1>1, SMT
    <3>3. Mine(u, len, ti, j) <=>
            /\ 0 <= ti /\ ti < 0 + M
            /\ Before(p.jr, JrId(u), n) <= (j * M) + (ti - 0)
            /\ (j * M) + (ti - 0) < Before(p.jr, JrId(u) + 1, n)
      BY <1>3 DEF Mine, Base, Width, Lo, Hi, Line
    <3> QED
      BY <3>1, <3>2, <3>3
  <2>3. /\ p.jr \in Nat \ {0} /\ cut \in [0 .. p.jr -> Nat] /\ cut[0] = 0 /\ cut[p.jr] = n
        /\ \A v, w \in 0 .. p.jr : v <= w => cut[v] <= cut[w]
    <3>1. p.jr \in Nat \ {0} /\ 0 \in 0 .. p.jr /\ p.jr \in 0 .. p.jr
      BY Parameters, SMT
    <3> HIDE DEF n
    <3>2. /\ Before(p.jr, 0, n) = 0 /\ Before(p.jr, p.jr, n) = n
          /\ \A v, w \in 0 .. p.jr : v <= w =>
                Before(p.jr, v, n) \in Nat /\ Before(p.jr, v, n) <= Before(p.jr, w, n)
      BY <2>1, <3>1, BeforeCuts
    <3>3. \A v \in 0 .. p.jr : v <= v
      BY <3>1, SMT
    <3> QED
      BY <3>1, <3>2, <3>3
  <2> HIDE DEF cut, x, n, M
  <2>4. PICK b \in 0 .. p.jr - 1 :
            /\ cut[b] <= x /\ x < cut[b + 1]
            /\ \A v \in 0 .. p.jr - 1 : cut[v] <= x /\ x < cut[v + 1] => v = b
    BY <2>1, <2>3, CutsPartition
  <2>5. p.ir = 1 /\ 0 \in 0 .. p.ir - 1 /\ \A d \in 0 .. p.ir - 1 : d = 0
    BY <1>3, Parameters, SMT
  <2>6. PICK t \in Threads : IcId(t) = a /\ JrId(t) = b /\ IrId(t) = 0
    BY <2>5, ThreadWithIds
  <2>7. ASSUME NEW u \in Threads, IcId(u) = a, Mine(u, len, ti, j)
        PROVE  u = t
    <3>1. IrId(u) = 0 /\ JrId(u) = b
      BY <2>2, <2>4, <2>5, <2>7, IdsInRange
    <3> QED
      BY <2>6, <2>7, <3>1, IdsAreUnique
  <2> QED
    BY <2>2, <2>4, <2>6, <2>7
<1> QED
  BY <1>2, <1>3, Parameters

-----------------------------------------------------------------------------
(***************************************************************************)
(* The elements of C that are a thread's.                                  *)
(***************************************************************************)
Elements == (0 .. p.m - 1) \X (0 .. p.n_iter - 1)

\* The index by which the third loop counts a row
Pos(row) == IF p.backward THEN p.m - 1 - row ELSE row

RangeOf(t) == RangeSub(IcId(t), p.ic, p.m, p.MR, p.backward)
Starts(t) == Grid(p.backward, RangeOf(t).start, RangeOf(t).end, p.b_alg, p.b_max)
Size(t, idx) ==
    DetermineBlocksize(p.backward, RangeOf(t).end - idx, p.b_alg, p.b_max)
Off(idx, len) == IF p.backward THEN p.m - idx - len ELSE idx

\* Element x of C is in the block of thread t that begins at idx, and is the
\* thread's there.
TileOf(x, idx, len) == (x[1] - Off(idx, len)) \div p.MR
InBlock(t, x, idx) == idx <= Pos(x[1]) /\ Pos(x[1]) < idx + Size(t, idx)
OwnsIn(t, x, idx) ==
    /\ InBlock(t, x, idx)
    /\ Mine(t, Size(t, idx), TileOf(x, idx, Size(t, idx)), x[2])
Owns(t, x) == \E idx \in Starts(t) : OwnsIn(t, x, idx)

LEMMA Positions ==
    ASSUME Tame, NEW x \in Elements
    PROVE  /\ x[1] \in 0 .. p.m - 1 /\ x[2] \in 0 .. p.n_iter - 1
           /\ Pos(x[1]) \in 0 .. p.m - 1
           /\ x[1] = IF p.backward THEN p.m - 1 - Pos(x[1]) ELSE Pos(x[1])
<1>1. x[1] \in 0 .. p.m - 1 /\ x[2] \in 0 .. p.n_iter - 1
  BY DEF Elements
<1>2. p.m \in Nat /\ p.backward \in BOOLEAN
  BY Parameters
<1> QED
  BY <1>1, <1>2, SMT DEF Pos

LEMMA RangeOfWithin ==
    ASSUME Tame, NEW t \in Threads
    PROVE  /\ RangeOf(t) \in [start : Nat, end : Nat]
           /\ RangeOf(t).start <= RangeOf(t).end /\ RangeOf(t).end <= p.m
BY Parameters, IdsInRange, RangeWithin DEF RangeOf

LEMMA StartsStep ==
    ASSUME Tame, NEW t \in Threads, NEW idx \in Starts(t)
    PROVE  /\ idx \in Nat /\ RangeOf(t).start <= idx /\ idx < RangeOf(t).end
           /\ Size(t, idx) \in Nat \ {0} /\ idx + Size(t, idx) <= RangeOf(t).end
           /\ idx + Size(t, idx) # RangeOf(t).end => idx + Size(t, idx) \in Starts(t)
           /\ \A next \in Starts(t) : idx < next => idx + Size(t, idx) <= next
<1> DEFINE start == RangeOf(t).start
           end == RangeOf(t).end
           size == Size(t, idx)
<1>1. start \in Nat /\ end \in Nat
  BY RangeOfWithin
<1>2. idx \in start .. end - 1
  BY DEF Starts, Grid
<1>3. size = DetermineBlocksize(p.backward, end - idx, p.b_alg, p.b_max)
  BY DEF Size
<1>4. Starts(t) = Grid(p.backward, start, end, p.b_alg, p.b_max)
  BY DEF Starts
<1>5. /\ p.backward \in BOOLEAN /\ p.b_alg \in Nat \ {0} /\ p.b_max \in Nat
      /\ p.b_alg <= p.b_max /\ (p.backward => p.b_max = p.b_alg)
  BY Parameters
<1> HIDE DEF start, end, size
<1>6. /\ size \in 1 .. end - idx
      /\ idx + size # end => idx + size \in Starts(t)
      /\ \A next \in Starts(t) : idx < next => idx + size <= next
  BY <1>1, <1>3, <1>4, <1>5, GridStep
<1> QED
  BY <1>1, <1>2, <1>6, SMT DEF start, end, size

LEMMA FirstStart ==
    ASSUME Tame, NEW t \in Threads
    PROVE  RangeOf(t).start \in Starts(t) \/ RangeOf(t).start = RangeOf(t).end
<1> DEFINE start == RangeOf(t).start
           end == RangeOf(t).end
<1>1. start \in Nat /\ end \in Nat /\ start <= end
  BY RangeOfWithin
<1> HIDE DEF start, end
<1>2. start # end => start \in Grid(p.backward, start, end, p.b_alg, p.b_max)
  BY <1>1, SMT DEF Grid
<1> QED
  BY <1>2 DEF Starts, start, end

\* Where the rows of a block are.
LEMMA BlockRows ==
    ASSUME Tame, NEW t \in Threads, NEW idx \in Starts(t)
    PROVE  /\ Off(idx, Size(t, idx)) \in Nat
           /\ \A x \in Elements : InBlock(t, x, idx) <=>
                x[1] - Off(idx, Size(t, idx)) \in 0 .. Size(t, idx) - 1
<1> DEFINE size == Size(t, idx)
           end == RangeOf(t).end
           m == p.m
<1>1. idx \in Nat /\ size \in Nat \ {0} /\ end \in Nat /\ m \in Nat
  BY StartsStep, RangeOfWithin, Parameters
<1>2. idx + size <= end /\ end <= m
  BY StartsStep, RangeOfWithin
<1>3. Off(idx, size) = IF p.backward THEN m - idx - size ELSE idx
  BY DEF Off
<1>4. \A x \in Elements : InBlock(t, x, idx) <=> idx <= Pos(x[1]) /\ Pos(x[1]) < idx + size
  BY DEF InBlock
<1>5. \A x \in Elements :
        /\ x[1] \in 0 .. m - 1 /\ Pos(x[1]) \in 0 .. m - 1
        /\ x[1] = IF p.backward THEN m - 1 - Pos(x[1]) ELSE Pos(x[1])
  BY Positions
<1>6. p.backward \in BOOLEAN
  BY Parameters
<1> HIDE DEF size, end, m
<1>7. Off(idx, size) \in Nat
  BY <1>1, <1>2, <1>3, <1>6, SMT
<1>8. ASSUME NEW x \in Elements
      PROVE  InBlock(t, x, idx) <=> x[1] - Off(idx, size) \in 0 .. size - 1
  BY <1>1, <1>2, <1>3, <1>4, <1>5, <1>6, SMT
<1> QED
  BY <1>7, <1>8 DEF size

\* An element in a block is in one of its microtiles.
LEMMA TileInBlock ==
    ASSUME Tame, NEW t \in Threads, NEW idx \in Starts(t),
           NEW x \in Elements, InBlock(t, x, idx)
    PROVE  TileOf(x, idx, Size(t, idx)) \in 0 .. MIters(Size(t, idx)) - 1
<1>1. Size(t, idx) \in Nat \ {0}
  BY StartsStep
<1>2. x[1] - Off(idx, Size(t, idx)) \in 0 .. Size(t, idx) - 1
  BY BlockRows
<1> QED
  BY <1>1, <1>2, MItersCover DEF TileOf

\* The blocks of a thread do not overlap.
LEMMA OneBlock ==
    ASSUME Tame, NEW t \in Threads, NEW x \in Elements,
           NEW idx \in Starts(t), NEW idy \in Starts(t),
           InBlock(t, x, idx), InBlock(t, x, idy)
    PROVE  idx = idy
<1>1. /\ idx \in Nat /\ idy \in Nat /\ Size(t, idx) \in Nat /\ Size(t, idy) \in Nat
      /\ idx < idy => idx + Size(t, idx) <= idy
      /\ idy < idx => idy + Size(t, idy) <= idx
  BY StartsStep
<1>2. Pos(x[1]) \in Nat
  BY Positions
<1> QED
  BY <1>1, <1>2, SMT DEF InBlock

\* No element of C is two threads'.
LEMMA OwnerIsUnique ==
    ASSUME Tame, NEW t \in Threads, NEW u \in Threads, NEW x \in Elements,
           Owns(t, x), Owns(u, x)
    PROVE  t = u
<1>1. PICK idx \in Starts(t) : OwnsIn(t, x, idx)
  BY DEF Owns
<1>2. PICK idy \in Starts(u) : OwnsIn(u, x, idy)
  BY DEF Owns
<1>3. IcId(t) = IcId(u)
  <2> DEFINE pos == Pos(x[1])
  <2>1. /\ p.ic \in Nat \ {0} /\ p.m \in Nat /\ p.MR \in Nat \ {0} /\ p.backward \in BOOLEAN
        /\ pos \in 0 .. p.m - 1
    BY Parameters, Positions
  <2>2. idx <= pos /\ pos < idx + Size(t, idx) /\ idy <= pos /\ pos < idy + Size(u, idy)
    BY <1>1, <1>2 DEF OwnsIn, InBlock
  <2> HIDE DEF pos
  <2>3. pos \in Indices(RangeOf(t)) /\ pos \in Indices(RangeOf(u))
    <3>1. /\ RangeOf(t).start \in Nat /\ RangeOf(t).end \in Nat
          /\ RangeOf(u).start \in Nat /\ RangeOf(u).end \in Nat
      BY RangeOfWithin
    <3>2. /\ idx \in Nat /\ RangeOf(t).start <= idx /\ idx + Size(t, idx) <= RangeOf(t).end
          /\ idy \in Nat /\ RangeOf(u).start <= idy /\ idy + Size(u, idy) <= RangeOf(u).end
          /\ Size(t, idx) \in Nat /\ Size(u, idy) \in Nat
      BY StartsStep
    <3> QED
      BY <2>1, <2>2, <3>1, <3>2, SMT DEF Indices
  <2>4. PICK w \in 0 .. p.ic - 1 :
            \A v \in (0 .. p.ic - 1) \ {w} :
                pos \notin Indices(RangeSub(v, p.ic, p.m, p.MR, p.backward))
    BY <2>1, RangesPartition
  <2> QED
    BY <2>3, <2>4, IdsInRange DEF RangeOf
<1>4. RangeOf(t) = RangeOf(u)
  BY <1>3 DEF RangeOf
<1>5. Starts(t) = Starts(u) /\ \A n : Size(t, n) = Size(u, n)
  BY <1>4 DEF Starts, Size
<1>6. idx = idy
  BY <1>1, <1>2, <1>5, OneBlock DEF OwnsIn, InBlock
<1> DEFINE len == Size(t, idx)
           ti == TileOf(x, idx, len)
<1>7. Mine(t, len, ti, x[2]) /\ Mine(u, len, ti, x[2])
  BY <1>1, <1>2, <1>5, <1>6 DEF OwnsIn
<1>8. len \in Nat \ {0} /\ ti \in 0 .. MIters(len) - 1 /\ x[2] \in 0 .. p.n_iter - 1
  BY <1>1, StartsStep, TileInBlock, Positions DEF OwnsIn
<1> HIDE DEF len, ti
<1> QED
  BY <1>3, <1>7, <1>8, IdsInRange, TileOwner

\* Every element of C is some thread's.
LEMMA OwnerExists ==
    ASSUME Tame, NEW x \in Elements
    PROVE  \E t \in Threads : Owns(t, x)
<1> DEFINE pos == Pos(x[1])
<1>1. /\ p.ic \in Nat \ {0} /\ p.m \in Nat /\ p.MR \in Nat \ {0} /\ p.backward \in BOOLEAN
      /\ pos \in 0 .. p.m - 1
  BY Parameters, Positions
<1>2. PICK a \in 0 .. p.ic - 1 :
        pos \in Indices(RangeSub(a, p.ic, p.m, p.MR, p.backward))
  <2> HIDE DEF pos
  <2> QED
    BY <1>1, RangesPartition
<1>3. PICK s \in Threads : IcId(s) = a
  <2>1. 0 \in 0 .. p.jr - 1 /\ 0 \in 0 .. p.ir - 1
    BY Parameters, SMT
  <2> QED
    BY <2>1, ThreadWithIds
<1> DEFINE start == RangeOf(s).start
           end == RangeOf(s).end
<1>4. start \in Nat /\ end \in Nat /\ pos \in start .. end - 1
  BY <1>2, <1>3, RangeOfWithin DEF RangeOf, Indices
<1>5. PICK idx \in Grid(p.backward, start, end, p.b_alg, p.b_max) :
        /\ idx <= pos
        /\ pos < idx + DetermineBlocksize(p.backward, end - idx, p.b_alg, p.b_max)
  <2>1. /\ p.b_alg \in Nat \ {0} /\ p.b_max \in Nat /\ p.b_alg <= p.b_max
        /\ p.backward => p.b_max = p.b_alg
    BY Parameters
  <2> DEFINE alg == p.b_alg
             max == p.b_max
             backward == p.backward
  <2>2. /\ backward \in BOOLEAN /\ start \in Nat /\ end \in Nat
        /\ alg \in Nat \ {0} /\ max \in Nat /\ alg <= max
        /\ backward => max = alg
        /\ pos \in start .. end - 1
    BY <1>1, <1>4, <2>1
  <2> HIDE DEF pos, start, end, alg, max, backward
  <2>3. \E idx \in Grid(backward, start, end, alg, max) :
          idx <= pos /\ pos < idx + DetermineBlocksize(backward, end - idx, alg, max)
    BY <2>2, GridCovers
  <2> QED
    BY <2>3 DEF alg, max, backward
<1>6. idx \in Starts(s) /\ InBlock(s, x, idx)
  BY <1>5 DEF Starts, InBlock, Size
<1> DEFINE len == Size(s, idx)
           ti == TileOf(x, idx, len)
<1>7. len \in Nat \ {0} /\ ti \in 0 .. MIters(len) - 1 /\ x[2] \in 0 .. p.n_iter - 1
  BY <1>6, StartsStep, TileInBlock, Positions
<1>8. PICK t \in Threads : IcId(t) = a /\ Mine(t, len, ti, x[2])
  <2> HIDE DEF len, ti
  <2> QED
    BY <1>7, TileOwner
<1>9. RangeOf(t) = RangeOf(s)
  BY <1>3, <1>8 DEF RangeOf
<1>10. Starts(t) = Starts(s) /\ \A n : Size(t, n) = Size(s, n)
  BY <1>9 DEF Starts, Size
<1>11. idx \in Starts(t) /\ OwnsIn(t, x, idx)
  BY <1>6, <1>8, <1>10 DEF OwnsIn, InBlock
<1> QED
  BY <1>11 DEF Owns

-----------------------------------------------------------------------------
(***************************************************************************)
(* The macrokernel.                                                        *)
(***************************************************************************)
KerType ==
    [j : Nat, i : Nat, j_end : Nat, i_end : Nat, i_next : Nat, n_ut : Nat]

\* Thread t of a block of len rows is at one of its microtiles, and n_ut
\* says how many are left.
KerOk(t, len, k) ==
    /\ k \in KerType
    /\ k.i_next = Base(t, len) /\ k.i_end = Base(t, len) + Width(t, len)
    /\ k.i_next <= k.i /\ k.i < k.i_end
    /\ Lo(t, len) <= Line(t, len, k.i, k.j)
    /\ Line(t, len, k.i, k.j) + k.n_ut = Hi(t, len)
    /\ Hi(t, len) <= k.j_end * Width(t, len)

LEMMA TileBounds ==
    ASSUME Tame, p.tlb = TRUE, NEW t \in Threads, NEW len \in Nat \ {0}
    PROVE  /\ Base(t, len) = 0 /\ Width(t, len) = MIters(len)
           /\ Lo(t, len) = Before(p.jr, JrId(t), MIters(len) * p.n_iter)
           /\ Hi(t, len) = Before(p.jr, JrId(t) + 1, MIters(len) * p.n_iter)
           /\ Lo(t, len) \in Nat /\ Hi(t, len) \in Nat
           /\ Hi(t, len) <= p.n_iter * MIters(len)
<1> DEFINE n == MIters(len) * p.n_iter
           jr == p.jr
           id == JrId(t)
<1>1. /\ Base(t, len) = 0 /\ Width(t, len) = MIters(len)
      /\ Lo(t, len) = Before(jr, id, n)
      /\ Hi(t, len) = Before(jr, id + 1, n)
  BY DEF Base, Width, Lo, Hi
<1>2. n \in Nat /\ p.n_iter * MIters(len) = n
  BY MItersCover, Parameters, SMT
<1>3. jr \in Nat \ {0} /\ id \in 0 .. jr - 1
  BY Parameters, IdsInRange
<1> HIDE DEF n, jr, id
<1>4. id \in 0 .. jr /\ id + 1 \in 0 .. jr /\ jr \in 0 .. jr /\ id <= id + 1 /\ id + 1 <= jr
  BY <1>3, SMT
<1>5. /\ Before(jr, jr, n) = n
      /\ \A v, w \in 0 .. jr : v <= w =>
            /\ Before(jr, v, n) \in Nat /\ Before(jr, w, n) \in Nat
            /\ Before(jr, v, n) <= Before(jr, w, n)
  BY <1>2, <1>3, BeforeCuts
<1>6. Before(jr, id, n) \in Nat /\ Before(jr, id + 1, n) \in Nat /\ Before(jr, id + 1, n) <= n
  BY <1>4, <1>5
<1> QED
  BY <1>1, <1>2, <1>6 DEF n, jr, id

LEMMA BoundsType ==
    ASSUME Tame, NEW t \in Threads, NEW len \in Nat \ {0}
    PROVE  /\ Base(t, len) \in Nat /\ Width(t, len) \in Nat
           /\ Lo(t, len) \in Nat /\ Hi(t, len) \in Nat
<1>1. CASE p.tlb = TRUE
  <2>1. Base(t, len) = 0 /\ Width(t, len) = MIters(len)
    BY <1>1, TileBounds
  <2>2. Lo(t, len) \in Nat /\ Hi(t, len) \in Nat
    BY <1>1, TileBounds
  <2>3. MIters(len) \in Nat
    BY MItersCover
  <2> QED
    BY <2>1, <2>2, <2>3
<1>2. CASE p.tlb = FALSE
  <2> DEFINE js == JrRange(t).start
             je == JrRange(t).end
             w == Width(t, len)
  <2>1. /\ Base(t, len) \in Nat /\ w \in Nat /\ js \in Nat /\ je \in Nat
        /\ Lo(t, len) = js * w /\ Hi(t, len) = je * w
    BY <1>2, SlabBounds
  <2> HIDE DEF js, je, w
  <2>2. js * w \in Nat /\ je * w \in Nat
    BY <2>1, Product
  <2> QED
    BY <2>1, <2>2 DEF w
<1> QED
  BY <1>1, <1>2, Parameters

LEMMA SlabStart ==
    ASSUME Tame, p.tlb = FALSE, NEW t \in Threads, NEW len \in Nat \ {0},
           block[t].len = len,
           NEW k, k = Slabs(t)
    PROVE  /\ k.n_ut = 0 => \A ti, j \in Nat : ~ Mine(t, len, ti, j)
           /\ k.n_ut # 0 => KerOk(t, len, k) /\ k.n_ut > 0
                            /\ Line(t, len, k.i, k.j) = Lo(t, len)
<1> DEFINE is == IrRange(t, len).start
           ie == IrRange(t, len).end
           js == JrRange(t).start
           je == JrRange(t).end
           w == Width(t, len)
<1>1. /\ is \in Nat /\ ie \in Nat /\ is <= ie /\ js \in Nat /\ je \in Nat /\ js <= je
      /\ w \in Nat /\ w = ie - is /\ Base(t, len) = is
      /\ Lo(t, len) = js * w /\ Hi(t, len) = je * w
  BY SlabBounds
<1>2. k = [j |-> js, i |-> is, j_end |-> je, i_end |-> ie, i_next |-> is,
           n_ut |-> (ie - is) * (je - js)]
  BY DEF Slabs, MIter, MIters, IrRange, JrRange
<1>3. \A ti, j \in Nat : Mine(t, len, ti, j) <=> ti \in is .. ie - 1 /\ j \in js .. je - 1
  BY SlabMine DEF Indices
<1>4. Line(t, len, is, js) = (js * w) + (is - is)
  BY <1>1 DEF Line
<1> HIDE DEF is, ie, js, je, w
<1>5. /\ js * w \in Nat /\ je * w \in Nat /\ (ie - is) * (je - js) \in Nat
      /\ (js * w) + ((ie - is) * (je - js)) = je * w
  BY <1>1, SMT
<1>6. Line(t, len, is, js) = js * w
  BY <1>1, <1>4, <1>5, SMT
<1>7. CASE k.n_ut = 0
  <2>1. (ie - is) * (je - js) = 0
    BY <1>2, <1>7
  <2>2. ie = is \/ je = js
    <3> DEFINE a == ie - is
               b == je - js
    <3>1. a \in Nat /\ b \in Nat /\ a * b = 0
      BY <1>1, <2>1, SMT
    <3> HIDE DEF a, b
    <3>2. 1 <= a => 1 * b <= a * b
      BY <3>1, ProductMonotone
    <3>3. a = 0 \/ b = 0
      BY <3>1, <3>2, SMT
    <3> QED
      BY <1>1, <3>3, SMT DEF a, b
  <2>3. \A ti, j \in Nat : ~ (ti \in is .. ie - 1 /\ j \in js .. je - 1)
    BY <1>1, <2>2, SMT
  <2> QED
    BY <1>3, <1>7, <2>3
<1>8. CASE k.n_ut # 0
  <2>1. (ie - is) * (je - js) # 0
    BY <1>2, <1>8
  <2>2. is < ie /\ (ie - is) * (je - js) > 0
    BY <1>1, <1>5, <2>1, SMT
  <2>3. k \in KerType
    BY <1>1, <1>2, <1>5 DEF KerType
  <2>4. is + w = ie /\ is <= is /\ js * w <= js * w /\ je * w <= je * w
    BY <1>1, <1>5, SMT
  <2>5. KerOk(t, len, k)
    BY <1>1, <1>2, <1>5, <1>6, <2>2, <2>3, <2>4 DEF KerOk, w
  <2>6. k.n_ut > 0 /\ Line(t, len, k.i, k.j) = Lo(t, len)
    BY <1>1, <1>2, <1>6, <2>2
  <2> QED
    BY <1>8, <2>5, <2>6
<1> QED
  BY <1>7, <1>8

LEMMA TileStart ==
    ASSUME Tame, p.tlb = TRUE, NEW t \in Threads, NEW len \in Nat \ {0},
           block[t].len = len,
           NEW k, k = Tiles(t)
    PROVE  /\ k.n_ut = 0 => \A ti, j \in Nat : ~ Mine(t, len, ti, j)
           /\ k.n_ut # 0 => KerOk(t, len, k) /\ k.n_ut > 0
                            /\ Line(t, len, k.i, k.j) = Lo(t, len)
<1> DEFINE M == MIters(len)
           r == RangeTlb(p.jr, JrId(t), M, p.n_iter)
           lo == Lo(t, len)
           hi == Hi(t, len)
<1>1. /\ Base(t, len) = 0 /\ Width(t, len) = M /\ M \in Nat \ {0}
      /\ lo = Before(p.jr, JrId(t), M * p.n_iter)
      /\ hi = Before(p.jr, JrId(t) + 1, M * p.n_iter)
      /\ lo \in Nat /\ hi \in Nat /\ hi <= p.n_iter * M /\ p.n_iter \in Nat
  BY TileBounds, MItersCover, Parameters
<1>2. k = [j |-> r.j, i |-> r.i, j_end |-> p.n_iter, i_end |-> M,
           i_next |-> 0, n_ut |-> r.n_ut]
  BY DEF Tiles, MIter, MIters
<1>3. /\ r.n_ut = hi - lo /\ r.j \in Nat /\ r.i \in 0 .. M - 1
      /\ (r.j * M) + r.i = lo
  <2>1. PICK jr \in Nat \ {0} : jr = p.jr
    BY Parameters
  <2>2. PICK id \in 0 .. jr - 1 : id = JrId(t)
    BY <2>1, IdsInRange
  <2>3. PICK m_iter \in Nat \ {0} : m_iter = M
    BY <1>1
  <2>4. PICK n_iter \in Nat : n_iter = p.n_iter
    BY <1>1
  <2>5. lo = Before(jr, id, m_iter * n_iter) /\ hi = Before(jr, id + 1, m_iter * n_iter)
    BY <1>1, <2>1, <2>2, <2>3, <2>4
  <2>6. PICK x : x = RangeTlb(jr, id, m_iter, n_iter)
    OBVIOUS
  <2>7. r = x
    BY <2>1, <2>2, <2>3, <2>4, <2>6
  <2> HIDE DEF M, r, lo, hi
  <2>8. /\ x.n_ut = hi - lo /\ x.j \in Nat /\ x.i \in 0 .. m_iter - 1
        /\ (x.j * m_iter) + x.i = lo
    <3>1. SharesOut(RangeTlb(jr, id, m_iter, n_iter), jr, id, m_iter, m_iter * n_iter)
      BY <2>1, <2>2, <2>3, <2>4, TlbRange
    <3>2. SharesOut(x, jr, id, m_iter, m_iter * n_iter)
      BY <2>6, <3>1, Zenon
    <3> QED
      BY <2>5, <3>2, Zenon DEF SharesOut
  <2> QED
    BY <2>3, <2>7, <2>8
<1>4. lo <= hi
  <2> DEFINE n == M * p.n_iter
             jr == p.jr
             id == JrId(t)
  <2>1. jr \in Nat \ {0} /\ id \in 0 .. jr - 1 /\ n \in Nat
    BY <1>1, Parameters, IdsInRange, Product
  <2>2. lo = Before(jr, id, n) /\ hi = Before(jr, id + 1, n)
    BY <1>1
  <2> HIDE DEF n, jr, id, lo, hi
  <2>3. id \in 0 .. jr /\ id + 1 \in 0 .. jr /\ id <= id + 1
    BY <2>1, SMT
  <2> QED
    BY <2>1, <2>2, <2>3, BeforeCuts
<1>5. Line(t, len, k.i, k.j) = (r.j * M) + (r.i - 0)
  BY <1>1, <1>2 DEF Line
<1> DEFINE rj == r.j
           ri == r.i
           ut == r.n_ut
<1>6. k = [j |-> rj, i |-> ri, j_end |-> p.n_iter, i_end |-> M, i_next |-> 0, n_ut |-> ut]
  BY <1>2
<1>7. ut = hi - lo /\ rj \in Nat /\ ri \in 0 .. M - 1 /\ (rj * M) + ri = lo
  BY <1>3
<1>8. Line(t, len, k.i, k.j) = lo
  <2>1. ri - 0 = ri
    BY <1>1, <1>7, SMT
  <2> QED
    BY <1>5, <1>7, <2>1
<1> HIDE DEF M, r, rj, ri, ut
<1>9. CASE ut = 0
  <2>1. lo = hi
    BY <1>1, <1>7, <1>9, SMT
  <2>2. ASSUME NEW ti \in Nat, NEW j \in Nat, Mine(t, len, ti, j)
        PROVE  FALSE
    <3>1. lo <= Line(t, len, ti, j) /\ Line(t, len, ti, j) < hi
      BY <2>2 DEF Mine
    <3>2. 0 <= ti /\ Line(t, len, ti, j) = (j * M) + (ti - 0)
      BY <1>1, <2>2 DEF Mine, Line
    <3>3. Line(t, len, ti, j) \in Nat
      BY <1>1, <3>2, SMT
    <3> HIDE DEF lo, hi
    <3> QED
      BY <1>1, <2>1, <3>1, <3>3, SMT
  <2> QED
    BY <1>6, <1>9, <2>2
<1>10. CASE ut # 0
  <2> DEFINE N == p.n_iter
  <2>1. ut \in Nat /\ ut > 0 /\ lo + ut = hi
    <3> HIDE DEF lo, hi
    <3> QED
      BY <1>1, <1>4, <1>7, <1>10, SMT
  <2>2. ri \in Nat /\ 0 <= ri /\ ri < 0 + M /\ 0 + M = M /\ N \in Nat /\ 0 \in Nat /\ M \in Nat
    BY <1>1, <1>7, SMT
  <2>3. k \in KerType
    BY <1>6, <1>7, <2>1, <2>2 DEF KerType
  <2>4. lo <= lo
    BY <1>1, SMT
  <2>5. KerOk(t, len, k)
    BY <1>1, <1>6, <1>8, <2>1, <2>2, <2>3, <2>4 DEF KerOk
  <2> QED
    BY <1>6, <1>8, <1>10, <2>1, <2>5
<1> QED
  BY <1>9, <1>10

\* The next microtile is the next in the order, as long as there is one.
LEMMA AdvanceLine ==
    ASSUME Tame, NEW t \in Threads, NEW len \in Nat \ {0},
           NEW k, KerOk(t, len, k), k.n_ut > 0
    PROVE  /\ Advance(k).n_ut = k.n_ut - 1
           /\ k.n_ut - 1 # 0 =>
                /\ ~ (Advance(k).j >= Advance(k).j_end)
                /\ KerOk(t, len, Advance(k)) /\ Advance(k).n_ut > 0
                /\ Line(t, len, Advance(k).i, Advance(k).j)
                        = Line(t, len, k.i, k.j) + 1
<1> DEFINE w == Width(t, len)
           b == Base(t, len)
           lo == Lo(t, len)
           hi == Hi(t, len)
           a == Advance(k)
           line == Line(t, len, k.i, k.j)
<1>1. /\ k \in KerType /\ k.i_next = b /\ k.i_end = b + w
      /\ k.i_next <= k.i /\ k.i < k.i_end
      /\ lo <= line /\ line + k.n_ut = hi
      /\ hi <= k.j_end * w
  BY DEF KerOk
<1>2. b \in Nat /\ w \in Nat /\ lo \in Nat /\ hi \in Nat
  BY BoundsType
<1>3. \A ti, j : Line(t, len, ti, j) = (j * w) + (ti - b)
  BY DEF Line
<1>4. /\ k.j \in Nat /\ k.i \in Nat /\ k.j_end \in Nat /\ k.i_end \in Nat
      /\ k.i_next \in Nat /\ k.n_ut \in Nat
  BY <1>1 DEF KerType
<1>5. a \in KerType /\ a.n_ut = k.n_ut - 1 /\ a.j_end = k.j_end /\ a.i_end = k.i_end
      /\ a.i_next = k.i_next
      /\ a.i = (IF k.i + 1 < k.i_end THEN k.i + 1 ELSE k.i_next)
      /\ a.j = (IF k.i + 1 < k.i_end THEN k.j ELSE k.j + 1)
  <2>1. k.n_ut - 1 \in Nat /\ k.i + 1 \in Nat /\ k.j + 1 \in Nat
    BY <1>4, SMT
  <2>2. CASE k.i + 1 < k.i_end
    <3>1. a = [k EXCEPT !.i = @ + 1, !.n_ut = @ - 1]
      BY <2>2 DEF Advance
    <3> HIDE DEF a
    <3> QED
      BY <1>1, <2>1, <2>2, <3>1 DEF KerType
  <2>3. CASE ~(k.i + 1 < k.i_end)
    <3>1. a = [k EXCEPT !.j = @ + 1, !.i = k.i_next, !.n_ut = @ - 1]
      BY <2>3 DEF Advance
    <3> HIDE DEF a
    <3> QED
      BY <1>1, <1>4, <2>1, <2>3, <3>1 DEF KerType
  <2> QED
    BY <2>2, <2>3
<1> HIDE DEF w, b, lo, hi, a, line
<1>6. line = (k.j * w) + (k.i - b) /\ k.j * w \in Nat
  BY <1>2, <1>3, <1>4, Product DEF line
<1>7. Line(t, len, a.i, a.j) = line + 1 /\ a.i \in Nat /\ a.j \in Nat
      /\ k.i_next <= a.i /\ a.i < k.i_end
  <2>1. Line(t, len, a.i, a.j) = (a.j * w) + (a.i - b)
    BY <1>3
  <2>2. (k.j + 1) * w = (k.j * w) + w
    BY <1>2, <1>4, SMT
  <2>3. CASE k.i + 1 < k.i_end
    <3>1. a.i = k.i + 1 /\ a.j = k.j
      BY <1>5, <2>3
    <3>2. (k.j * w) + ((k.i + 1) - b) = line + 1
      BY <1>2, <1>4, <1>6, SMT
    <3> QED
      BY <1>1, <1>4, <2>1, <2>3, <3>1, <3>2, SMT
  <2>4. CASE ~(k.i + 1 < k.i_end)
    <3>1. a.i = k.i_next /\ a.j = k.j + 1
      BY <1>5, <2>4
    <3>2. k.i = b + w - 1
      BY <1>1, <1>2, <1>4, <2>4, SMT
    <3>3. ((k.j + 1) * w) + (b - b) = line + 1
      BY <1>2, <1>4, <1>6, <2>2, <3>2, SMT
    <3>4. k.i_next <= k.i_next /\ k.i_next < k.i_end
      BY <1>1, <1>4, SMT
    <3>5. k.j + 1 \in Nat
      BY <1>4, SMT
    <3> QED
      BY <1>1, <1>4, <2>1, <3>1, <3>3, <3>4, <3>5
  <2> QED
    BY <2>3, <2>4
<1>8. ASSUME k.n_ut - 1 # 0
      PROVE  ~ (a.j >= a.j_end) /\ KerOk(t, len, a) /\ a.n_ut > 0
  <2>1. line \in Nat /\ line + 1 < hi /\ lo <= line + 1 /\ line + 1 + (k.n_ut - 1) = hi
        /\ k.n_ut - 1 > 0
    BY <1>1, <1>2, <1>4, <1>6, <1>8, SMT
  <2>2. ~ (a.j >= k.j_end)
    <3> SUFFICES ASSUME a.j >= k.j_end PROVE FALSE
      OBVIOUS
    <3> DEFINE aj == a.j
               ai == a.i
               je == k.j_end
    <3>1. aj \in Nat /\ ai \in Nat /\ je \in Nat /\ je <= aj
      BY <1>4, <1>7
    <3>2. line + 1 = (aj * w) + (ai - b) /\ b <= ai /\ hi <= je * w
      BY <1>1, <1>3, <1>7
    <3> HIDE DEF aj, ai, je
    <3>3. je * w <= aj * w /\ je * w \in Nat /\ aj * w \in Nat
      BY <1>2, <3>1, Product, ProductMonotone
    <3> QED
      BY <1>2, <2>1, <3>1, <3>2, <3>3, SMT
  <2>3. KerOk(t, len, a)
    BY <1>1, <1>5, <1>7, <2>1 DEF KerOk, w, b, lo, hi
  <2> QED
    BY <1>5, <2>1, <2>2, <2>3
<1>9. a = Advance(k) /\ line = Line(t, len, k.i, k.j)
  BY DEF a, line
<1> QED
  BY <1>5, <1>7, <1>8, <1>9

\* In the order of a thread, no two microtiles are at the same place.
LEMMA LinesDiffer ==
    ASSUME NEW w \in Nat, NEW j \in Nat, NEW k \in Nat, NEW d \in 0 .. w - 1,
           NEW e \in 0 .. w - 1, (j * w) + d = (k * w) + e
    PROVE  j = k /\ d = e
<1>1. j * w \in Nat /\ k * w \in Nat
  BY Product
<1>2. ~(j + 1 <= k)
  <2>1. j + 1 <= k => (j + 1) * w <= k * w
    BY ProductMonotone, SMT
  <2>2. (j + 1) * w = (j * w) + w
    BY SMT
  <2> QED
    BY <1>1, <2>1, <2>2, SMT
<1>3. ~(k + 1 <= j)
  <2>1. k + 1 <= j => (k + 1) * w <= j * w
    BY ProductMonotone, SMT
  <2>2. (k + 1) * w = (k * w) + w
    BY SMT
  <2> QED
    BY <1>1, <2>1, <2>2, SMT
<1>4. j = k
  BY <1>2, <1>3, SMT
<1> QED
  BY <1>1, <1>4, SMT

LEMMA SameMicrotile ==
    ASSUME Tame, NEW t \in Threads, NEW len \in Nat \ {0},
           NEW k, KerOk(t, len, k), NEW ti \in Nat, NEW j \in Nat,
           Mine(t, len, ti, j), Line(t, len, ti, j) = Line(t, len, k.i, k.j)
    PROVE  ti = k.i /\ j = k.j
<1> DEFINE w == Width(t, len)
           b == Base(t, len)
           d == ti - b
           e == k.i - b
<1>1. b \in Nat /\ w \in Nat
  BY BoundsType
<1>2. k.i \in Nat /\ k.j \in Nat /\ b <= k.i /\ k.i < b + w
  BY DEF KerOk, KerType
<1>3. b <= ti /\ ti < b + w
  BY DEF Mine
<1>4. (j * w) + d = (k.j * w) + e
  BY DEF Line
<1> HIDE DEF w, b
<1>5. d \in 0 .. w - 1 /\ e \in 0 .. w - 1
  BY <1>1, <1>2, <1>3, SMT
<1> HIDE DEF d, e
<1>6. j = k.j /\ d = e
  BY <1>1, <1>2, <1>4, <1>5, LinesDiffer
<1> QED
  BY <1>1, <1>2, <1>6, SMT DEF d, e

\* The rows that a call of the microkernel updates.
LEMMA RowsOfTile ==
    ASSUME Tame, NEW t \in Threads, NEW idx \in Starts(t), NEW len, len = Size(t, idx),
           block[t] = [off |-> Off(idx, len), len |-> len], ker[t].i \in Nat,
           NEW x \in Elements
    PROVE  x[1] \in TileRows(t) <=> InBlock(t, x, idx) /\ TileOf(x, idx, len) = ker[t].i
<1> DEFINE off == Off(idx, len)
           MR == p.MR
           ki == ker[t].i
           row == x[1]
           d == row - off
           first == off + ki * MR
<1>1. len \in Nat \ {0} /\ off \in Nat /\ MR \in Nat \ {0} /\ ki \in Nat /\ row \in Nat
  BY StartsStep, BlockRows, Parameters, Positions
<1>2. InBlock(t, x, idx) <=> d \in 0 .. len - 1
  BY BlockRows
<1>3. TileRows(t) =
        first .. (IF first + MR < off + len THEN first + MR ELSE off + len) - 1
  BY DEF TileRows
<1>4. TileOf(x, idx, len) = d \div MR
  BY DEF TileOf
<1> HIDE DEF off, MR, ki, row
<1>5. ki * MR \in Nat /\ MR * ki = ki * MR
  BY <1>1, SMT
<1>6. row \in TileRows(t) <=> d \in 0 .. len - 1 /\ ki * MR <= d /\ d < (ki * MR) + MR
  BY <1>1, <1>3, <1>5, SMT
<1>7. ASSUME d \in 0 .. len - 1
      PROVE  (ki * MR <= d /\ d < (ki * MR) + MR) <=> d \div MR = ki
  <2> HIDE DEF d
  <2>1. d \in Nat
    BY <1>7, SMT
  <2>2. d \div MR \in Nat /\ d % MR \in 0 .. MR - 1 /\ d = (MR * (d \div MR)) + (d % MR)
    BY <1>1, <2>1, DivMod
  <2>3. ASSUME d \div MR = ki
        PROVE  ki * MR <= d /\ d < (ki * MR) + MR
    <3>1. d = (MR * ki) + (d % MR)
      BY <2>2, <2>3
    <3> QED
      BY <1>1, <1>5, <2>1, <2>2, <3>1, SMT
  <2>4. ASSUME ki * MR <= d, d < (ki * MR) + MR
        PROVE  d \div MR = ki
    <3> DEFINE r == d - (ki * MR)
    <3>1. r \in 0 .. MR - 1 /\ d = (MR * ki) + r
      BY <1>1, <1>5, <2>1, <2>4, SMT
    <3> HIDE DEF r
    <3>2. /\ MR \in Nat \ {0} /\ ki \in Nat /\ r \in 0 .. MR - 1 /\ d \in Nat
          /\ d = (MR * ki) + r
      BY <1>1, <2>1, <3>1
    <3> QED
      BY <3>2, DivModQuotient, Zenon
  <2> QED
    BY <2>3, <2>4
<1>8. x[1] = row /\ ker[t].i = ki
  BY DEF row, ki
<1> QED
  BY <1>2, <1>4, <1>6, <1>7, <1>8

-----------------------------------------------------------------------------
(***************************************************************************)
(* The inductive invariant.                                                *)
(***************************************************************************)

\* Thread t has updated element x: it is the thread's, and in an earlier
\* block or before the microtile that the thread is at.
Done(t, x) ==
    /\ pc[t] # "range" /\ Owns(t, x)
    /\ \/ Pos(x[1]) < i[t]
       \/ /\ pc[t] = "tile" /\ Pos(x[1]) < i[t] + b_alg[t]
          /\ Line(t, b_alg[t], TileOf(x, i[t], b_alg[t]), x[2])
                < Line(t, b_alg[t], ker[t].i, ker[t].j)

Points == {"range", "block", "kernel", "tile", "done"}

Typed ==
    /\ Tame
    /\ pc \in [Threads -> Points]
    /\ i \in [Threads -> Nat]
    /\ b_alg \in [Threads -> Nat]
    /\ range \in [Threads -> [start : Nat, end : Nat]]
    /\ block \in [Threads -> [off : Nat, len : Nat]]
    /\ ker \in [Threads -> KerType]

\* The third loop is at the beginning of a block, or at the end.
LoopAt(t) ==
    /\ pc[t] # "range" =>
          range[t] = RangeOf(t) /\ (i[t] \in Starts(t) \/ i[t] = RangeOf(t).end)
    /\ pc[t] \in {"kernel", "tile"} =>
          /\ i[t] \in Starts(t) /\ b_alg[t] = Size(t, i[t])
          /\ block[t] = [off |-> Off(i[t], b_alg[t]), len |-> b_alg[t]]
    /\ pc[t] = "done" => i[t] = RangeOf(t).end

KerAt(t) == pc[t] = "tile" => KerOk(t, b_alg[t], ker[t]) /\ ker[t].n_ut > 0

\* Updated are the elements that their threads have come past, once.
CountInv ==
    /\ c \in [Elements -> {0, 1}]
    /\ \A x \in Elements : c[x] = 1 <=> \E t \in Threads : Done(t, x)

IInv ==
    /\ Typed
    /\ \A t \in Threads : LoopAt(t) /\ KerAt(t)
    /\ CountInv

\* What a thread has to do is settled by the problem, which does not change.
LEMMA Frozen ==
    ASSUME p' = p
    PROVE  /\ Tame' = Tame /\ Elements' = Elements
           /\ \A t : RangeOf(t)' = RangeOf(t) /\ Starts(t)' = Starts(t)
           /\ \A t, n : Size(t, n)' = Size(t, n)
           /\ \A n, len : Off(n, len)' = Off(n, len)
           /\ \A row : Pos(row)' = Pos(row)
           /\ \A t, len, ti, j : Line(t, len, ti, j)' = Line(t, len, ti, j)
           /\ \A x, n, len : TileOf(x, n, len)' = TileOf(x, n, len)
           /\ \A t, len, k : KerOk(t, len, k)' = KerOk(t, len, k)
           /\ \A t, x : Owns(t, x)' = Owns(t, x)
<1>1. Tame' = Tame /\ Elements' = Elements
  BY DEF Tame, Elements
<1>2. \A t : RangeOf(t)' = RangeOf(t)
  BY DEF RangeOf, IcId
<1>3. \A t : Starts(t)' = Starts(t)
  BY <1>2 DEF Starts
<1>4. \A t, n : Size(t, n)' = Size(t, n)
  BY <1>2 DEF Size
<1>5. \A n, len : Off(n, len)' = Off(n, len)
  BY DEF Off
<1>6. \A row : Pos(row)' = Pos(row)
  BY DEF Pos
<1>7. \A len : MIters(len)' = MIters(len)
  BY DEF MIters
<1>8. \A t, len : IrRange(t, len)' = IrRange(t, len)
  BY <1>7 DEF IrRange, IrId
<1>9. \A t : JrRange(t)' = JrRange(t) /\ JrId(t)' = JrId(t)
  BY DEF JrRange, JrId
<1>10. \A t, len : Base(t, len)' = Base(t, len) /\ Width(t, len)' = Width(t, len)
  BY <1>7, <1>8 DEF Base, Width
<1>11. \A t, len : Lo(t, len)' = Lo(t, len) /\ Hi(t, len)' = Hi(t, len)
  BY <1>7, <1>9, <1>10 DEF Lo, Hi
<1>12. \A t, len, ti, j : Line(t, len, ti, j)' = Line(t, len, ti, j)
  BY <1>10 DEF Line
<1>13. \A t, len, ti, j : Mine(t, len, ti, j)' = Mine(t, len, ti, j)
  BY <1>10, <1>11, <1>12 DEF Mine
<1>14. \A x, n, len : TileOf(x, n, len)' = TileOf(x, n, len)
  BY <1>5 DEF TileOf
<1>15. \A t, len, k : KerOk(t, len, k)' = KerOk(t, len, k)
  BY <1>10, <1>11, <1>12 DEF KerOk
<1>16. \A t, x, n : InBlock(t, x, n)' = InBlock(t, x, n)
  BY <1>4, <1>6 DEF InBlock
<1>17. \A t, x, n : OwnsIn(t, x, n)' = OwnsIn(t, x, n)
  BY <1>4, <1>13, <1>14, <1>16 DEF OwnsIn
<1>18. \A t, x : Owns(t, x)' = Owns(t, x)
  BY <1>3, <1>17 DEF Owns
<1> QED
  BY <1>1, <1>2, <1>3, <1>4, <1>5, <1>6, <1>12, <1>14, <1>15, <1>18

\* A thread that does not move keeps its place, and what it has updated.
LEMMA Others ==
    ASSUME p' = p, NEW t \in Threads,
           pc'[t] = pc[t], i'[t] = i[t], b_alg'[t] = b_alg[t],
           range'[t] = range[t], block'[t] = block[t], ker'[t] = ker[t],
           LoopAt(t), KerAt(t)
    PROVE  /\ LoopAt(t)' /\ KerAt(t)'
           /\ \A x : Done(t, x)' <=> Done(t, x)
<1>1. /\ RangeOf(t)' = RangeOf(t) /\ Starts(t)' = Starts(t)
      /\ Size(t, i[t])' = Size(t, i[t])
      /\ Off(i[t], b_alg[t])' = Off(i[t], b_alg[t])
      /\ KerOk(t, b_alg[t], ker[t])' = KerOk(t, b_alg[t], ker[t])
  BY Frozen
<1>2. LoopAt(t)'
  BY <1>1 DEF LoopAt
<1>3. KerAt(t)'
  BY <1>1 DEF KerAt
<1>4. ASSUME NEW x PROVE Done(t, x)' <=> Done(t, x)
  <2>1. /\ Owns(t, x)' = Owns(t, x) /\ Pos(x[1])' = Pos(x[1])
        /\ TileOf(x, i[t], b_alg[t])' = TileOf(x, i[t], b_alg[t])
        /\ Line(t, b_alg[t], ker[t].i, ker[t].j)' = Line(t, b_alg[t], ker[t].i, ker[t].j)
    BY Frozen
  <2>2. Line(t, b_alg[t], TileOf(x, i[t], b_alg[t]), x[2])'
            = Line(t, b_alg[t], TileOf(x, i[t], b_alg[t]), x[2])
    BY <2>1, Frozen
  <2> QED
    BY <2>1, <2>2 DEF Done
<1> QED
  BY <1>2, <1>3, <1>4

\* A step of a thread that updates nothing.
LEMMA NothingUpdated ==
    ASSUME IInv, p' = p, c' = c, NEW t \in Threads, Typed',
           \A u \in Threads \ {t} :
              /\ pc'[u] = pc[u] /\ i'[u] = i[u] /\ b_alg'[u] = b_alg[u]
              /\ range'[u] = range[u] /\ block'[u] = block[u] /\ ker'[u] = ker[u],
           LoopAt(t)', KerAt(t)',
           \A x \in Elements : Done(t, x)' <=> Done(t, x)
    PROVE  IInv'
<1>1. \A u \in Threads \ {t} :
        LoopAt(u)' /\ KerAt(u)' /\ \A x : Done(u, x)' <=> Done(u, x)
  BY Others DEF IInv
<1>2. \A u \in Threads : LoopAt(u)' /\ KerAt(u)'
  BY <1>1
<1>3. Elements' = Elements
  BY Frozen
<1>4. CountInv'
  <2>1. \A x \in Elements : \A u \in Threads : Done(u, x)' <=> Done(u, x)
    BY <1>1
  <2>2. c' \in [Elements' -> {0, 1}]
    BY <1>3 DEF IInv, CountInv
  <2>3. \A x \in Elements' : c'[x] = 1 <=> \E u \in Threads : Done(u, x)'
    BY <1>3, <2>1 DEF IInv, CountInv
  <2> QED
    BY <2>2, <2>3 DEF CountInv
<1> QED
  BY <1>2, <1>4 DEF IInv

LEMMA OwnedInRange ==
    ASSUME Tame, NEW t \in Threads, NEW x \in Elements, Owns(t, x)
    PROVE  RangeOf(t).start <= Pos(x[1]) /\ Pos(x[1]) < RangeOf(t).end
<1>1. PICK n \in Starts(t) : n <= Pos(x[1]) /\ Pos(x[1]) < n + Size(t, n)
  BY DEF Owns, OwnsIn, InBlock
<1>2. /\ n \in Nat /\ Size(t, n) \in Nat
      /\ RangeOf(t).start <= n /\ n + Size(t, n) <= RangeOf(t).end
  BY StartsStep
<1>3. RangeOf(t).start \in Nat /\ RangeOf(t).end \in Nat /\ Pos(x[1]) \in Nat
  BY RangeOfWithin, Positions
<1> QED
  BY <1>1, <1>2, <1>3, SMT

LEMMA InitIInv ==
    ASSUME \A q \in Problems : (q.backward => q.b_max = q.b_alg) /\ (q.tlb => q.ir = 1),
           Init
    PROVE  IInv
<1>1. Tame
  BY DEF Init, Tame
<1>2. NoBlock \in [off : Nat, len : Nat] /\ NoKer \in KerType
  BY DEF NoBlock, NoKer, KerType
<1>3. Typed
  BY <1>1, <1>2 DEF Init, Typed, Points
<1>4. \A t \in Threads : LoopAt(t) /\ KerAt(t)
  BY DEF Init, LoopAt, KerAt
<1>5. CountInv
  <2>1. c = [x \in Elements |-> 0]
    BY DEF Init, Elements
  <2>2. \A t \in Threads : \A x : ~ Done(t, x)
    BY DEF Init, Done
  <2> QED
    BY <2>1, <2>2 DEF CountInv
<1> QED
  BY <1>3, <1>4, <1>5 DEF IInv

LEMMA RangeStep ==
    ASSUME IInv, NEW t \in Threads, Range(t)
    PROVE  IInv'
<1>1. /\ pc[t] = "range" /\ p' = p /\ c' = c /\ b_alg' = b_alg /\ block' = block /\ ker' = ker
      /\ range' = [range EXCEPT ![t] = RangeOf(t)]
      /\ i' = [i EXCEPT ![t] = RangeOf(t).start]
      /\ pc' = [pc EXCEPT ![t] = "block"]
  BY DEF Range, RangeOf
<1>2. Typed /\ Tame
  BY DEF IInv, Typed
<1>3. RangeOf(t) \in [start : Nat, end : Nat]
  BY <1>2, RangeOfWithin
<1>4. RangeOf(t)' = RangeOf(t) /\ Starts(t)' = Starts(t) /\ Tame'
  BY <1>1, <1>2, Frozen
<1>5. pc'[t] = "block" /\ range'[t] = RangeOf(t) /\ i'[t] = RangeOf(t).start
  BY <1>1, <1>2 DEF Typed
<1>6. Typed'
  BY <1>1, <1>2, <1>3, <1>4 DEF Typed, Points
<1>7. LoopAt(t)' /\ KerAt(t)'
  BY <1>2, <1>4, <1>5, FirstStart DEF LoopAt, KerAt
<1>8. ASSUME NEW x \in Elements PROVE Done(t, x)' <=> Done(t, x)
  <2>1. ~ Done(t, x)
    BY <1>1 DEF Done
  <2>2. Done(t, x)' => Owns(t, x)' /\ Pos(x[1])' < RangeOf(t).start
    BY <1>5 DEF Done
  <2>3. Owns(t, x)' = Owns(t, x) /\ Pos(x[1])' = Pos(x[1])
    BY <1>1, Frozen
  <2>4. Owns(t, x) => RangeOf(t).start <= Pos(x[1])
    BY <1>2, OwnedInRange
  <2>5. RangeOf(t).start \in Nat /\ Pos(x[1]) \in Nat
    BY <1>2, <1>3, Positions
  <2> DEFINE a == RangeOf(t).start
             b == Pos(x[1])
  <2> HIDE DEF a, b
  <2>6. ~(b < a /\ a <= b) \/ a \notin Nat \/ b \notin Nat
    BY SMT
  <2> QED
    BY <2>1, <2>2, <2>3, <2>4, <2>5, <2>6 DEF a, b
<1>9. \A u \in Threads \ {t} :
        /\ pc'[u] = pc[u] /\ i'[u] = i[u] /\ b_alg'[u] = b_alg[u]
        /\ range'[u] = range[u] /\ block'[u] = block[u] /\ ker'[u] = ker[u]
  BY <1>1, <1>2 DEF Typed
<1> QED
  BY <1>1, <1>6, <1>7, <1>8, <1>9, NothingUpdated

LEMMA NextBlockStep ==
    ASSUME IInv, NEW t \in Threads, NextBlock(t)
    PROVE  IInv'
<1> DEFINE size == Size(t, i[t])
<1>1. Typed /\ Tame /\ LoopAt(t)
  BY DEF IInv, Typed
<1>2. /\ pc[t] = "block" /\ p' = p /\ c' = c /\ range' = range /\ i' = i /\ ker' = ker
      /\ i[t] < range[t].end
      /\ pc' = [pc EXCEPT ![t] = "kernel"]
  BY DEF NextBlock
<1>3. range[t] = RangeOf(t)
  BY <1>1, <1>2 DEF LoopAt
<1>4. i[t] \in Starts(t)
  <2>1. i[t] \in Starts(t) \/ i[t] = range[t].end
    BY <1>1, <1>2, <1>3 DEF LoopAt
  <2>2. i[t] \in Nat
    BY <1>1 DEF Typed
  <2> QED
    BY <1>2, <2>1, <2>2, SMT
<1>5. b_alg' = [b_alg EXCEPT ![t] = size] /\ b_alg'[t] = size
  BY <1>1, <1>2, <1>3 DEF NextBlock, Size, Typed
<1>6. /\ size \in Nat \ {0} /\ i[t] \in Nat /\ i[t] + size <= p.m /\ p.m \in Nat
  <2>1. size \in Nat \ {0} /\ i[t] \in Nat /\ i[t] + size <= RangeOf(t).end
    BY <1>1, <1>4, StartsStep
  <2>2. RangeOf(t).end <= p.m /\ RangeOf(t).end \in Nat /\ p.m \in Nat
    BY <1>1, RangeOfWithin, Parameters
  <2> HIDE DEF size
  <2> QED
    BY <2>1, <2>2, SMT
<1>7. MPart(i[t], size) = [off |-> Off(i[t], size), len |-> size]
  <2>1. ~(size > p.m - i[t])
    <3> HIDE DEF size
    <3> QED
      BY <1>6, SMT
  <2> QED
    BY <2>1 DEF MPart, Off
<1>8. block' = [block EXCEPT ![t] = [off |-> Off(i[t], size), len |-> size]]
  <2>1. block' = [block EXCEPT ![t] = MPart(i[t], b_alg'[t])]
    BY DEF NextBlock
  <2> QED
    BY <1>5, <1>7, <2>1
<1>9. Off(i[t], size) \in Nat
  BY <1>1, <1>4, BlockRows
<1>10. /\ RangeOf(t)' = RangeOf(t) /\ Starts(t)' = Starts(t) /\ Tame'
       /\ Size(t, i[t])' = size /\ Off(i[t], b_alg[t])' = Off(i[t], size)
  BY <1>1, <1>2, <1>5, Frozen
<1>11. Typed'
  BY <1>1, <1>2, <1>5, <1>6, <1>8, <1>9, <1>10 DEF Typed, Points
<1>12. pc'[t] = "kernel" /\ block'[t] = [off |-> Off(i[t], size), len |-> size]
  BY <1>1, <1>2, <1>8 DEF Typed
<1>13. LoopAt(t)' /\ KerAt(t)'
  BY <1>2, <1>3, <1>4, <1>5, <1>10, <1>12 DEF LoopAt, KerAt
<1>14. ASSUME NEW x \in Elements PROVE Done(t, x)' <=> Done(t, x)
  <2>1. Owns(t, x)' = Owns(t, x) /\ Pos(x[1])' = Pos(x[1])
    BY <1>2, Frozen
  <2> QED
    BY <1>2, <1>12, <2>1 DEF Done
<1>15. \A u \in Threads \ {t} :
        /\ pc'[u] = pc[u] /\ i'[u] = i[u] /\ b_alg'[u] = b_alg[u]
        /\ range'[u] = range[u] /\ block'[u] = block[u] /\ ker'[u] = ker[u]
  BY <1>1, <1>2, <1>5, <1>8 DEF Typed
<1> HIDE DEF size
<1> QED
  BY <1>2, <1>11, <1>13, <1>14, <1>15, NothingUpdated

LEMMA FinishStep ==
    ASSUME IInv, NEW t \in Threads, Finish(t)
    PROVE  IInv'
<1>1. Typed /\ Tame /\ LoopAt(t)
  BY DEF IInv, Typed
<1>2. /\ pc[t] = "block" /\ p' = p /\ c' = c /\ range' = range /\ i' = i /\ ker' = ker
      /\ b_alg' = b_alg /\ block' = block
      /\ i[t] >= range[t].end
      /\ pc' = [pc EXCEPT ![t] = "done"]
  BY DEF Finish
<1>3. pc'[t] = "done"
  BY <1>1, <1>2 DEF Typed
<1>4. range[t] = RangeOf(t) /\ i[t] = RangeOf(t).end
  <2>1. range[t] = RangeOf(t) /\ (i[t] \in Starts(t) \/ i[t] = RangeOf(t).end)
    BY <1>1, <1>2 DEF LoopAt
  <2>2. i[t] \in Starts(t) => i[t] < RangeOf(t).end /\ i[t] \in Nat
    BY <1>1, StartsStep
  <2>3. RangeOf(t).end \in Nat
    BY <1>1, RangeOfWithin
  <2> QED
    BY <1>2, <2>1, <2>2, <2>3, SMT
<1>5. RangeOf(t)' = RangeOf(t) /\ Starts(t)' = Starts(t) /\ Tame'
  BY <1>1, <1>2, Frozen
<1>6. Typed'
  BY <1>1, <1>2, <1>5 DEF Typed, Points
<1>7. LoopAt(t)' /\ KerAt(t)'
  BY <1>2, <1>3, <1>4, <1>5 DEF LoopAt, KerAt
<1>8. ASSUME NEW x \in Elements PROVE Done(t, x)' <=> Done(t, x)
  <2>1. Owns(t, x)' = Owns(t, x) /\ Pos(x[1])' = Pos(x[1])
    BY <1>2, Frozen
  <2> QED
    BY <1>2, <1>3, <2>1 DEF Done
<1>9. \A u \in Threads \ {t} :
        /\ pc'[u] = pc[u] /\ i'[u] = i[u] /\ b_alg'[u] = b_alg[u]
        /\ range'[u] = range[u] /\ block'[u] = block[u] /\ ker'[u] = ker[u]
  BY <1>1, <1>2 DEF Typed
<1> QED
  BY <1>2, <1>6, <1>7, <1>8, <1>9, NothingUpdated

\* At a microkernel, or before it: where the thread is.
LEMMA AtBlock ==
    ASSUME IInv, NEW t \in Threads, pc[t] \in {"kernel", "tile"}
    PROVE  /\ Tame /\ i[t] \in Starts(t) /\ i[t] \in Nat
           /\ b_alg[t] = Size(t, i[t]) /\ b_alg[t] \in Nat \ {0}
           /\ block[t] = [off |-> Off(i[t], b_alg[t]), len |-> b_alg[t]]
           /\ range[t] = RangeOf(t)
<1>1. Typed /\ Tame /\ LoopAt(t)
  BY DEF IInv, Typed
<1>2. pc[t] # "range"
  OBVIOUS
<1>3. /\ i[t] \in Starts(t) /\ b_alg[t] = Size(t, i[t]) /\ range[t] = RangeOf(t)
      /\ block[t] = [off |-> Off(i[t], b_alg[t]), len |-> b_alg[t]]
  BY <1>1, <1>2 DEF LoopAt
<1> QED
  BY <1>1, <1>3, StartsStep

\* In the block that the thread is at, its elements are those of its
\* microtiles; in the others it has done those it has come past.
LEMMA DoneInBlock ==
    ASSUME IInv, NEW t \in Threads, pc[t] \in {"kernel", "tile"}, NEW x \in Elements
    PROVE  /\ ~ InBlock(t, x, i[t]) =>
                /\ Done(t, x) <=> Owns(t, x) /\ Pos(x[1]) < i[t]
                /\ Pos(x[1]) < i[t] <=> Pos(x[1]) < i[t] + b_alg[t]
           /\ InBlock(t, x, i[t]) =>
                /\ Owns(t, x) <=> Mine(t, b_alg[t], TileOf(x, i[t], b_alg[t]), x[2])
                /\ i[t] <= Pos(x[1]) /\ Pos(x[1]) < i[t] + b_alg[t]
                /\ ~(Pos(x[1]) < i[t])
                /\ TileOf(x, i[t], b_alg[t]) \in Nat /\ x[2] \in Nat
<1> DEFINE pos == Pos(x[1])
           len == b_alg[t]
           idx == i[t]
<1>1. /\ Tame /\ idx \in Starts(t) /\ idx \in Nat /\ len = Size(t, idx) /\ len \in Nat \ {0}
  BY AtBlock
<1>2. pos \in Nat /\ x[2] \in Nat
  BY <1>1, Positions
<1>3. InBlock(t, x, idx) <=> idx <= pos /\ pos < idx + len
  BY <1>1 DEF InBlock
<1>4. ASSUME ~ InBlock(t, x, idx)
      PROVE  (Done(t, x) <=> Owns(t, x) /\ pos < idx) /\ (pos < idx <=> pos < idx + len)
  <2>1. pos < idx <=> pos < idx + len
    <3> HIDE DEF pos, idx, len
    <3> QED
      BY <1>1, <1>2, <1>3, <1>4, SMT
  <2> QED
    BY <2>1 DEF Done
<1>5. ASSUME InBlock(t, x, idx)
      PROVE  /\ Owns(t, x) <=> Mine(t, len, TileOf(x, idx, len), x[2])
             /\ idx <= pos /\ pos < idx + len /\ ~(pos < idx)
             /\ TileOf(x, idx, len) \in Nat
  <2>1. OwnsIn(t, x, idx) <=> Mine(t, len, TileOf(x, idx, len), x[2])
    BY <1>1, <1>5 DEF OwnsIn
  <2>2. \A n \in Starts(t) : OwnsIn(t, x, n) => n = idx
    BY <1>1, <1>5, OneBlock DEF OwnsIn
  <2>3. Owns(t, x) <=> OwnsIn(t, x, idx)
    BY <1>1, <2>2 DEF Owns
  <2>4. TileOf(x, idx, len) \in Nat
    <3>1. TileOf(x, idx, Size(t, idx)) \in 0 .. MIters(Size(t, idx)) - 1
      BY <1>1, <1>5, TileInBlock
    <3> DEFINE M == MIters(len)
    <3> HIDE DEF M
    <3>2. \A n \in 0 .. M - 1 : n \in Nat
      BY SMT
    <3> QED
      BY <1>1, <3>1, <3>2 DEF M
  <2>5. ~(pos < idx)
    <3> HIDE DEF pos, idx, len
    <3> QED
      BY <1>1, <1>2, <1>3, <1>5, SMT
  <2> QED
    BY <1>3, <1>5, <2>1, <2>3, <2>4, <2>5
<1> QED
  BY <1>2, <1>4, <1>5

\* When the macrokernel returns, the third loop is at the next block.
LEMMA ReturnKeeps ==
    ASSUME IInv, NEW t \in Threads, pc[t] \in {"kernel", "tile"}, KernelReturn(t),
           UNCHANGED <<p, range, b_alg, block>>
    PROVE  /\ Typed' /\ LoopAt(t)' /\ KerAt(t)'
           /\ \A x \in Elements :
                Done(t, x)' <=> Owns(t, x) /\ Pos(x[1]) < i[t] + b_alg[t]
           /\ \A u \in Threads \ {t} :
                /\ pc'[u] = pc[u] /\ i'[u] = i[u] /\ b_alg'[u] = b_alg[u]
                /\ range'[u] = range[u] /\ block'[u] = block[u] /\ ker'[u] = ker[u]
<1>1. Typed
  BY DEF IInv
<1>2. /\ p' = p /\ range' = range /\ b_alg' = b_alg /\ block' = block
      /\ pc' = [pc EXCEPT ![t] = "block"]
      /\ i' = [i EXCEPT ![t] = i[t] + b_alg[t]]
      /\ ker' = [ker EXCEPT ![t] = NoKer]
  BY DEF KernelReturn
<1>3. /\ Tame /\ i[t] \in Starts(t) /\ b_alg[t] = Size(t, i[t])
      /\ i[t] \in Nat /\ b_alg[t] \in Nat /\ range[t] = RangeOf(t)
  BY AtBlock
<1>4. pc'[t] = "block" /\ i'[t] = i[t] + b_alg[t]
  BY <1>1, <1>2 DEF Typed
<1>5. i[t] + b_alg[t] \in Nat
  BY <1>3, SMT
<1>6. /\ RangeOf(t)' = RangeOf(t) /\ Starts(t)' = Starts(t) /\ Tame'
  BY <1>2, <1>3, Frozen
<1>7. NoKer \in KerType
  BY DEF NoKer, KerType
<1>8. Typed'
  BY <1>1, <1>2, <1>5, <1>6, <1>7 DEF Typed, Points
<1>9. i[t] + b_alg[t] \in Starts(t) \/ i[t] + b_alg[t] = RangeOf(t).end
  BY <1>3, StartsStep
<1>10. LoopAt(t)' /\ KerAt(t)'
  BY <1>2, <1>3, <1>4, <1>6, <1>9 DEF LoopAt, KerAt
<1>11. ASSUME NEW x \in Elements
       PROVE  Done(t, x)' <=> Owns(t, x) /\ Pos(x[1]) < i[t] + b_alg[t]
  <2>1. Owns(t, x)' = Owns(t, x) /\ Pos(x[1])' = Pos(x[1])
    BY <1>2, Frozen
  <2> QED
    BY <1>4, <2>1 DEF Done
<1>12. \A u \in Threads \ {t} :
        /\ pc'[u] = pc[u] /\ i'[u] = i[u] /\ b_alg'[u] = b_alg[u]
        /\ range'[u] = range[u] /\ block'[u] = block[u] /\ ker'[u] = ker[u]
  BY <1>1, <1>2 DEF Typed
<1> QED
  BY <1>8, <1>10, <1>11, <1>12

LEMMA KernelStep ==
    ASSUME IInv, NEW t \in Threads, Kernel(t)
    PROVE  IInv'
<1> DEFINE k == IF p.tlb THEN Tiles(t) ELSE Slabs(t)
           len == b_alg[t]
<1>1. pc[t] = "kernel" /\ p' = p /\ c' = c /\ UNCHANGED <<p, c, range, b_alg, block>>
  BY DEF Kernel
<1>2. /\ Typed /\ Tame /\ i[t] \in Starts(t) /\ len \in Nat \ {0}
      /\ block[t] = [off |-> Off(i[t], len), len |-> len] /\ range[t] = RangeOf(t)
      /\ len = Size(t, i[t])
  BY <1>1, AtBlock DEF IInv
<1>3. /\ k.n_ut = 0 => \A ti, j \in Nat : ~ Mine(t, len, ti, j)
      /\ k.n_ut # 0 => KerOk(t, len, k) /\ k.n_ut > 0
                       /\ Line(t, len, k.i, k.j) = Lo(t, len)
  <2> HIDE DEF len
  <2>1. CASE p.tlb = TRUE
    <3>1. k = Tiles(t) /\ block[t].len = len
      BY <1>2, <2>1
    <3> HIDE DEF k
    <3> QED
      BY <1>2, <2>1, <3>1, TileStart
  <2>2. CASE p.tlb = FALSE
    <3>1. k = Slabs(t) /\ block[t].len = len
      BY <1>2, <2>2
    <3> HIDE DEF k
    <3> QED
      BY <1>2, <2>2, <3>1, SlabStart
  <2> QED
    BY <1>2, <2>1, <2>2, Parameters
<1>4. CASE k.n_ut = 0
  <2>1. KernelReturn(t)
    BY <1>4 DEF Kernel
  <2> HIDE DEF k, len
  <2>2. /\ Typed' /\ LoopAt(t)' /\ KerAt(t)'
        /\ \A x \in Elements :
             Done(t, x)' <=> Owns(t, x) /\ Pos(x[1]) < i[t] + b_alg[t]
        /\ \A u \in Threads \ {t} :
             /\ pc'[u] = pc[u] /\ i'[u] = i[u] /\ b_alg'[u] = b_alg[u]
             /\ range'[u] = range[u] /\ block'[u] = block[u] /\ ker'[u] = ker[u]
    BY <1>1, <2>1, ReturnKeeps
  <2>3. ASSUME NEW x \in Elements PROVE Done(t, x)' <=> Done(t, x)
    <3>1. CASE InBlock(t, x, i[t])
      <4>1. ~ Owns(t, x)
        BY <1>1, <1>3, <1>4, <3>1, DoneInBlock DEF len
      <4> QED
        BY <2>2, <4>1 DEF Done
    <3>2. CASE ~ InBlock(t, x, i[t])
      BY <1>1, <2>2, <3>2, DoneInBlock
    <3> QED
      BY <3>1, <3>2
  <2> QED
    BY <1>1, <2>2, <2>3, NothingUpdated
<1>5. CASE k.n_ut # 0
  <2>1. /\ ker' = [ker EXCEPT ![t] = k] /\ pc' = [pc EXCEPT ![t] = "tile"] /\ i' = i
        /\ range' = range /\ b_alg' = b_alg /\ block' = block
    BY <1>5 DEF Kernel
  <2>2. KerOk(t, len, k) /\ k.n_ut > 0 /\ Line(t, len, k.i, k.j) = Lo(t, len)
    BY <1>3, <1>5
  <2> HIDE DEF k, len
  <2>3. k \in KerType
    BY <2>2 DEF KerOk
  <2>4. ker'[t] = k /\ pc'[t] = "tile"
    BY <1>2, <2>1 DEF Typed
  <2>5. /\ RangeOf(t)' = RangeOf(t) /\ Starts(t)' = Starts(t) /\ Tame'
        /\ Size(t, i[t])' = Size(t, i[t]) /\ Off(i[t], b_alg[t])' = Off(i[t], b_alg[t])
    BY <1>1, <1>2, <2>1, Frozen
  <2>6. Typed'
    BY <1>1, <1>2, <2>1, <2>3, <2>5 DEF Typed, Points
  <2>7. LoopAt(t)'
    BY <1>1, <1>2, <2>1, <2>4, <2>5 DEF LoopAt, len
  <2>8. KerAt(t)'
    <3>1. KerOk(t, b_alg[t], ker[t])' = KerOk(t, len, k)
      <4>1. KerOk(t, len, k)' = KerOk(t, len, k)'
        OBVIOUS
      <4>2. b_alg'[t] = len
        BY <2>1 DEF len
      <4> QED
        BY <1>1, <2>4, <4>2, Frozen
    <3> QED
      BY <2>2, <2>4, <3>1 DEF KerAt
  <2>9. ASSUME NEW x \in Elements PROVE Done(t, x)' <=> Done(t, x)
    <3> DEFINE ti == TileOf(x, i[t], len)
    <3>1. /\ Owns(t, x)' = Owns(t, x) /\ Pos(x[1])' = Pos(x[1])
          /\ TileOf(x, i[t], b_alg[t])' = ti
          /\ Line(t, b_alg[t], ker[t].i, ker[t].j)' = Line(t, len, k.i, k.j)
      BY <1>1, <2>1, <2>4, Frozen DEF len
    <3>2. Line(t, b_alg[t], TileOf(x, i[t], b_alg[t]), x[2])' = Line(t, len, ti, x[2])
      BY <1>1, <2>1, <3>1, Frozen DEF len
    <3> HIDE DEF ti
    <3>3. Done(t, x)' <=>
            /\ Owns(t, x)
            /\ \/ Pos(x[1]) < i[t]
               \/ Pos(x[1]) < i[t] + len /\ Line(t, len, ti, x[2]) < Lo(t, len)
      BY <2>1, <2>2, <2>4, <3>1, <3>2 DEF Done, len
    <3>4. Done(t, x) <=> Owns(t, x) /\ Pos(x[1]) < i[t]
      BY <1>1 DEF Done
    <3>5. CASE InBlock(t, x, i[t])
      <4>1. ASSUME Owns(t, x) PROVE ~(Line(t, len, ti, x[2]) < Lo(t, len))
        <5>1. Mine(t, len, ti, x[2]) /\ ti \in Nat /\ x[2] \in Nat
          BY <1>1, <3>5, <4>1, DoneInBlock DEF len, ti
        <5> DEFINE b == Base(t, len)
                   w == Width(t, len)
                   lo == Lo(t, len)
                   y == x[2]
        <5>2. b \in Nat /\ w \in Nat /\ lo \in Nat
          BY <1>2, BoundsType
        <5>3. Line(t, len, ti, y) = (y * w) + (ti - b)
          BY DEF Line
        <5>4. lo <= Line(t, len, ti, y)
          BY <5>1 DEF Mine
        <5>5. y \in Nat /\ ti \in Nat
          BY <5>1
        <5> HIDE DEF b, w, lo, y
        <5>6. Line(t, len, ti, y) \in Int
          BY <5>2, <5>3, <5>5, SMT
        <5>7. ~(Line(t, len, ti, y) < lo)
          BY <5>2, <5>4, <5>6, SMT
        <5> QED
          BY <5>7 DEF lo, y
      <4> QED
        BY <3>3, <3>4, <4>1
    <3>6. CASE ~ InBlock(t, x, i[t])
      <4>1. Pos(x[1]) < i[t] <=> Pos(x[1]) < i[t] + len
        BY <1>1, <3>6, DoneInBlock DEF len
      <4> QED
        BY <3>3, <3>4, <4>1
    <3> QED
      BY <3>5, <3>6
  <2>10. \A u \in Threads \ {t} :
          /\ pc'[u] = pc[u] /\ i'[u] = i[u] /\ b_alg'[u] = b_alg[u]
          /\ range'[u] = range[u] /\ block'[u] = block[u] /\ ker'[u] = ker[u]
    BY <1>2, <2>1 DEF Typed
  <2> QED
    BY <1>1, <2>6, <2>7, <2>8, <2>9, <2>10, NothingUpdated
<1> QED
  BY <1>4, <1>5

\* What a call of the microkernel updates is the thread's, and was not
\* updated; with it the thread has come past the microtile.
LEMMA MicrokernelDone ==
    ASSUME IInv, NEW t \in Threads, Microkernel(t), NEW x \in Elements,
           NEW hit, hit = (x[1] \in TileRows(t) /\ x[2] = ker[t].j)
    PROVE  /\ hit => Owns(t, x) /\ ~ Done(t, x)
           /\ Typed' /\ LoopAt(t)' /\ KerAt(t)'
           /\ Done(t, x)' <=> Done(t, x) \/ hit
           /\ \A u \in Threads \ {t} :
                /\ pc'[u] = pc[u] /\ i'[u] = i[u] /\ b_alg'[u] = b_alg[u]
                /\ range'[u] = range[u] /\ block'[u] = block[u] /\ ker'[u] = ker[u]
<1> DEFINE len == b_alg[t]
           idx == i[t]
           k == ker[t]
           a == Advance(k)
           ti == TileOf(x, idx, len)
           line == Line(t, len, ti, x[2])
           at == Line(t, len, k.i, k.j)
<1>1. pc[t] = "tile" /\ p' = p /\ UNCHANGED <<p, range, b_alg, block>>
  BY DEF Microkernel
<1>2. pc[t] \in {"kernel", "tile"}
  BY <1>1
<1>3. /\ Typed /\ Tame /\ idx \in Starts(t) /\ len \in Nat \ {0} /\ idx \in Nat
      /\ block[t] = [off |-> Off(idx, len), len |-> len] /\ range[t] = RangeOf(t)
      /\ len = Size(t, idx)
  BY <1>2, AtBlock DEF IInv
<1>4. KerOk(t, len, k) /\ k.n_ut > 0
  BY <1>1 DEF IInv, KerAt
<1>5. k.i \in Nat /\ k.j \in Nat /\ k.n_ut \in Nat
  BY <1>4 DEF KerOk, KerType
<1>6. hit = (InBlock(t, x, idx) /\ ti = k.i /\ x[2] = k.j)
  <2>1. x[1] \in TileRows(t) <=> InBlock(t, x, idx) /\ TileOf(x, idx, len) = ker[t].i
    BY <1>3, <1>5, RowsOfTile
  <2> QED
    BY <2>1
<1>7. ASSUME InBlock(t, x, idx)
      PROVE  /\ Owns(t, x) <=> Mine(t, len, ti, x[2])
             /\ idx <= Pos(x[1]) /\ Pos(x[1]) < idx + len /\ ~(Pos(x[1]) < idx)
             /\ ti \in Nat /\ x[2] \in Nat
  BY <1>2, <1>7, DoneInBlock
<1>8. ASSUME ~ InBlock(t, x, idx)
      PROVE  /\ Done(t, x) <=> Owns(t, x) /\ Pos(x[1]) < idx
             /\ Pos(x[1]) < idx <=> Pos(x[1]) < idx + len
  BY <1>2, <1>8, DoneInBlock
<1>9. Done(t, x) <=>
        /\ Owns(t, x)
        /\ Pos(x[1]) < idx \/ (Pos(x[1]) < idx + len /\ line < at)
  BY <1>1 DEF Done
<1>10. /\ Base(t, len) <= k.i /\ k.i < Base(t, len) + Width(t, len)
       /\ Lo(t, len) <= at /\ at + k.n_ut = Hi(t, len)
  BY <1>4 DEF KerOk
<1>11. /\ Base(t, len) \in Nat /\ Width(t, len) \in Nat /\ Lo(t, len) \in Nat
       /\ Hi(t, len) \in Nat
  BY <1>3, BoundsType
<1>12. at \in Int /\ at < Hi(t, len) /\ ~(at < at)
  <2> DEFINE b == Base(t, len)
             w == Width(t, len)
             hi == Hi(t, len)
             kj == k.j
             ki == k.i
             n == k.n_ut
  <2>1. at = (kj * w) + (ki - b)
    BY DEF Line
  <2>2. b \in Nat /\ w \in Nat /\ hi \in Nat /\ kj \in Nat /\ ki \in Nat /\ n \in Nat /\ n > 0
        /\ at + n = hi
    BY <1>4, <1>5, <1>10, <1>11
  <2> HIDE DEF at, b, w, kj, ki, hi, n
  <2>3. at \in Int
    BY <2>1, <2>2, SMT
  <2>4. at < hi /\ ~(at < at)
    BY <2>2, <2>3, SMT
  <2> QED
    BY <2>3, <2>4 DEF hi
<1> HIDE DEF len, idx, k, a, ti, line, at
<1>13. ASSUME hit
       PROVE  Owns(t, x) /\ ~ Done(t, x) /\ line = at
  <2>1. InBlock(t, x, idx) /\ ti = k.i /\ x[2] = k.j
    BY <1>6, <1>13
  <2>2. line = at
    BY <2>1 DEF line, at
  <2>3. Mine(t, len, ti, x[2])
    BY <1>10, <1>12, <2>1, <2>2 DEF Mine, line
  <2> QED
    BY <1>7, <1>9, <1>12, <2>1, <2>2, <2>3
<1>14. ASSUME InBlock(t, x, idx), Owns(t, x)
       PROVE  line \in Int /\ line < Hi(t, len) /\ (line = at => hit)
  <2>1. Mine(t, len, ti, x[2]) /\ ti \in Nat /\ x[2] \in Nat
    BY <1>7, <1>14
  <2>2. line < Hi(t, len)
    BY <2>1 DEF Mine, line
  <2>3. line \in Int
    <3> DEFINE b == Base(t, len)
               w == Width(t, len)
               y == x[2]
    <3>1. line = (y * w) + (ti - b) /\ y \in Nat /\ ti \in Nat /\ b \in Nat /\ w \in Nat
      BY <1>11, <2>1 DEF line, Line
    <3> HIDE DEF b, w, y
    <3> QED
      BY <3>1, SMT
  <2>4. ASSUME line = at PROVE hit
    <3>1. ti = k.i /\ x[2] = k.j
      BY <1>3, <1>4, <2>1, <2>4, SameMicrotile DEF line, at
    <3> QED
      BY <1>6, <1>14, <3>1
  <2> QED
    BY <2>2, <2>3, <2>4
<1>15. /\ a.n_ut = k.n_ut - 1
       /\ k.n_ut - 1 # 0 =>
            /\ ~ (a.j >= a.j_end)
            /\ KerOk(t, len, a) /\ a.n_ut > 0
            /\ Line(t, len, a.i, a.j) = at + 1
  BY <1>3, <1>4, AdvanceLine DEF a, at
<1>16. CASE k.n_ut - 1 = 0
  <2>1. KernelReturn(t)
    BY <1>15, <1>16 DEF Microkernel, a, k
  <2>2. /\ Typed' /\ LoopAt(t)' /\ KerAt(t)'
        /\ Done(t, x)' <=> Owns(t, x) /\ Pos(x[1]) < idx + len
        /\ \A u \in Threads \ {t} :
             /\ pc'[u] = pc[u] /\ i'[u] = i[u] /\ b_alg'[u] = b_alg[u]
             /\ range'[u] = range[u] /\ block'[u] = block[u] /\ ker'[u] = ker[u]
    BY <1>1, <1>2, <2>1, ReturnKeeps DEF idx, len
  <2>3. Hi(t, len) = at + 1
    <3> DEFINE hi == Hi(t, len)
               n == k.n_ut
    <3>1. hi = at + n /\ n - 1 = 0 /\ n \in Nat /\ at \in Int
      BY <1>5, <1>10, <1>12, <1>16
    <3> HIDE DEF hi, n
    <3>2. hi = at + 1
      BY <3>1, SMT
    <3> QED
      BY <3>2 DEF hi
  <2>4. Done(t, x)' <=> Done(t, x) \/ hit
    <3>1. CASE InBlock(t, x, idx)
      <4>1. Owns(t, x) => line < at \/ hit
        <5>1. ASSUME line \in Int, line < at + 1 PROVE line < at \/ line = at
          BY <1>12, <5>1, SMT
        <5> QED
          BY <1>14, <2>3, <3>1, <5>1
      <4> QED
        BY <1>7, <1>9, <1>13, <2>2, <3>1, <4>1
    <3>2. CASE ~ InBlock(t, x, idx)
      BY <1>6, <1>8, <2>2, <3>2
    <3> QED
      BY <3>1, <3>2
  <2> QED
    BY <1>13, <2>2, <2>4
<1>17. CASE k.n_ut - 1 # 0
  <2>1. ~(a.n_ut = 0 \/ a.j >= a.j_end)
    BY <1>15, <1>17
  <2>2. ker' = [ker EXCEPT ![t] = a] /\ pc' = pc /\ i' = i
        /\ range' = range /\ b_alg' = b_alg /\ block' = block
    BY <2>1 DEF Microkernel, a, k
  <2>3. ker'[t] = a /\ a \in KerType
    BY <1>3, <1>15, <1>17, <2>2 DEF Typed, KerOk
  <2>4. /\ RangeOf(t)' = RangeOf(t) /\ Starts(t)' = Starts(t) /\ Tame'
        /\ Size(t, i[t])' = Size(t, i[t]) /\ Off(i[t], b_alg[t])' = Off(i[t], b_alg[t])
    BY <1>1, <1>3, <2>2, Frozen
  <2>5. Typed'
    BY <1>3, <2>2, <2>3, <2>4 DEF Typed
  <2>6. LoopAt(t)'
    BY <2>2, <2>4 DEF IInv, LoopAt
  <2>7. b_alg'[t] = len /\ i'[t] = idx
    BY <2>2 DEF len, idx
  <2>8. KerAt(t)'
    <3>1. KerOk(t, b_alg[t], ker[t])' = KerOk(t, len, a)
      BY <1>1, <2>3, <2>7, Frozen
    <3> QED
      BY <1>15, <1>17, <2>3, <3>1 DEF KerAt
  <2>9. Done(t, x)' <=>
            /\ Owns(t, x)
            /\ Pos(x[1]) < idx \/ (Pos(x[1]) < idx + len /\ line < at + 1)
    <3>1. /\ Owns(t, x)' = Owns(t, x) /\ Pos(x[1])' = Pos(x[1])
          /\ TileOf(x, i[t], b_alg[t])' = ti
          /\ Line(t, b_alg[t], ker[t].i, ker[t].j)' = Line(t, len, a.i, a.j)
      BY <1>1, <2>3, <2>7, Frozen DEF ti
    <3>2. Line(t, b_alg[t], TileOf(x, i[t], b_alg[t]), x[2])' = line
      BY <1>1, <2>7, <3>1, Frozen DEF line
    <3>3. pc'[t] = "tile" /\ Line(t, len, a.i, a.j) = at + 1
      BY <1>1, <1>15, <1>17, <2>2
    <3> QED
      BY <2>7, <3>1, <3>2, <3>3 DEF Done
  <2>10. Done(t, x)' <=> Done(t, x) \/ hit
    <3>1. CASE InBlock(t, x, idx)
      <4>1. Owns(t, x) => (line < at + 1 <=> line < at \/ line = at)
        <5>1. ASSUME line \in Int PROVE line < at + 1 <=> line < at \/ line = at
          BY <1>12, <5>1, SMT
        <5> QED
          BY <1>14, <3>1, <5>1
      <4> QED
        BY <1>7, <1>9, <1>13, <1>14, <2>9, <3>1, <4>1
    <3>2. CASE ~ InBlock(t, x, idx)
      BY <1>6, <1>8, <1>9, <2>9, <3>2
    <3> QED
      BY <3>1, <3>2
  <2>11. \A u \in Threads \ {t} :
          /\ pc'[u] = pc[u] /\ i'[u] = i[u] /\ b_alg'[u] = b_alg[u]
          /\ range'[u] = range[u] /\ block'[u] = block[u] /\ ker'[u] = ker[u]
    BY <1>3, <2>2 DEF Typed
  <2> QED
    BY <1>13, <2>5, <2>6, <2>8, <2>10, <2>11
<1> QED
  BY <1>16, <1>17

LEMMA MicrokernelStep ==
    ASSUME IInv, NEW t \in Threads, Microkernel(t)
    PROVE  IInv'
<1> DEFINE Hit(x) == x[1] \in TileRows(t) /\ x[2] = ker[t].j
<1>1. Typed /\ Tame /\ CountInv
  BY DEF IInv, Typed
<1>2. p' = p /\ c' = [x \in DOMAIN c |-> IF Hit(x) THEN c[x] + 1 ELSE c[x]]
  BY DEF Microkernel
<1>3. \A x \in Elements :
        /\ Hit(x) => Owns(t, x) /\ ~ Done(t, x)
        /\ Done(t, x)' <=> Done(t, x) \/ Hit(x)
  BY MicrokernelDone
<1>4. Elements # {}
  <2>1. 0 \in 0 .. p.m - 1 /\ 0 \in 0 .. p.n_iter - 1
    BY <1>1, Parameters, SMT
  <2>2. <<0, 0>> \in Elements
    BY <2>1 DEF Elements
  <2> QED
    BY <2>2
<1>5. /\ Typed' /\ LoopAt(t)' /\ KerAt(t)'
      /\ \A u \in Threads \ {t} :
           /\ pc'[u] = pc[u] /\ i'[u] = i[u] /\ b_alg'[u] = b_alg[u]
           /\ range'[u] = range[u] /\ block'[u] = block[u] /\ ker'[u] = ker[u]
  <2>1. PICK x \in Elements : TRUE
    BY <1>4
  <2> QED
    BY MicrokernelDone
<1>6. \A u \in Threads \ {t} :
        LoopAt(u)' /\ KerAt(u)' /\ \A x : Done(u, x)' <=> Done(u, x)
  BY <1>2, <1>5, Others DEF IInv
<1>7. Elements' = Elements
  BY <1>2, Frozen
<1>8. c \in [Elements -> {0, 1}]
      /\ \A x \in Elements : c[x] = 1 <=> \E u \in Threads : Done(u, x)
  BY <1>1 DEF CountInv
<1>9. DOMAIN c = Elements
  BY <1>8
<1> HIDE DEF Hit
<1>10. ASSUME NEW x \in Elements
       PROVE  c'[x] \in {0, 1} /\ (c'[x] = 1 <=> \E u \in Threads : Done(u, x)')
  <2>1. c'[x] = IF Hit(x) THEN c[x] + 1 ELSE c[x]
    BY <1>2, <1>9
  <2>2. CASE Hit(x)
    <3>1. \A u \in Threads : ~ Done(u, x)
      <4>1. ASSUME NEW u \in Threads, Done(u, x) PROVE FALSE
        <5>1. Owns(u, x) /\ Owns(t, x)
          BY <1>3, <2>2, <4>1 DEF Done
        <5>2. u = t
          BY <1>1, <5>1, OwnerIsUnique
        <5> QED
          BY <1>3, <2>2, <4>1, <5>2
      <4> QED
        BY <4>1
    <3>2. c[x] = 0
      BY <1>8, <3>1
    <3>3. c'[x] = 1
      BY <2>1, <2>2, <3>2, SMT
    <3> QED
      BY <1>3, <2>2, <3>3
  <2>3. CASE ~ Hit(x)
    <3>1. \A u \in Threads : Done(u, x)' <=> Done(u, x)
      BY <1>3, <1>6, <2>3
    <3> QED
      BY <1>8, <2>1, <2>3, <3>1
  <2> QED
    BY <2>2, <2>3
<1>11. c' \in [Elements' -> {0, 1}]
  <2>1. DOMAIN c' = Elements /\ c' = [x \in Elements |-> c'[x]]
    BY <1>2, <1>9
  <2> QED
    BY <1>7, <1>10, <2>1
<1>12. CountInv'
  BY <1>7, <1>10, <1>11 DEF CountInv
<1>13. \A u \in Threads : LoopAt(u)' /\ KerAt(u)'
  BY <1>5, <1>6
<1> QED
  BY <1>5, <1>12, <1>13 DEF IInv

LEMMA StutterStep ==
    ASSUME IInv, UNCHANGED vars
    PROVE  IInv'
<1>1. /\ p' = p /\ c' = c /\ pc' = pc /\ range' = range /\ i' = i /\ b_alg' = b_alg
      /\ block' = block /\ ker' = ker
  BY DEF vars
<1>2. Tame' = Tame /\ Elements' = Elements
  BY <1>1, Frozen
<1>3. \A t \in Threads : LoopAt(t)' /\ KerAt(t)' /\ \A x : Done(t, x)' <=> Done(t, x)
  BY <1>1, Others DEF IInv
<1>4. Typed'
  BY <1>1, <1>2 DEF IInv, Typed
<1>5. CountInv'
  BY <1>1, <1>2, <1>3 DEF IInv, CountInv
<1> QED
  BY <1>3, <1>4, <1>5 DEF IInv

\* The loops keep the inductive invariant, for every number of threads and
\* every problem that does not go backward with a maximum above the
\* blocksize, nor divides the first loop when tiles are used.
THEOREM Invariance ==
    ASSUME \A q \in Problems : (q.backward => q.b_max = q.b_alg) /\ (q.tlb => q.ir = 1)
    PROVE  Spec => []IInv
<1>1. Init => IInv
  BY InitIInv
<1>2. IInv /\ [Next]_vars => IInv'
  <2> SUFFICES ASSUME IInv, [Next]_vars PROVE IInv'
    OBVIOUS
  <2>1. ASSUME NEW t \in Threads, Step(t) PROVE IInv'
    BY <2>1, RangeStep, NextBlockStep, FinishStep, KernelStep, MicrokernelStep DEF Step
  <2>2. CASE Terminated
    BY <2>2, StutterStep DEF Terminated
  <2>3. CASE UNCHANGED vars
    BY <2>3, StutterStep
  <2> QED
    BY <2>1, <2>2, <2>3 DEF Next
<1> QED
  BY <1>1, <1>2, PTL DEF Spec

\* What the invariant says of the counts
LEMMA CountsAreOne ==
    ASSUME \A q \in Problems : (q.backward => q.b_max = q.b_alg) /\ (q.tlb => q.ir = 1)
    PROVE  IInv => UpdatedOnce /\ AllUpdated
<1>1. IInv => UpdatedOnce
  <2> SUFFICES ASSUME IInv, NEW x \in DOMAIN c PROVE c[x] <= 1
    BY DEF UpdatedOnce
  <2>1. c[x] \in {0, 1}
    BY DEF IInv, CountInv
  <2> QED
    BY <2>1, SMT
<1>2. IInv => AllUpdated
  <2> SUFFICES ASSUME IInv, AllDone, NEW x \in DOMAIN c PROVE c[x] >= 1
    BY DEF AllUpdated
  <2>1. Tame /\ x \in Elements
    BY DEF IInv, Typed, CountInv
  <2>2. PICK t \in Threads : Owns(t, x)
    BY <2>1, OwnerExists
  <2>3. pc[t] = "done" /\ i[t] = RangeOf(t).end
    BY DEF AllDone, IInv, LoopAt
  <2>4. Pos(x[1]) < RangeOf(t).end
    BY <2>1, <2>2, OwnedInRange
  <2>5. Done(t, x)
    BY <2>2, <2>3, <2>4 DEF Done
  <2>6. c[x] = 1
    BY <2>1, <2>5 DEF IInv, CountInv
  <2> QED
    BY <2>6, SMT
<1> QED
  BY <1>1, <1>2

\* No element of C is updated twice: the ranges of the third loop, its
\* blocks, and the slabs or tiles of the macrokernel keep the threads apart
\* (bli_gemm_blk_var1, bli_gemm_ker_var2), whatever the order they run in.
THEOREM NoneTwice ==
    ASSUME \A q \in Problems : (q.backward => q.b_max = q.b_alg) /\ (q.tlb => q.ir = 1)
    PROVE  Spec => []UpdatedOnce
BY Invariance, CountsAreOne, PTL

\* When the threads are done no element of C has been left out.
THEOREM NoneLeftOut ==
    ASSUME \A q \in Problems : (q.backward => q.b_max = q.b_alg) /\ (q.tlb => q.ir = 1)
    PROVE  Spec => []AllUpdated
BY Invariance, CountsAreOne, PTL

LEMMA StepOfGemm ==
    ASSUME \A q \in Problems : (q.backward => q.b_max = q.b_alg) /\ (q.tlb => q.ir = 1),
           GemmIdle \/ IInv, [MCNext]_MCvars
    PROVE  (GemmIdle \/ IInv)'
<1>1. UNCHANGED vars \/ \E t \in Threads : Step(t)
  BY DEF MCNext, SomeStep, MCStep, MCTerminated, MCvars
<1>2. CASE UNCHANGED vars
  <2>1. GemmIdle => GemmIdle'
    BY <1>2 DEF GemmIdle, vars
  <2> QED
    BY <1>2, <2>1, StutterStep
<1>3. ASSUME NEW t \in Threads, Step(t) PROVE IInv'
  <2>1. ~GemmIdle
    BY <1>3 DEF GemmIdle, Step, Range, NextBlock, Finish, Kernel, Microkernel
  <2>2. IInv
    BY <2>1
  <2> QED
    BY <1>3, <2>2, RangeStep, NextBlockStep, FinishStep, KernelStep, MicrokernelStep
       DEF Step
<1> QED
  BY <1>1, <1>2, <1>3

\* Both hold in MCSpec too, which may run a trsm instead of a gemm.
THEOREM GemmBesideTrsm ==
    ASSUME \A q \in Problems : (q.backward => q.b_max = q.b_alg) /\ (q.tlb => q.ir = 1)
    PROVE  MCSpec => [](UpdatedOnce /\ AllUpdated)
<1>1. MCInit => GemmIdle \/ IInv
  BY InitIInv DEF MCInit
<1>2. (GemmIdle \/ IInv) /\ [MCNext]_MCvars => (GemmIdle \/ IInv)'
  BY StepOfGemm
<1>3. GemmIdle => UpdatedOnce /\ AllUpdated
  <2>1. GemmIdle => DOMAIN c = {}
    BY DEF GemmIdle
  <2> QED
    BY <2>1 DEF UpdatedOnce, AllUpdated
<1>4. IInv => UpdatedOnce /\ AllUpdated
  BY CountsAreOne
<1> QED
  BY <1>1, <1>2, <1>3, <1>4, PTL DEF MCSpec

-----------------------------------------------------------------------------
(***************************************************************************)
(* The solve of a trsm, for systems in which the first loop has one way    *)
(* (with more, the run TrsmIrWays shows, an element may be garbled).       *)
(*                                                                         *)
(* A row has a place in the order in which the rows are solved; a block k  *)
(* of A's columns has the rows of the places k.i .. k.i + k.len - 1.  What *)
(* an element of B holds follows from the block that the threads that are  *)
(* furthest behind work on, and from how far the thread is that solves the *)
(* element in this block, or the one that updates it: it has been solved   *)
(* if it is behind the block; the rows behind the block have been          *)
(* subtracted from it if it is not; those of the block too, if its thread  *)
(* has been there.                                                         *)
(***************************************************************************)

\* The first loop has one way.
IrOnce == \A s \in Solves : s.ir = 1

\* The place of a row, and the row at a place
Flip(s, a) == IF s.backward THEN s.m - 1 - a ELSE a

\* The rows that come before the place a
Early(s, a) == {r \in 0 .. s.m - 1 : Flip(s, r) < a}

\* The element in the row at the place a, and what it holds when the rows at
\* the first b places have been subtracted, and when it has been solved
At(s, a, j) == <<Flip(s, a), j>>
Partial(s, a, b) == Solve!Term(Flip(s, a), Early(s, b), FALSE)
Solved(s, a) == Solve!Term(Flip(s, a), Early(s, a), TRUE)

\* The first place of a part of the matrix, and the place where a packed block
\* has the row of the place a
FirstPlace(s, x) == IF s.backward THEN s.m - x.off - x.len ELSE x.off
PackedAt(s, k, a, j) == <<Flip(s, a) - k.off, j>>

\* How many blocks of A's columns the thread has begun
Round(t) == (trsm_calls[t] + 2) \div 3

\* The block of len places after the first at, and the block that follows k
BlockAt(s, at, len) ==
    [i |-> at, off |-> IF s.backward THEN s.m - at - len ELSE at, len |-> len]
NextK(s, k) ==
    BlockAt(s, k.i + k.len,
            DetermineBlocksize(s.backward, s.m - (k.i + k.len), s.kc, s.kc))

\* The columns of a thread when it packs or solves, and when it updates
SolveSlab(s, t) == RangeSub(t, NT, s.n, 1, FALSE)
UpdateSlab(s, t) == RangeSub(t % s.jr, s.jr, s.n, 1, FALSE)

\* The thread's range of the rows ahead of the block k
UpdateRange(s, t, k) ==
    RangeSub(t \div s.jr, s.ic, s.m - (k.i + k.len), 1, s.backward)

SolvePlaces(k) == k.i .. k.i + k.len - 1
UpdatePlaces(s, t, k) ==
    {a \in 0 .. s.m - 1 : a - (k.i + k.len) \in Indices(UpdateRange(s, t, k))}

Solving == {"solve", "gemmtrsm"}
Updating == {"update", "gemm"}
InKernel == {"gemmtrsm", "gemm"}

\* The place that the index i of the thread counts from
LoopBase(t) ==
    IF trsm_pc[t] \in Updating THEN trsm_kblk[t].i + trsm_kblk[t].len
    ELSE trsm_kblk[t].i

\* The thread has been at the place a of the column j, in the loop that it is in.
KernelPassed(at, x, k, a, j) ==
    \/ a < at
    \/ a < at + x.len /\ (j < k.j \/ (j = k.j /\ a < at + k.r))
Passed(t, a, j) ==
    IF trsm_pc[t] \in InKernel
      THEN KernelPassed(FirstPlace(trsm_p, trsm_blk[t]), trsm_blk[t], trsm_ker[t], a, j)
      ELSE a < LoopBase(t) + trsm_i[t]

\* The thread has solved, and updated, the place in the round q.
SolveDone(t, a, j, q) ==
    \/ Round(t) > q
    \/ trsm_pc[t] \in {"solved", "update", "gemm", "var3", "done"}
    \/ trsm_pc[t] \in Solving /\ Passed(t, a, j)
UpdateDone(t, a, j, q) ==
    \/ Round(t) > q
    \/ trsm_pc[t] \in {"var3", "done"}
    \/ trsm_pc[t] \in Updating /\ Passed(t, a, j)

-----------------------------------------------------------------------------

TrsmPoints == {"var3", "pack", "packed", "solve", "gemmtrsm", "solved", "update",
               "gemm", "done"}

TrsmType ==
    /\ trsm_p \in Solves
    /\ DOMAIN trsm_c = (0 .. trsm_p.m - 1) \X (0 .. trsm_p.n - 1)
    /\ DOMAIN trsm_bp = (0 .. trsm_p.kc - 1) \X (0 .. trsm_p.n - 1)
    /\ trsm_pc \in [Threads -> TrsmPoints]
    /\ trsm_calls \in [Threads -> Nat]
    /\ trsm_kblk \in [Threads -> [i : Nat, off : Nat, len : Nat]]
    /\ trsm_range \in [Threads -> [start : Nat, end : Nat]]
    /\ trsm_i \in [Threads -> Nat]
    /\ trsm_blk \in [Threads -> [off : Nat, len : Nat]]
    /\ trsm_ker \in [Threads -> [j : Nat, j_end : Nat, r : Nat]]

\* The barriers of the round that the thread has called
Counted(t) ==
    /\ trsm_pc[t] = "pack" => trsm_calls[t] = 3 * Round(t) - 2
    /\ trsm_pc[t] \in {"packed", "solve", "gemmtrsm"} => trsm_calls[t] = 3 * Round(t) - 1
    /\ trsm_pc[t] \in {"solved", "update", "gemm", "var3", "done"} =>
            trsm_calls[t] = 3 * Round(t)
    /\ trsm_pc[t] \notin {"var3", "done"} => Round(t) > 0

\* No thread has left a barrier that another one has still to call.
Together(t) ==
    \A u \in Threads :
        /\ trsm_calls[u] >= trsm_calls[t] - 1
        /\ trsm_pc[t] \notin {"pack", "packed", "solved"} => trsm_calls[u] >= trsm_calls[t]

BlockOfRound(t) ==
    LET k == trsm_kblk[t]
    IN  /\ Round(t) = 0 => k = [i |-> 0, off |-> 0, len |-> 0]
        /\ Round(t) > 0 =>
            /\ k.len \in 1 .. trsm_p.kc /\ k.i + k.len <= trsm_p.m
            /\ k = BlockAt(trsm_p, k.i, k.len)

SameBlocks ==
    \A t, u \in Threads :
        /\ Round(u) = Round(t) => trsm_kblk[u] = trsm_kblk[t]
        /\ Round(u) = Round(t) + 1 => trsm_kblk[u] = NextK(trsm_p, trsm_kblk[t])

\* Where the thread is in the loop over its rows, and in the macrokernel
InLoop(t) ==
    LET r == trsm_range[t]
    IN  /\ trsm_pc[t] \in Solving => r = [start |-> 0, end |-> trsm_kblk[t].len]
        /\ trsm_pc[t] \in Updating => r = UpdateRange(trsm_p, t, trsm_kblk[t])
        /\ trsm_pc[t] \in Solving \cup Updating => trsm_i[t] \in r.start .. r.end

AtTile(t) ==
    LET x == trsm_blk[t]
        k == trsm_ker[t]
        slab == IF trsm_pc[t] = "gemmtrsm" THEN SolveSlab(trsm_p, t)
                ELSE UpdateSlab(trsm_p, t)
    IN  trsm_pc[t] \in InKernel =>
            /\ x.len \in 1 .. trsm_i[t] - trsm_range[t].start
            /\ FirstPlace(trsm_p, x) = LoopBase(t) + (trsm_i[t] - x.len)
            /\ k.r \in 0 .. x.len - 1
            /\ k.j \in Indices(slab) /\ k.j_end = slab.end

-----------------------------------------------------------------------------

\* No thread is in a round before that of u.
Last(u) == \A t \in Threads : Round(u) <= Round(t)

\* What B and its packed rows hold when q is the round that the threads which
\* are furthest behind are in, and k their block
ElementsAre(k, q) ==
    /\ \A a \in 0 .. k.i - 1, j \in 0 .. trsm_p.n - 1 :
        trsm_c[At(trsm_p, a, j)] = Solved(trsm_p, a)
    /\ \A t \in Threads : \A a \in SolvePlaces(k), j \in Indices(SolveSlab(trsm_p, t)) :
        trsm_c[At(trsm_p, a, j)] =
            IF SolveDone(t, a, j, q) THEN Solved(trsm_p, a) ELSE Partial(trsm_p, a, k.i)
    /\ \A t \in Threads :
       \A a \in UpdatePlaces(trsm_p, t, k), j \in Indices(UpdateSlab(trsm_p, t)) :
        trsm_c[At(trsm_p, a, j)] =
            Partial(trsm_p, a, IF UpdateDone(t, a, j, q) THEN k.i + k.len ELSE k.i)

PackedAre(k, q) ==
    \A t \in Threads : \A a \in SolvePlaces(k), j \in Indices(SolveSlab(trsm_p, t)) :
        Round(t) > q \/ trsm_pc[t] # "pack" =>
        trsm_bp[PackedAt(trsm_p, k, a, j)] =
            IF SolveDone(t, a, j, q) THEN Solved(trsm_p, a) ELSE Partial(trsm_p, a, k.i)

TrsmIInv ==
    /\ TrsmType
    /\ \A t \in Threads : Counted(t) /\ Together(t) /\ BlockOfRound(t)
    /\ SameBlocks
    /\ \A t \in Threads : InLoop(t) /\ AtTile(t)
    /\ \A u \in Threads : Last(u) =>
        /\ ElementsAre(trsm_kblk[u], Round(u))
        /\ PackedAre(trsm_kblk[u], Round(u))

-----------------------------------------------------------------------------

LEMMA TrsmParameters ==
    ASSUME IrOnce, NEW s \in Solves
    PROVE  /\ s.m \in Nat \ {0} /\ s.n \in Nat \ {0} /\ s.kc \in Nat \ {0}
           /\ s.mc \in Nat \ {0} /\ s.ic \in Nat \ {0} /\ s.jr \in Nat \ {0}
           /\ s.ir = 1 /\ s.backward \in BOOLEAN
           /\ s.ic * s.jr = NT /\ NT \in Nat \ {0}
<1>1. /\ {s.m, s.n, s.ic, s.jr, s.ir, s.kc, s.mc} \subseteq Nat \ {0}
      /\ s.ic * s.jr * s.ir = NT /\ s.backward \in BOOLEAN
  BY SolvesAssumption
<1>2. s.ir = 1
  BY DEF IrOnce
<1>3. NT \in Nat \ {0}
  BY ProblemsAssumption
<1>4. s.ic \in Nat /\ s.jr \in Nat
  BY <1>1
<1>5. s.ic * s.jr * 1 = s.ic * s.jr
  BY <1>4, SMT
<1> QED
  BY <1>1, <1>2, <1>3, <1>5

\* What the ranges of all threads promise together.
LEMMA Shares ==
    ASSUME NEW n_way \in Nat \ {0}, NEW n \in Nat, NEW low \in BOOLEAN
    PROVE  /\ \A w \in 0 .. n_way - 1 :
                LET r == RangeSub(w, n_way, n, 1, low)
                IN  /\ r \in [start : Nat, end : Nat]
                    /\ r.start <= r.end /\ r.end <= n
           /\ \A v, w \in 0 .. n_way - 1 : \A x \in 0 .. n - 1 :
                /\ x \in Indices(RangeSub(v, n_way, n, 1, low))
                /\ x \in Indices(RangeSub(w, n_way, n, 1, low))
                => v = w
           /\ \A x \in 0 .. n - 1 : \E w \in 0 .. n_way - 1 :
                x \in Indices(RangeSub(w, n_way, n, 1, low))
<1>1. 1 \in Nat \ {0}
  OBVIOUS
<1>2. \A w \in 0 .. n_way - 1 :
        LET r == RangeSub(w, n_way, n, 1, low)
        IN  r \in [start : Nat, end : Nat] /\ r.start <= r.end /\ r.end <= n
  BY <1>1, RangeWithin
<1>3. ASSUME NEW x \in 0 .. n - 1
      PROVE  \E w \in 0 .. n_way - 1 :
                /\ x \in Indices(RangeSub(w, n_way, n, 1, low))
                /\ \A v \in (0 .. n_way - 1) \ {w} :
                        x \notin Indices(RangeSub(v, n_way, n, 1, low))
  BY <1>1, RangesPartition
<1> QED
  BY <1>2, <1>3

\* A thread has the ids of its row and its column in the grid of threads.
LEMMA GridOfThreads ==
    ASSUME IrOnce, NEW s \in Solves
    PROVE  /\ \A t \in Threads : t \div s.jr \in 0 .. s.ic - 1 /\ t % s.jr \in 0 .. s.jr - 1
           /\ \A t, u \in Threads : t \div s.jr = u \div s.jr /\ t % s.jr = u % s.jr => t = u
           /\ \A a \in 0 .. s.ic - 1, b \in 0 .. s.jr - 1 :
                \E t \in Threads : t \div s.jr = a /\ t % s.jr = b
<1> DEFINE ic == s.ic
           jr == s.jr
<1>1. /\ ic \in Nat \ {0} /\ jr \in Nat \ {0} /\ ic * jr = NT /\ NT \in Nat \ {0}
  BY TrsmParameters
<1> HIDE DEF ic, jr
<1>2. \A t \in Threads : t \in Nat /\ t < NT
  BY <1>1, SMT DEF Threads
<1>3. ASSUME NEW t \in Threads
      PROVE  /\ t \div jr \in Nat /\ t % jr \in 0 .. jr - 1
             /\ t = (jr * (t \div jr)) + (t % jr) /\ t \div jr < ic
  <2> DEFINE a == t \div jr
             e == t % jr
  <2>1. a \in Nat /\ e \in 0 .. jr - 1 /\ t = (jr * a) + e
    BY <1>1, <1>2, DivMod
  <2> HIDE DEF a, e
  <2>2. a < ic
    <3>1. ic <= a => ic * jr <= a * jr
      BY <1>1, <2>1, ProductMonotone
    <3>2. a * jr = jr * a /\ jr * a \in Nat
      BY <1>1, <2>1, SMT
    <3> QED
      BY <1>1, <1>2, <2>1, <3>1, <3>2, SMT
  <2> QED
    BY <2>1, <2>2 DEF a, e
<1>4. ASSUME NEW a \in 0 .. ic - 1, NEW b \in 0 .. jr - 1
      PROVE  \E t \in Threads : t \div jr = a /\ t % jr = b
  <2> DEFINE t == (jr * a) + b
  <2>1. t \in Nat /\ t < NT
    <3>1. (a + 1) * jr <= ic * jr
      BY <1>1, ProductMonotone, SMT
    <3>2. (a + 1) * jr = (jr * a) + jr /\ jr * a \in Nat
      BY <1>1, SMT
    <3> QED
      BY <1>1, <3>1, <3>2, SMT
  <2>2. t \div jr = a /\ t % jr = b
    <3>1. a \in Nat
      OBVIOUS
    <3>2. t = (jr * a) + b
      OBVIOUS
    <3> HIDE DEF t
    <3> QED
      BY <1>1, <2>1, <3>1, <3>2, DivModUnique
  <2>3. t \in Threads
    BY <1>1, <2>1, SMT DEF Threads
  <2> QED
    BY <2>2, <2>3
<1>5. \A t \in Threads : t \div jr \in 0 .. ic - 1
  BY <1>1, <1>3, SMT
<1>6. ASSUME NEW t \in Threads, NEW u \in Threads, t \div jr = u \div jr, t % jr = u % jr
      PROVE  t = u
  <2>1. t = (jr * (t \div jr)) + (t % jr) /\ u = (jr * (u \div jr)) + (u % jr)
    BY <1>3
  <2> QED
    BY <1>6, <2>1
<1> QED
  BY <1>3, <1>4, <1>5, <1>6 DEF ic, jr

\* Every column has one thread that packs and solves it.
LEMMA SolveShares ==
    ASSUME IrOnce, NEW s \in Solves
    PROVE  /\ \A t \in Threads :
                /\ SolveSlab(s, t) \in [start : Nat, end : Nat]
                /\ SolveSlab(s, t).start <= SolveSlab(s, t).end
                /\ SolveSlab(s, t).end <= s.n
                /\ Indices(SolveSlab(s, t)) \subseteq 0 .. s.n - 1
           /\ \A t, u \in Threads : \A j :
                j \in Indices(SolveSlab(s, t)) /\ j \in Indices(SolveSlab(s, u)) => t = u
           /\ \A j \in 0 .. s.n - 1 : \E t \in Threads : j \in Indices(SolveSlab(s, t))
<1>1. s.n \in Nat /\ NT \in Nat \ {0} /\ FALSE \in BOOLEAN
  BY TrsmParameters
<1>2. Threads = 0 .. NT - 1
  BY DEF Threads
<1>3. \A t \in Threads :
        /\ SolveSlab(s, t) \in [start : Nat, end : Nat]
        /\ SolveSlab(s, t).start <= SolveSlab(s, t).end /\ SolveSlab(s, t).end <= s.n
  BY <1>1, <1>2, Shares DEF SolveSlab
<1>4. \A t \in Threads : Indices(SolveSlab(s, t)) \subseteq 0 .. s.n - 1
  <2> SUFFICES ASSUME NEW t \in Threads, NEW j \in Indices(SolveSlab(s, t))
               PROVE  j \in 0 .. s.n - 1
    OBVIOUS
  <2> DEFINE r == SolveSlab(s, t)
  <2>1. r.start \in Nat /\ r.end \in Nat /\ r.end <= s.n /\ j \in r.start .. r.end - 1
    BY <1>3 DEF Indices
  <2> HIDE DEF r
  <2> QED
    BY <1>1, <2>1, SMT
<1>5. \A v, w \in Threads : \A x \in 0 .. s.n - 1 :
        x \in Indices(SolveSlab(s, v)) /\ x \in Indices(SolveSlab(s, w)) => v = w
  BY <1>1, <1>2, Shares DEF SolveSlab
<1>6. \A x \in 0 .. s.n - 1 : \E w \in Threads : x \in Indices(SolveSlab(s, w))
  BY <1>1, <1>2, Shares DEF SolveSlab
<1> QED
  BY <1>3, <1>4, <1>5, <1>6

\* Every element ahead of a block has one thread that updates it.
LEMMA UpdateShares ==
    ASSUME IrOnce, NEW s \in Solves, NEW k \in [i : Nat, off : Nat, len : Nat],
           k.i + k.len <= s.m
    PROVE  /\ \A t \in Threads :
                /\ UpdateSlab(s, t) \in [start : Nat, end : Nat]
                /\ UpdateSlab(s, t).start <= UpdateSlab(s, t).end
                /\ UpdateSlab(s, t).end <= s.n
                /\ Indices(UpdateSlab(s, t)) \subseteq 0 .. s.n - 1
                /\ UpdateRange(s, t, k) \in [start : Nat, end : Nat]
                /\ UpdateRange(s, t, k).start <= UpdateRange(s, t, k).end
                /\ UpdateRange(s, t, k).end <= s.m - (k.i + k.len)
                /\ \A a \in UpdatePlaces(s, t, k) : a \in Nat /\ k.i + k.len <= a /\ a < s.m
           /\ \A t, u \in Threads : \A a, j :
                /\ a \in UpdatePlaces(s, t, k) /\ j \in Indices(UpdateSlab(s, t))
                /\ a \in UpdatePlaces(s, u, k) /\ j \in Indices(UpdateSlab(s, u))
                => t = u
           /\ \A a \in k.i + k.len .. s.m - 1, j \in 0 .. s.n - 1 : \E t \in Threads :
                a \in UpdatePlaces(s, t, k) /\ j \in Indices(UpdateSlab(s, t))
<1> DEFINE from == k.i + k.len
           left == s.m - from
           rows(a) == RangeSub(a, s.ic, left, 1, s.backward)
           cols(b) == RangeSub(b, s.jr, s.n, 1, FALSE)
<1>1. /\ s.n \in Nat /\ s.m \in Nat /\ s.ic \in Nat \ {0} /\ s.jr \in Nat \ {0}
      /\ FALSE \in BOOLEAN /\ s.backward \in BOOLEAN
  BY TrsmParameters
<1>2. from \in Nat /\ left \in Nat
  BY <1>1, SMT
<1>3. /\ \A t : UpdateSlab(s, t) = cols(t % s.jr)
      /\ \A t : UpdateRange(s, t, k) = rows(t \div s.jr)
      /\ \A t, a : a \in UpdatePlaces(s, t, k) <=>
            a \in 0 .. s.m - 1 /\ a - from \in Indices(rows(t \div s.jr))
  BY DEF UpdateSlab, UpdateRange, UpdatePlaces
<1>4. /\ \A a \in 0 .. s.ic - 1 :
            rows(a) \in [start : Nat, end : Nat] /\ rows(a).start <= rows(a).end
            /\ rows(a).end <= left
      /\ \A a, b \in 0 .. s.ic - 1 : \A x \in 0 .. left - 1 :
            x \in Indices(rows(a)) /\ x \in Indices(rows(b)) => a = b
      /\ \A x \in 0 .. left - 1 : \E a \in 0 .. s.ic - 1 : x \in Indices(rows(a))
  <2> HIDE DEF left
  <2> QED
    BY <1>1, <1>2, Shares
<1>5. /\ \A a \in 0 .. s.jr - 1 :
            cols(a) \in [start : Nat, end : Nat] /\ cols(a).start <= cols(a).end
            /\ cols(a).end <= s.n
      /\ \A a, b \in 0 .. s.jr - 1 : \A x \in 0 .. s.n - 1 :
            x \in Indices(cols(a)) /\ x \in Indices(cols(b)) => a = b
      /\ \A x \in 0 .. s.n - 1 : \E a \in 0 .. s.jr - 1 : x \in Indices(cols(a))
  BY <1>1, Shares
<1>6. /\ \A t \in Threads : t \div s.jr \in 0 .. s.ic - 1 /\ t % s.jr \in 0 .. s.jr - 1
      /\ \A t, u \in Threads : t \div s.jr = u \div s.jr /\ t % s.jr = u % s.jr => t = u
      /\ \A a \in 0 .. s.ic - 1, b \in 0 .. s.jr - 1 :
            \E t \in Threads : t \div s.jr = a /\ t % s.jr = b
  BY GridOfThreads
<1>7. \A r \in [start : Nat, end : Nat] : \A N \in Nat : \A x :
        r.end <= N /\ x \in Indices(r) => x \in 0 .. N - 1
  BY SMT DEF Indices
<1> HIDE DEF from, left, rows, cols
<1>8. \A t \in Threads : Indices(UpdateSlab(s, t)) \subseteq 0 .. s.n - 1
  BY <1>1, <1>3, <1>5, <1>6, <1>7
<1>9. \A t \in Threads : \A a \in UpdatePlaces(s, t, k) :
        a - from \in 0 .. left - 1 /\ a \in 0 .. s.m - 1
  BY <1>2, <1>3, <1>4, <1>6, <1>7
<1>10. \A t \in Threads : \A a \in UpdatePlaces(s, t, k) : a \in Nat /\ from <= a /\ a < s.m
  BY <1>1, <1>2, <1>9, SMT
<1>11. ASSUME NEW t \in Threads, NEW u \in Threads, NEW a, NEW j,
              a \in UpdatePlaces(s, t, k), j \in Indices(UpdateSlab(s, t)),
              a \in UpdatePlaces(s, u, k), j \in Indices(UpdateSlab(s, u))
       PROVE  t = u
  <2>1. a - from \in 0 .. left - 1 /\ j \in 0 .. s.n - 1
    BY <1>8, <1>9, <1>11
  <2>2. t \div s.jr = u \div s.jr
    BY <1>3, <1>4, <1>6, <1>11, <2>1
  <2>3. t % s.jr = u % s.jr
    BY <1>3, <1>5, <1>6, <1>11, <2>1
  <2> QED
    BY <1>6, <2>2, <2>3
<1>12. ASSUME NEW a \in from .. s.m - 1, NEW j \in 0 .. s.n - 1
       PROVE  \E t \in Threads :
                a \in UpdatePlaces(s, t, k) /\ j \in Indices(UpdateSlab(s, t))
  <2>1. a - from \in 0 .. left - 1 /\ a \in 0 .. s.m - 1
    BY <1>1, <1>2, SMT DEF left
  <2>2. PICK x \in 0 .. s.ic - 1 : a - from \in Indices(rows(x))
    BY <1>4, <2>1
  <2>3. PICK y \in 0 .. s.jr - 1 : j \in Indices(cols(y))
    BY <1>5
  <2>4. PICK t \in Threads : t \div s.jr = x /\ t % s.jr = y
    BY <1>6
  <2> QED
    BY <1>3, <2>1, <2>2, <2>3, <2>4
<1>13. \A t \in Threads :
        /\ UpdateSlab(s, t) \in [start : Nat, end : Nat]
        /\ UpdateSlab(s, t).start <= UpdateSlab(s, t).end /\ UpdateSlab(s, t).end <= s.n
        /\ UpdateRange(s, t, k) \in [start : Nat, end : Nat]
        /\ UpdateRange(s, t, k).start <= UpdateRange(s, t, k).end
        /\ UpdateRange(s, t, k).end <= left
  BY <1>3, <1>4, <1>5, <1>6
<1> QED
  BY <1>8, <1>10, <1>11, <1>12, <1>13 DEF from, left

-----------------------------------------------------------------------------

\* The rows from the place b to the place e - 1
Between(s, b, e) == {r \in 0 .. s.m - 1 : b <= Flip(s, r) /\ Flip(s, r) < e}

LEMMA Flips ==
    ASSUME IrOnce, NEW s \in Solves
    PROVE  \A a \in 0 .. s.m - 1 : Flip(s, a) \in 0 .. s.m - 1 /\ Flip(s, Flip(s, a)) = a
<1>1. s.m \in Nat \ {0} /\ s.backward \in BOOLEAN
  BY TrsmParameters
<1> QED
  BY <1>1, SMT DEF Flip

LEMMA EarlyJoin ==
    ASSUME IrOnce, NEW s \in Solves, NEW b \in Nat, NEW e \in Nat, b <= e
    PROVE  /\ Early(s, b) \cup Between(s, b, e) = Early(s, e)
           /\ Early(s, b) \cap Between(s, b, e) = {}
<1>1. \A r \in 0 .. s.m - 1 : Flip(s, r) \in Nat
  <2>1. s.m \in Nat
    BY TrsmParameters
  <2> QED
    BY <2>1, Flips, SMT
<1>2. \A r \in 0 .. s.m - 1 :
        /\ Flip(s, r) < b \/ (b <= Flip(s, r) /\ Flip(s, r) < e) <=> Flip(s, r) < e
        /\ ~(Flip(s, r) < b /\ b <= Flip(s, r))
  BY <1>1, SMT
<1> QED
  BY <1>2, Zenon DEF Early, Between

\* What is before a row, and the solution of it
LEMMA SolutionAt ==
    ASSUME IrOnce, trsm_p \in Solves, NEW a \in 0 .. trsm_p.m - 1
    PROVE  /\ Solve!Before(Flip(trsm_p, a)) = Early(trsm_p, a)
           /\ Solve!Solution(Flip(trsm_p, a)) = Solved(trsm_p, a)
<1>1. trsm_p.m \in Nat \ {0} /\ trsm_p.backward \in BOOLEAN
  BY TrsmParameters
<1>2. \A r \in 0 .. trsm_p.m - 1 :
        (IF trsm_p.backward THEN r > Flip(trsm_p, a) ELSE r < Flip(trsm_p, a))
        <=> Flip(trsm_p, r) < a
  BY <1>1, SMT DEF Flip
<1>3. Solve!Before(Flip(trsm_p, a)) = Early(trsm_p, a)
  BY <1>2, Zenon DEF Solve!Before, Solve!Rows, Early
<1> QED
  BY <1>3, Zenon DEF Solve!Solution, Solved

\* The rows of a part are those of consecutive places.
LEMMA PartRows ==
    ASSUME IrOnce, trsm_p \in Solves, NEW x, x.off \in Nat, x.len \in Nat,
           x.off + x.len <= trsm_p.m
    PROVE  /\ FirstPlace(trsm_p, x) \in Nat
           /\ FirstPlace(trsm_p, x) + x.len <= trsm_p.m
           /\ Solve!Span(x)
                = Between(trsm_p, FirstPlace(trsm_p, x), FirstPlace(trsm_p, x) + x.len)
<1> DEFINE first == FirstPlace(trsm_p, x)
<1>1. trsm_p.m \in Nat \ {0} /\ trsm_p.backward \in BOOLEAN
  BY TrsmParameters
<1>2. first \in Nat /\ first + x.len <= trsm_p.m
  BY <1>1, SMT DEF FirstPlace
<1>3. \A r : r \in x.off .. x.off + x.len - 1
             <=> r \in 0 .. trsm_p.m - 1
                 /\ first <= Flip(trsm_p, r) /\ Flip(trsm_p, r) < first + x.len
  BY <1>1, SMT DEF FirstPlace, Flip
<1>4. Solve!Span(x) = Between(trsm_p, first, first + x.len)
  BY <1>3, Zenon DEF Solve!Span, Between
<1> QED
  BY <1>2, <1>4

\* bli_acquire_mpart_mdim goes through a part in the order of the places.
LEMMA MPartPlaces ==
    ASSUME IrOnce, trsm_p \in Solves, NEW x, x.off \in Nat, x.len \in Nat,
           x.off + x.len <= trsm_p.m,
           NEW idx \in Nat, NEW b \in Nat, idx + b <= x.len
    PROVE  LET y == Solve!MPart(x, idx, b)
           IN  /\ y \in [off : Nat, len : Nat]
               /\ y.len = b /\ y.off + y.len <= trsm_p.m
               /\ FirstPlace(trsm_p, y) = FirstPlace(trsm_p, x) + idx
<1>1. trsm_p.m \in Nat \ {0} /\ trsm_p.backward \in BOOLEAN
  BY TrsmParameters
<1>2. Solve!MPart(x, idx, b) =
        [off |-> x.off + (IF trsm_p.backward THEN x.len - idx - b ELSE idx), len |-> b]
  <2>1. (IF b > x.len - idx THEN x.len - idx ELSE b) = b
    BY SMT
  <2> QED
    BY <2>1, Zenon DEF Solve!MPart
<1>3. x.off + (IF trsm_p.backward THEN x.len - idx - b ELSE idx) \in Nat
  BY <1>1, SMT
<1> QED
  BY <1>1, <1>2, <1>3, SMT DEF FirstPlace

\* The rows of a block of A's columns, and what is ahead of it
LEMMA BlockPlaces ==
    ASSUME IrOnce, trsm_p \in Solves, NEW k \in [i : Nat, off : Nat, len : Nat],
           k.i + k.len <= trsm_p.m, k = BlockAt(trsm_p, k.i, k.len)
    PROVE  /\ k.off + k.len <= trsm_p.m
           /\ FirstPlace(trsm_p, k) = k.i
           /\ Solve!Span(k) = Between(trsm_p, k.i, k.i + k.len)
           /\ \A a \in SolvePlaces(k) :
                /\ a \in 0 .. trsm_p.m - 1
                /\ Flip(trsm_p, a) - k.off \in 0 .. k.len - 1
<1>1. trsm_p.m \in Nat \ {0} /\ trsm_p.backward \in BOOLEAN
  BY TrsmParameters
<1>2. k.off = IF trsm_p.backward THEN trsm_p.m - k.i - k.len ELSE k.i
  BY DEF BlockAt
<1>3. k.i \in Nat /\ k.off \in Nat /\ k.len \in Nat
  OBVIOUS
<1>4. k.off + k.len <= trsm_p.m /\ FirstPlace(trsm_p, k) = k.i
  BY <1>1, <1>2, <1>3, SMT DEF FirstPlace
<1>5. Solve!Span(k) = Between(trsm_p, k.i, k.i + k.len)
  BY <1>3, <1>4, PartRows
<1>6. \A a \in k.i .. k.i + k.len - 1 :
        a \in 0 .. trsm_p.m - 1 /\ Flip(trsm_p, a) - k.off \in 0 .. k.len - 1
  BY <1>1, <1>2, <1>3, SMT DEF Flip
<1> QED
  BY <1>4, <1>5, <1>6 DEF SolvePlaces

LEMMA AheadPlaces ==
    ASSUME IrOnce, trsm_p \in Solves, NEW t \in Threads,
           trsm_kblk[t] \in [i : Nat, off : Nat, len : Nat],
           trsm_kblk[t].i + trsm_kblk[t].len <= trsm_p.m,
           trsm_kblk[t] = BlockAt(trsm_p, trsm_kblk[t].i, trsm_kblk[t].len)
    PROVE  LET x == Solve!Ahead(t)
               k == trsm_kblk[t]
           IN  /\ x.off \in Nat /\ x.len \in Nat /\ x.off + x.len <= trsm_p.m
               /\ x.len = trsm_p.m - (k.i + k.len)
               /\ FirstPlace(trsm_p, x) = k.i + k.len
<1> DEFINE k == trsm_kblk[t]
<1>1. trsm_p.m \in Nat \ {0} /\ trsm_p.backward \in BOOLEAN
  BY TrsmParameters
<1>2. k.off = IF trsm_p.backward THEN trsm_p.m - k.i - k.len ELSE k.i
  BY DEF BlockAt
<1>3. k.i \in Nat /\ k.off \in Nat /\ k.len \in Nat /\ k.i + k.len <= trsm_p.m
  OBVIOUS
<1>4. Solve!Ahead(t) = IF trsm_p.backward THEN [off |-> 0, len |-> k.off]
                       ELSE [off |-> k.off + k.len, len |-> trsm_p.m - k.off - k.len]
  BY DEF Solve!Ahead
<1> HIDE DEF k
<1>5. CASE trsm_p.backward = TRUE
  BY <1>1, <1>2, <1>3, <1>4, <1>5, SMT DEF FirstPlace, k
<1>6. CASE trsm_p.backward = FALSE
  BY <1>1, <1>2, <1>3, <1>4, <1>6, SMT DEF FirstPlace, k
<1> QED
  BY <1>1, <1>5, <1>6

\* The row of the microtile that a thread is at
LEMMA RowAtPlace ==
    ASSUME IrOnce, trsm_p \in Solves, NEW t \in Threads,
           trsm_blk[t].off \in Nat, trsm_blk[t].len \in Nat, trsm_ker[t].r \in Nat
    PROVE  Solve!Row(t)
                = Flip(trsm_p, FirstPlace(trsm_p, trsm_blk[t]) + trsm_ker[t].r)
<1>1. trsm_p.m \in Nat \ {0} /\ trsm_p.backward \in BOOLEAN
  BY TrsmParameters
<1> QED
  BY <1>1, SMT DEF Solve!Row, Flip, FirstPlace

-----------------------------------------------------------------------------

\* The next block fits in what is left, and is not more than the blocksize.
LEMMA NextBlockFits ==
    ASSUME NEW back \in BOOLEAN, NEW left \in Nat \ {0}, NEW b \in Nat \ {0}
    PROVE  /\ Solve!DetermineBlocksize(back, left, b, b) = DetermineBlocksize(back, left, b, b)
           /\ DetermineBlocksize(back, left, b, b) \in 1 .. left
           /\ DetermineBlocksize(back, left, b, b) <= b
<1>1. Solve!DetermineBlocksize(back, left, b, b) = DetermineBlocksize(back, left, b, b)
  BY Zenon DEF Solve!DetermineBlocksize, DetermineBlocksize
<1>2. DetermineBlocksize(back, left, b, b) \in 1 .. left
  BY BlocksFit, SMT
<1>3. left % b \in 0 .. b - 1
  BY DivMod
<1>4. DetermineBlocksize(back, left, b, b) =
        IF back THEN IF b + (left % b) <= b THEN b + (left % b) ELSE left % b
        ELSE IF left <= b THEN left ELSE b
  BY Zenon DEF DetermineBlocksize
<1> QED
  BY <1>1, <1>2, <1>3, <1>4, SMT

\* The operators of Trsm, as they are called here
LEMMA SlabNames ==
    ASSUME IrOnce, trsm_p \in Solves, NEW t \in Threads
    PROVE  /\ Solve!SolveSlab(t) = SolveSlab(trsm_p, t)
           /\ Solve!UpdateSlab(t) = UpdateSlab(trsm_p, t)
           /\ Solve!RangeSub(t, NT, trsm_p.n, 1, FALSE) = SolveSlab(trsm_p, t)
           /\ Solve!IcId(t) = t \div trsm_p.jr
           /\ \A w, n_way, n, low :
                Solve!RangeSub(w, n_way, n, 1, low) = RangeSub(w, n_way, n, 1, low)
<1> DEFINE jr == trsm_p.jr
<1>1. /\ jr \in Nat \ {0} /\ trsm_p.ir = 1 /\ trsm_p.ic * jr = NT /\ NT \in Nat \ {0}
  BY TrsmParameters
<1>2. jr * trsm_p.ir = jr
  BY <1>1, SMT
<1> HIDE DEF jr
<1>3. t \in Nat
  BY <1>1, SMT DEF Threads
<1>4. NT \div NT = 1
  <2>1. 1 \in Nat /\ 0 \in 0 .. NT - 1 /\ NT = (NT * 1) + 0 /\ NT \in Nat
    BY <1>1, SMT
  <2> QED
    BY <1>1, <2>1, DivModUnique
<1>5. t \div 1 = t
  <2>1. 1 \in Nat \ {0} /\ 0 \in 0 .. 1 - 1 /\ t = (1 * t) + 0
    BY <1>3, SMT
  <2> QED
    BY <1>3, <2>1, DivModUnique
<1>6. Solve!SolveWays = NT /\ Solve!SolveId(t) = t
  BY <1>1, <1>4, <1>5 DEF Solve!SolveWays, Solve!SolveId, jr
<1>7. Solve!UpdateWays = jr /\ Solve!UpdateId(t) = t % jr /\ Solve!IcId(t) = t \div jr
  BY <1>2 DEF Solve!UpdateWays, Solve!UpdateId, Solve!IcId, jr
<1>8. \A w, n_way, n, low :
        Solve!RangeSub(w, n_way, n, 1, low) = RangeSub(w, n_way, n, 1, low)
  <2> TAKE w, n_way, n, low
  <2>1. ASSUME NEW each, NEW more, NEW left
        PROVE  Solve!RangeSubN(w, n_way, each, more, left, 1, low)
                    = RangeSubN(w, n_way, each, more, left, 1, low)
    BY DEF Solve!RangeSubN, RangeSubN
  <2> QED
    BY <2>1, Zenon DEF Solve!RangeSub, RangeSub
<1>9. Solve!SolveSlab(t) = SolveSlab(trsm_p, t)
  BY <1>6, <1>8, Zenon DEF Solve!SolveSlab, SolveSlab
<1>10. Solve!UpdateSlab(t) = UpdateSlab(trsm_p, t)
  BY <1>7, <1>8, Zenon DEF Solve!UpdateSlab, UpdateSlab, jr
<1>11. Solve!RangeSub(t, NT, trsm_p.n, 1, FALSE) = SolveSlab(trsm_p, t)
  BY <1>8, Zenon DEF SolveSlab
<1> QED
  BY <1>7, <1>8, <1>9, <1>10, <1>11 DEF jr

-----------------------------------------------------------------------------

\* The barriers that belong to a round
LEMMA RoundNumber ==
    /\ \A a \in Nat : /\ (a + 2) \div 3 \in Nat
                      /\ 3 * ((a + 2) \div 3) - 2 <= a /\ a <= 3 * ((a + 2) \div 3)
    /\ \A a, q \in Nat : 3 * q - 2 <= a /\ a <= 3 * q => (a + 2) \div 3 = q
<1>1. ASSUME NEW a \in Nat
      PROVE  /\ (a + 2) \div 3 \in Nat
             /\ 3 * ((a + 2) \div 3) - 2 <= a /\ a <= 3 * ((a + 2) \div 3)
  <2> DEFINE e == a + 2
             d == e \div 3
             f == e % 3
  <2>1. e \in Nat /\ 3 \in Nat \ {0}
    BY SMT
  <2>2. d \in Nat /\ f \in 0 .. 3 - 1 /\ e = (3 * d) + f
    <3> HIDE DEF e
    <3> QED
      BY <2>1, DivMod
  <2> HIDE DEF d, f
  <2> QED
    BY <2>2, SMT DEF d
<1>2. ASSUME NEW a \in Nat, NEW q \in Nat, 3 * q - 2 <= a, a <= 3 * q
      PROVE  (a + 2) \div 3 = q
  <2> DEFINE d == (a + 2) \div 3
  <2>1. d \in Nat /\ 3 * d - 2 <= a /\ a <= 3 * d
    BY <1>1
  <2> HIDE DEF d
  <2>2. d = q
    BY <1>2, <2>1, SMT
  <2> QED
    BY <2>2 DEF d
<1> QED
  BY <1>1, <1>2

LEMMA Rounds ==
    ASSUME TrsmType, NEW t \in Threads
    PROVE  /\ Round(t) \in Nat /\ trsm_calls[t] \in Nat
           /\ 3 * Round(t) - 2 <= trsm_calls[t] /\ trsm_calls[t] <= 3 * Round(t)
BY RoundNumber DEF TrsmType, Round

\* What the invariant says of the block of a thread
LEMMA KBlockFacts ==
    ASSUME IrOnce, TrsmIInv, NEW t \in Threads
    PROVE  LET k == trsm_kblk[t]
           IN  /\ k \in [i : Nat, off : Nat, len : Nat]
               /\ trsm_p \in Solves /\ trsm_p.m \in Nat /\ k.i + k.len <= trsm_p.m
               /\ Round(t) = 0 => k.i = 0 /\ k.len = 0
               /\ Round(t) > 0 => /\ k.len \in 1 .. trsm_p.kc
                                  /\ k = BlockAt(trsm_p, k.i, k.len)
               /\ Round(t) \in Nat /\ (Round(t) = 0 \/ Round(t) > 0)
<1>1. trsm_p \in Solves /\ trsm_kblk[t] \in [i : Nat, off : Nat, len : Nat]
  BY DEF TrsmIInv, TrsmType
<1>2. trsm_p.m \in Nat \ {0}
  BY <1>1, TrsmParameters
<1>3. Round(t) \in Nat
  BY Rounds DEF TrsmIInv
<1>4. BlockOfRound(t)
  BY DEF TrsmIInv
<1>5. Round(t) = 0 \/ Round(t) > 0
  BY <1>3, SMT
<1>6. Round(t) = 0 => trsm_kblk[t].i = 0 /\ trsm_kblk[t].len = 0
  BY <1>4 DEF BlockOfRound
<1>7. trsm_kblk[t].i + trsm_kblk[t].len <= trsm_p.m
  <2>1. CASE Round(t) = 0
    BY <1>2, <1>6, <2>1, SMT
  <2>2. CASE Round(t) > 0
    BY <1>4, <2>2 DEF BlockOfRound
  <2> QED
    BY <1>5, <2>1, <2>2
<1> QED
  BY <1>1, <1>2, <1>3, <1>4, <1>5, <1>6, <1>7 DEF BlockOfRound

\* A step of the thread t, in the round that it is in, leaves to the others
\* what is theirs.
OnlyOf(t) ==
    /\ trsm_p' = trsm_p /\ trsm_kblk' = trsm_kblk
    /\ \A v \in Threads : v # t =>
        /\ trsm_pc'[v] = trsm_pc[v] /\ trsm_calls'[v] = trsm_calls[v]
        /\ trsm_range'[v] = trsm_range[v] /\ trsm_i'[v] = trsm_i[v]
        /\ trsm_blk'[v] = trsm_blk[v] /\ trsm_ker'[v] = trsm_ker[v]

LEMMA OthersStay ==
    ASSUME NEW v \in Threads, trsm_p' = trsm_p,
           trsm_kblk'[v] = trsm_kblk[v],
           trsm_pc'[v] = trsm_pc[v], trsm_calls'[v] = trsm_calls[v],
           trsm_range'[v] = trsm_range[v], trsm_i'[v] = trsm_i[v],
           trsm_blk'[v] = trsm_blk[v], trsm_ker'[v] = trsm_ker[v]
    PROVE  /\ Round(v)' = Round(v)
           /\ Counted(v) => Counted(v)'
           /\ BlockOfRound(v) => BlockOfRound(v)'
           /\ InLoop(v) => InLoop(v)'
           /\ AtTile(v) => AtTile(v)'
           /\ \A a, j, q : /\ SolveDone(v, a, j, q)' <=> SolveDone(v, a, j, q)
                           /\ UpdateDone(v, a, j, q)' <=> UpdateDone(v, a, j, q)
<1>1. Round(v)' = Round(v)
  BY DEF Round
<1>2. LoopBase(v)' = LoopBase(v)
  BY DEF LoopBase
<1>3. \A a, j : Passed(v, a, j)' <=> Passed(v, a, j)
  BY <1>2 DEF Passed
<1>4. Counted(v) => Counted(v)'
  BY <1>1 DEF Counted
<1>5. BlockOfRound(v) => BlockOfRound(v)'
  BY <1>1 DEF BlockOfRound
<1>6. InLoop(v) => InLoop(v)'
  BY DEF InLoop
<1>7. AtTile(v) => AtTile(v)'
  BY <1>2 DEF AtTile
<1>8. \A a, j, q : /\ SolveDone(v, a, j, q)' <=> SolveDone(v, a, j, q)
                   /\ UpdateDone(v, a, j, q)' <=> UpdateDone(v, a, j, q)
  BY <1>1, <1>3 DEF SolveDone, UpdateDone
<1> QED
  BY <1>1, <1>4, <1>5, <1>6, <1>7, <1>8

LEMMA LastAgree ==
    ASSUME TrsmType, SameBlocks, NEW t \in Threads, NEW u \in Threads, Last(t), Last(u)
    PROVE  Round(u) = Round(t) /\ trsm_kblk[u] = trsm_kblk[t]
<1>1. Round(t) \in Nat /\ Round(u) \in Nat /\ Round(t) <= Round(u) /\ Round(u) <= Round(t)
  BY Rounds DEF Last
<1>2. Round(u) = Round(t)
  BY <1>1, SMT
<1> QED
  BY <1>2 DEF SameBlocks

\* What such a step has to show.
LEMMA StepKeeps ==
    ASSUME IrOnce, TrsmIInv, NEW t \in Threads, Last(t), OnlyOf(t), TrsmType',
           Round(t)' = Round(t), trsm_calls'[t] >= trsm_calls[t],
           Counted(t)', Together(t)', InLoop(t)', AtTile(t)',
           NEW k, k = trsm_kblk[t], NEW q, q = Round(t),
           ElementsAre(k, q)', PackedAre(k, q)'
    PROVE  TrsmIInv'
<1>1. \A v \in Threads : v # t =>
        /\ Round(v)' = Round(v) /\ Counted(v)' /\ BlockOfRound(v)' /\ InLoop(v)' /\ AtTile(v)'
  BY OthersStay DEF OnlyOf, TrsmIInv
<1>2. trsm_kblk' = trsm_kblk /\ trsm_p' = trsm_p
  BY DEF OnlyOf
<1>3. \A v \in Threads : Round(v)' = Round(v)
  BY <1>1
<1>4. BlockOfRound(t)'
  BY <1>2, <1>3 DEF TrsmIInv, BlockOfRound
<1>5. SameBlocks'
  <2> SUFFICES ASSUME NEW v \in Threads, NEW u \in Threads
               PROVE  /\ Round(u)' = Round(v)' => trsm_kblk'[u] = trsm_kblk'[v]
                      /\ Round(u)' = Round(v)' + 1 =>
                            trsm_kblk'[u] = NextK(trsm_p', trsm_kblk'[v])
    BY DEF SameBlocks
  <2> QED
    BY <1>2, <1>3 DEF TrsmIInv, SameBlocks
<1>6. \A v \in Threads : Together(v)'
  <2> SUFFICES ASSUME NEW v \in Threads, v # t PROVE Together(v)'
    OBVIOUS
  <2>1. \A u \in Threads : trsm_calls[u] \in Nat /\ trsm_calls'[u] \in Nat
    BY DEF TrsmIInv, TrsmType
  <2>2. \A u \in Threads : trsm_calls'[u] >= trsm_calls[u]
    BY <2>1, SMT DEF OnlyOf
  <2>3. trsm_calls'[v] = trsm_calls[v] /\ trsm_pc'[v] = trsm_pc[v] /\ Together(v)
    BY DEF OnlyOf, TrsmIInv
  <2> SUFFICES ASSUME NEW u \in Threads
               PROVE  /\ trsm_calls'[u] >= trsm_calls'[v] - 1
                      /\ trsm_pc'[v] \notin {"pack", "packed", "solved"} =>
                            trsm_calls'[u] >= trsm_calls'[v]
    BY DEF Together
  <2>4. /\ trsm_calls[u] >= trsm_calls[v] - 1
        /\ trsm_pc[v] \notin {"pack", "packed", "solved"} => trsm_calls[u] >= trsm_calls[v]
    BY <2>3 DEF Together
  <2> QED
    BY <2>1, <2>2, <2>3, <2>4, SMT
<1>7. ASSUME NEW u \in Threads, Last(u)'
      PROVE  trsm_kblk'[u] = k /\ Round(u)' = q
  <2>1. Last(u)
    <3> SUFFICES ASSUME NEW v \in Threads PROVE Round(u) <= Round(v)
      BY DEF Last
    <3>1. Round(u)' <= Round(v)'
      BY <1>7 DEF Last
    <3> QED
      BY <1>3, <3>1
  <2>2. Round(u) = Round(t) /\ trsm_kblk[u] = trsm_kblk[t]
    BY <2>1, LastAgree DEF TrsmIInv
  <2> QED
    BY <1>2, <1>3, <2>2
<1>8. \A v \in Threads : Counted(v)' /\ BlockOfRound(v)' /\ InLoop(v)' /\ AtTile(v)'
  BY <1>1, <1>4
<1> QED
  BY <1>5, <1>6, <1>7, <1>8 DEF TrsmIInv

\* A step that does not write to the matrix
LEMMA QuietSolveStep ==
    ASSUME IrOnce, TrsmIInv, NEW t \in Threads, Last(t), OnlyOf(t), TrsmType',
           Round(t)' = Round(t), trsm_calls'[t] >= trsm_calls[t],
           Counted(t)', Together(t)', InLoop(t)', AtTile(t)',
           trsm_c' = trsm_c, trsm_bp' = trsm_bp, trsm_pc[t] # "pack",
           NEW k, k = trsm_kblk[t], NEW q, q = Round(t),
           \A a \in SolvePlaces(k), j \in Indices(SolveSlab(trsm_p, t)) :
                SolveDone(t, a, j, q)' <=> SolveDone(t, a, j, q),
           \A a \in UpdatePlaces(trsm_p, t, k), j \in Indices(UpdateSlab(trsm_p, t)) :
                UpdateDone(t, a, j, q)' <=> UpdateDone(t, a, j, q)
    PROVE  TrsmIInv'
<1>1. ElementsAre(k, q) /\ PackedAre(k, q)
  BY DEF TrsmIInv
<1>2. trsm_p' = trsm_p
  BY DEF OnlyOf
<1>3. \A v \in Threads : v # t =>
        /\ Round(v)' = Round(v)
        /\ \A a, j : /\ SolveDone(v, a, j, q)' <=> SolveDone(v, a, j, q)
                     /\ UpdateDone(v, a, j, q)' <=> UpdateDone(v, a, j, q)
  BY OthersStay DEF OnlyOf
<1>4. \A v \in Threads : \A a \in SolvePlaces(k), j \in Indices(SolveSlab(trsm_p, v)) :
        SolveDone(v, a, j, q)' <=> SolveDone(v, a, j, q)
  BY <1>3
<1>5. \A v \in Threads :
      \A a \in UpdatePlaces(trsm_p, v, k), j \in Indices(UpdateSlab(trsm_p, v)) :
        UpdateDone(v, a, j, q)' <=> UpdateDone(v, a, j, q)
  BY <1>3
<1>6. ElementsAre(k, q)'
  BY <1>1, <1>2, <1>4, <1>5 DEF ElementsAre
<1>7. \A v \in Threads : Round(v)' > q \/ trsm_pc'[v] # "pack" =>
                         Round(v) > q \/ trsm_pc[v] # "pack"
  BY <1>3 DEF OnlyOf
<1>8. PackedAre(k, q)'
  BY <1>1, <1>2, <1>4, <1>7 DEF PackedAre
<1> QED
  BY <1>6, <1>8, StepKeeps

-----------------------------------------------------------------------------
\* Steps that do not write to B or its packed rows

\* What it takes to have been at a place
LEMMA DoneAt ==
    ASSUME NEW t \in Threads, NEW q
    PROVE  /\ trsm_pc[t] \in {"pack", "packed"} => \A a, j :
                /\ SolveDone(t, a, j, q) <=> Round(t) > q
                /\ UpdateDone(t, a, j, q) <=> Round(t) > q
           /\ trsm_pc[t] \in Solving => \A a, j :
                /\ SolveDone(t, a, j, q) <=> (Round(t) > q \/ Passed(t, a, j))
                /\ UpdateDone(t, a, j, q) <=> Round(t) > q
           /\ trsm_pc[t] = "solved" => \A a, j :
                SolveDone(t, a, j, q) /\ (UpdateDone(t, a, j, q) <=> Round(t) > q)
           /\ trsm_pc[t] \in Updating => \A a, j :
                /\ SolveDone(t, a, j, q)
                /\ UpdateDone(t, a, j, q) <=> (Round(t) > q \/ Passed(t, a, j))
           /\ trsm_pc[t] \in {"var3", "done"} => \A a, j :
                SolveDone(t, a, j, q) /\ UpdateDone(t, a, j, q)
           /\ trsm_pc[t] \in {"solve", "update"} => \A a, j :
                Passed(t, a, j) <=> a < LoopBase(t) + trsm_i[t]
           /\ trsm_pc[t] \in InKernel => \A a, j :
                Passed(t, a, j) <=> KernelPassed(FirstPlace(trsm_p, trsm_blk[t]),
                                                 trsm_blk[t], trsm_ker[t], a, j)
           /\ trsm_pc[t] \in Solving => LoopBase(t) = trsm_kblk[t].i
           /\ trsm_pc[t] \in Updating => LoopBase(t) = trsm_kblk[t].i + trsm_kblk[t].len
BY DEF SolveDone, UpdateDone, Passed, LoopBase, Solving, Updating, InKernel

LEMMA DoneAtNext ==
    ASSUME NEW t \in Threads, NEW q
    PROVE  /\ trsm_pc'[t] \in {"pack", "packed"} => \A a, j :
                /\ SolveDone(t, a, j, q)' <=> Round(t)' > q
                /\ UpdateDone(t, a, j, q)' <=> Round(t)' > q
           /\ trsm_pc'[t] \in Solving => \A a, j :
                /\ SolveDone(t, a, j, q)' <=> (Round(t)' > q \/ Passed(t, a, j)')
                /\ UpdateDone(t, a, j, q)' <=> Round(t)' > q
           /\ trsm_pc'[t] = "solved" => \A a, j :
                SolveDone(t, a, j, q)' /\ (UpdateDone(t, a, j, q)' <=> Round(t)' > q)
           /\ trsm_pc'[t] \in Updating => \A a, j :
                /\ SolveDone(t, a, j, q)'
                /\ UpdateDone(t, a, j, q)' <=> (Round(t)' > q \/ Passed(t, a, j)')
           /\ trsm_pc'[t] \in {"var3", "done"} => \A a, j :
                SolveDone(t, a, j, q)' /\ UpdateDone(t, a, j, q)'
           /\ trsm_pc'[t] \in {"solve", "update"} => \A a, j :
                Passed(t, a, j)' <=> a < LoopBase(t)' + trsm_i'[t]
           /\ trsm_pc'[t] \in InKernel => \A a, j :
                Passed(t, a, j)' <=> KernelPassed(FirstPlace(trsm_p', trsm_blk'[t]),
                                                  trsm_blk'[t], trsm_ker'[t], a, j)
           /\ trsm_pc'[t] \in Solving => LoopBase(t)' = trsm_kblk'[t].i
           /\ trsm_pc'[t] \in Updating => LoopBase(t)' = trsm_kblk'[t].i + trsm_kblk'[t].len
BY DEF SolveDone, UpdateDone, Passed, LoopBase, Solving, Updating, InKernel

\* A thread that no thread is behind
LEMMA InFront ==
    ASSUME TrsmIInv, NEW t \in Threads,
           trsm_pc[t] \notin {"pack", "packed", "solved"} \/ Solve!Released(t)
    PROVE  Last(t) /\ \A u \in Threads : trsm_calls[u] >= trsm_calls[t]
<1>1. \A u \in Threads : trsm_calls[u] >= trsm_calls[t]
  BY DEF TrsmIInv, Together, Solve!Released, Solve!Threads, Threads
<1>2. ASSUME NEW u \in Threads PROVE Round(t) <= Round(u)
  <2>1. /\ Round(t) \in Nat /\ Round(u) \in Nat
        /\ trsm_calls[t] \in Nat /\ trsm_calls[u] \in Nat
        /\ 3 * Round(t) - 2 <= trsm_calls[t] /\ trsm_calls[u] <= 3 * Round(u)
    BY Rounds DEF TrsmIInv
  <2>2. trsm_calls[u] >= trsm_calls[t]
    BY <1>1
  <2> QED
    BY <2>1, <2>2, SMT
<1> QED
  BY <1>1, <1>2 DEF Last

\* A step that does not call a barrier
LEMMA NoBarrier ==
    ASSUME TrsmIInv, NEW t \in Threads, OnlyOf(t), trsm_calls' = trsm_calls
    PROVE  /\ Round(t)' = Round(t) /\ trsm_calls'[t] >= trsm_calls[t]
           /\ \A u \in Threads : trsm_calls[u] \in Nat
           /\ (\A u \in Threads : trsm_calls[u] >= trsm_calls[t]) => Together(t)'
<1>1. \A u \in Threads : trsm_calls[u] \in Nat
  BY DEF TrsmIInv, TrsmType
<1>2. Round(t)' = Round(t)
  BY DEF Round
<1>3. ASSUME \A u \in Threads : trsm_calls[u] >= trsm_calls[t]
      PROVE  Together(t)'
  <2>1. \A u \in Threads : trsm_calls[u] >= trsm_calls[t] - 1
    BY <1>1, <1>3, SMT
  <2> QED
    BY <1>3, <2>1 DEF Together
<1>4. trsm_calls[t] >= trsm_calls[t]
  BY <1>1, SMT
<1> QED
  BY <1>1, <1>2, <1>3, <1>4

LEMMA FinishSolveStep ==
    ASSUME IrOnce, TrsmIInv, NEW t \in Threads, Solve!Finish(t)
    PROVE  TrsmIInv'
<1>1. /\ trsm_pc[t] = "var3" /\ trsm_pc' = [trsm_pc EXCEPT ![t] = "done"]
      /\ trsm_p' = trsm_p /\ trsm_c' = trsm_c /\ trsm_bp' = trsm_bp
      /\ trsm_calls' = trsm_calls /\ trsm_kblk' = trsm_kblk /\ trsm_range' = trsm_range
      /\ trsm_i' = trsm_i /\ trsm_blk' = trsm_blk /\ trsm_ker' = trsm_ker
  BY DEF Solve!Finish, Solve!Goto
<1>2. TrsmType
  BY DEF TrsmIInv
<1>3. TrsmType'
  BY <1>1, <1>2 DEF TrsmType, TrsmPoints
<1>4. OnlyOf(t) /\ trsm_pc'[t] = "done"
  BY <1>1, <1>2 DEF OnlyOf, TrsmType
<1>5. Last(t) /\ \A u \in Threads : trsm_calls[u] >= trsm_calls[t]
  BY <1>1, InFront
<1>6. Round(t)' = Round(t) /\ trsm_calls'[t] >= trsm_calls[t] /\ Together(t)'
  BY <1>1, <1>4, <1>5, NoBarrier
<1>7. Counted(t)'
  <2>1. Counted(t)
    BY DEF TrsmIInv
  <2> QED
    BY <1>1, <1>4, <1>6, <2>1 DEF Counted
<1>8. InLoop(t)' /\ AtTile(t)'
  BY <1>4 DEF InLoop, AtTile, Solving, Updating, InKernel
<1>9. PICK q : q = Round(t)
  OBVIOUS
<1>10. PICK k : k = trsm_kblk[t]
  OBVIOUS
<1>11. /\ \A a \in SolvePlaces(k), j \in Indices(SolveSlab(trsm_p, t)) :
            SolveDone(t, a, j, q)' <=> SolveDone(t, a, j, q)
       /\ \A a \in UpdatePlaces(trsm_p, t, k), j \in Indices(UpdateSlab(trsm_p, t)) :
            UpdateDone(t, a, j, q)' <=> UpdateDone(t, a, j, q)
  BY <1>1, <1>4, DoneAt, DoneAtNext
<1>12. trsm_pc[t] # "pack"
  BY <1>1
<1> QED
  BY <1>1, <1>3, <1>4, <1>5, <1>6, <1>7, <1>8, <1>9, <1>10, <1>11, <1>12, QuietSolveStep

LEMMA BeginSolveStep ==
    ASSUME IrOnce, TrsmIInv, NEW t \in Threads, Solve!BeginSolve(t)
    PROVE  TrsmIInv'
<1> DEFINE k == trsm_kblk[t]
<1>1. /\ trsm_pc[t] = "packed" /\ Solve!Released(t)
      /\ trsm_pc' = [trsm_pc EXCEPT ![t] = "solve"]
      /\ trsm_range' = [trsm_range EXCEPT ![t] = [start |-> 0, end |-> k.len]]
      /\ trsm_i' = [trsm_i EXCEPT ![t] = 0]
      /\ trsm_p' = trsm_p /\ trsm_c' = trsm_c /\ trsm_bp' = trsm_bp
      /\ trsm_calls' = trsm_calls /\ trsm_kblk' = trsm_kblk
      /\ trsm_blk' = trsm_blk /\ trsm_ker' = trsm_ker
  BY DEF Solve!BeginSolve, Solve!Goto
<1>2. TrsmType
  BY DEF TrsmIInv
<1>3. k.i \in Nat /\ k.len \in Nat
  BY <1>2 DEF TrsmType
<1>4. TrsmType'
  BY <1>1, <1>2, <1>3 DEF TrsmType, TrsmPoints
<1>5. /\ OnlyOf(t) /\ trsm_pc'[t] = "solve" /\ trsm_i'[t] = 0
      /\ trsm_range'[t] = [start |-> 0, end |-> k.len] /\ trsm_kblk'[t] = k
  BY <1>1, <1>2 DEF OnlyOf, TrsmType
<1>6. Last(t) /\ \A u \in Threads : trsm_calls[u] >= trsm_calls[t]
  BY <1>1, InFront
<1>7. Round(t)' = Round(t) /\ trsm_calls'[t] >= trsm_calls[t] /\ Together(t)'
  BY <1>1, <1>5, <1>6, NoBarrier
<1>8. Counted(t)'
  <2>1. Counted(t)
    BY DEF TrsmIInv
  <2> QED
    BY <1>1, <1>5, <1>7, <2>1 DEF Counted
<1>9. 0 \in 0 .. k.len
  BY <1>3, SMT
<1>10. InLoop(t)' /\ AtTile(t)'
  BY <1>3, <1>5, <1>9 DEF InLoop, AtTile, Solving, Updating, InKernel
<1> HIDE DEF k
<1>11. PICK q : q = Round(t)
  OBVIOUS
<1>12. PICK x : x = trsm_kblk[t]
  OBVIOUS
<1>13. q \in Nat
  BY <1>2, <1>11, Rounds
<1>14. \A a, j : (SolveDone(t, a, j, q) <=> FALSE) /\ (UpdateDone(t, a, j, q) <=> FALSE)
  <2>1. ~(q > q)
    BY <1>13, SMT
  <2> QED
    BY <1>1, <1>11, <2>1, DoneAt
<1>15. \A a \in SolvePlaces(x) : \A j : SolveDone(t, a, j, q)' <=> FALSE
  <2>1. ~(q > q)
    BY <1>13, SMT
  <2>2. LoopBase(t)' = x.i
    BY <1>5, <1>12, DoneAtNext DEF k, Solving
  <2>3. \A a \in SolvePlaces(x) : ~(a < x.i + 0)
    BY <1>3, <1>12, SMT DEF SolvePlaces, k
  <2>4. \A a, j : Passed(t, a, j)' <=> a < LoopBase(t)' + 0
    BY <1>5, DoneAtNext
  <2>5. \A a, j : SolveDone(t, a, j, q)' <=> (Round(t)' > q \/ Passed(t, a, j)')
    BY <1>5, DoneAtNext DEF Solving
  <2> QED
    BY <1>7, <1>11, <2>1, <2>2, <2>3, <2>4, <2>5
<1>16. \A a, j : UpdateDone(t, a, j, q)' <=> FALSE
  <2>1. ~(q > q)
    BY <1>13, SMT
  <2> QED
    BY <1>5, <1>7, <1>11, <2>1, DoneAtNext DEF Solving
<1>17. /\ \A a \in SolvePlaces(x), j \in Indices(SolveSlab(trsm_p, t)) :
            SolveDone(t, a, j, q)' <=> SolveDone(t, a, j, q)
       /\ \A a \in UpdatePlaces(trsm_p, t, x), j \in Indices(UpdateSlab(trsm_p, t)) :
            UpdateDone(t, a, j, q)' <=> UpdateDone(t, a, j, q)
  BY <1>14, <1>15, <1>16
<1>18. trsm_pc[t] # "pack"
  BY <1>1
<1> QED
  BY <1>1, <1>4, <1>5, <1>6, <1>7, <1>8, <1>10, <1>11, <1>12, <1>17, <1>18, QuietSolveStep

\* Where the thread is, in either of the two loops
LEMMA LoopFacts ==
    ASSUME IrOnce, TrsmIInv, NEW t \in Threads, trsm_pc[t] \in Solving \cup Updating
    PROVE  LET k == trsm_kblk[t]
               r == trsm_range[t]
           IN  /\ k \in [i : Nat, off : Nat, len : Nat] /\ k.i + k.len <= trsm_p.m
               /\ k.len \in 1 .. trsm_p.kc /\ k = BlockAt(trsm_p, k.i, k.len)
               /\ r \in [start : Nat, end : Nat] /\ trsm_i[t] \in r.start .. r.end
               /\ Round(t) \in Nat /\ Round(t) > 0
               /\ trsm_pc[t] \in Solving =>
                    /\ r = [start |-> 0, end |-> k.len] /\ LoopBase(t) = k.i
               /\ trsm_pc[t] \in Updating =>
                    /\ r = UpdateRange(trsm_p, t, k) /\ LoopBase(t) = k.i + k.len
                    /\ r.end <= trsm_p.m - (k.i + k.len)
<1> DEFINE k == trsm_kblk[t]
<1>1. Counted(t) /\ InLoop(t) /\ TrsmType
  BY DEF TrsmIInv
<1>2. Round(t) > 0
  BY <1>1 DEF Counted, Solving, Updating
<1>3. /\ k \in [i : Nat, off : Nat, len : Nat] /\ k.i + k.len <= trsm_p.m
      /\ k.len \in 1 .. trsm_p.kc /\ k = BlockAt(trsm_p, k.i, k.len)
      /\ trsm_p \in Solves /\ Round(t) \in Nat
  BY <1>2, KBlockFacts
<1>4. trsm_range[t] \in [start : Nat, end : Nat]
  BY <1>1 DEF TrsmType
<1>5. /\ trsm_i[t] \in trsm_range[t].start .. trsm_range[t].end
      /\ trsm_pc[t] \in Solving => trsm_range[t] = [start |-> 0, end |-> k.len]
      /\ trsm_pc[t] \in Updating => trsm_range[t] = UpdateRange(trsm_p, t, k)
  BY <1>1 DEF InLoop
<1>6. UpdateRange(trsm_p, t, k).end <= trsm_p.m - (k.i + k.len)
  BY <1>3, UpdateShares
<1>7. /\ trsm_pc[t] \in Solving => LoopBase(t) = k.i
      /\ trsm_pc[t] \in Updating => LoopBase(t) = k.i + k.len
  BY DoneAt
<1> QED
  BY <1>2, <1>3, <1>4, <1>5, <1>6, <1>7

\* The next block of rows, in the solve and in the update
LEMMA BlockStep ==
    ASSUME IrOnce, TrsmIInv, NEW t \in Threads, NEW from, NEW whole, NEW slab, NEW to,
           Solve!NextBlock(t, from, whole, slab, to),
           \/ /\ from = "solve" /\ to = "gemmtrsm"
              /\ whole = trsm_kblk[t] /\ slab = SolveSlab(trsm_p, t)
           \/ /\ from = "update" /\ to = "gemm"
              /\ whole = Solve!Ahead(t) /\ slab = UpdateSlab(trsm_p, t)
    PROVE  TrsmIInv'
<1>1. PICK k : k = trsm_kblk[t]
  OBVIOUS
<1>2. PICK r : r = trsm_range[t]
  OBVIOUS
<1>3. PICK n : n = trsm_i[t]
  OBVIOUS
<1>4. PICK b : b = DetermineBlocksize(trsm_p.backward, r.end - n, trsm_p.mc, trsm_p.mc)
  OBVIOUS
<1>5. PICK x : x = Solve!MPart(whole, n, b)
  OBVIOUS
<1>6. PICK q : q = Round(t)
  OBVIOUS
<1>7. PICK base : base = LoopBase(t)
  OBVIOUS
<1>8. /\ trsm_pc[t] = from /\ n < r.end
      /\ \/ from = "solve" /\ to = "gemmtrsm" /\ from \in Solving /\ to \in Solving
         \/ from = "update" /\ to = "gemm" /\ from \in Updating /\ to \in Updating
      /\ from \in {"solve", "update"} /\ to \in InKernel
  BY <1>2, <1>3 DEF Solve!NextBlock, Solving, Updating, InKernel
<1>9. /\ k \in [i : Nat, off : Nat, len : Nat] /\ k.i + k.len <= trsm_p.m
      /\ k = BlockAt(trsm_p, k.i, k.len)
      /\ r \in [start : Nat, end : Nat] /\ n \in r.start .. r.end /\ q \in Nat
      /\ from = "solve" => r = [start |-> 0, end |-> k.len] /\ base = k.i
      /\ from = "update" => /\ r = UpdateRange(trsm_p, t, k) /\ base = k.i + k.len
                            /\ r.end <= trsm_p.m - (k.i + k.len)
  BY <1>1, <1>2, <1>3, <1>6, <1>7, <1>8, LoopFacts
<1>10. TrsmType /\ trsm_p \in Solves /\ Counted(t)
  BY DEF TrsmIInv, TrsmType
<1>11. /\ trsm_p.mc \in Nat \ {0} /\ trsm_p.backward \in BOOLEAN /\ trsm_p.n \in Nat
       /\ trsm_p.m \in Nat
  BY <1>10, TrsmParameters
<1>12. /\ whole.off \in Nat /\ whole.len \in Nat /\ whole.off + whole.len <= trsm_p.m
       /\ FirstPlace(trsm_p, whole) = base /\ r.end <= whole.len
  <2>1. CASE from = "solve"
    <3>1. whole = k
      BY <1>1, <2>1
    <3>2. k.off + k.len <= trsm_p.m /\ FirstPlace(trsm_p, k) = k.i
      BY <1>9, <1>10, BlockPlaces
    <3>3. r.end = k.len /\ base = k.i /\ k.off \in Nat /\ k.len \in Nat
      BY <1>9, <2>1
    <3> QED
      BY <3>1, <3>2, <3>3, SMT
  <2>2. CASE from = "update"
    <3>1. whole = Solve!Ahead(t)
      BY <2>2
    <3>2. /\ whole.off \in Nat /\ whole.len \in Nat /\ whole.off + whole.len <= trsm_p.m
          /\ whole.len = trsm_p.m - (k.i + k.len)
          /\ FirstPlace(trsm_p, whole) = k.i + k.len
      BY <1>1, <1>9, <1>10, <3>1, AheadPlaces
    <3> QED
      BY <1>9, <2>2, <3>2
  <2> QED
    BY <1>8, <2>1, <2>2
<1>13. /\ Solve!DetermineBlocksize(trsm_p.backward, r.end - n, trsm_p.mc, trsm_p.mc) = b
       /\ b \in 1 .. r.end - n
  <2>1. r.end - n \in Nat \ {0}
    BY <1>8, <1>9, SMT
  <2> QED
    BY <1>4, <1>11, <2>1, NextBlockFits
<1>14. b \in Nat /\ n \in Nat /\ n + b \in Nat /\ n + b <= r.end /\ n + b <= whole.len
  BY <1>9, <1>12, <1>13, SMT
<1>15. x \in [off : Nat, len : Nat] /\ x.len = b /\ FirstPlace(trsm_p, x) = base + n
  BY <1>5, <1>10, <1>12, <1>14, MPartPlaces
<1>16. /\ trsm_i' = [trsm_i EXCEPT ![t] = n + b]
       /\ trsm_blk' = [trsm_blk EXCEPT ![t] = x]
       /\ IF slab.start = slab.end THEN trsm_ker' = trsm_ker /\ trsm_pc' = trsm_pc
          ELSE /\ trsm_ker' = [trsm_ker EXCEPT ![t] =
                    [j |-> slab.start, j_end |-> slab.end, r |-> 0]]
               /\ trsm_pc' = [trsm_pc EXCEPT ![t] = to]
       /\ trsm_p' = trsm_p /\ trsm_c' = trsm_c /\ trsm_bp' = trsm_bp
       /\ trsm_calls' = trsm_calls /\ trsm_kblk' = trsm_kblk /\ trsm_range' = trsm_range
  BY <1>2, <1>3, <1>5, <1>13 DEF Solve!NextBlock, Solve!Goto
<1>17. /\ slab \in [start : Nat, end : Nat] /\ slab.start <= slab.end
  <2>1. SolveSlab(trsm_p, t) \in [start : Nat, end : Nat]
        /\ SolveSlab(trsm_p, t).start <= SolveSlab(trsm_p, t).end
    BY <1>10, SolveShares
  <2>2. UpdateSlab(trsm_p, t) \in [start : Nat, end : Nat]
        /\ UpdateSlab(trsm_p, t).start <= UpdateSlab(trsm_p, t).end
    BY <1>9, <1>10, UpdateShares
  <2> QED
    BY <2>1, <2>2
<1>18. TrsmType'
  <2>1. trsm_pc' \in [Threads -> TrsmPoints]
    BY <1>8, <1>10, <1>16 DEF TrsmType, TrsmPoints
  <2>2. trsm_ker' \in [Threads -> [j : Nat, j_end : Nat, r : Nat]]
    <3>1. [j |-> slab.start, j_end |-> slab.end, r |-> 0]
                \in [j : Nat, j_end : Nat, r : Nat]
      BY <1>17, SMT
    <3>2. trsm_ker \in [Threads -> [j : Nat, j_end : Nat, r : Nat]]
      BY <1>10 DEF TrsmType
    <3> QED
      BY <1>16, <3>1, <3>2
  <2>3. trsm_i' \in [Threads -> Nat] /\ trsm_blk' \in [Threads -> [off : Nat, len : Nat]]
    BY <1>10, <1>14, <1>15, <1>16 DEF TrsmType
  <2> QED
    BY <1>10, <1>16, <2>1, <2>2, <2>3 DEF TrsmType
<1>19. /\ OnlyOf(t) /\ trsm_i'[t] = n + b /\ trsm_blk'[t] = x /\ trsm_kblk'[t] = k
       /\ trsm_range'[t] = r
       /\ slab.start = slab.end => trsm_pc'[t] = from
       /\ slab.start # slab.end =>
            /\ trsm_pc'[t] = to
            /\ trsm_ker'[t] = [j |-> slab.start, j_end |-> slab.end, r |-> 0]
  BY <1>1, <1>2, <1>8, <1>10, <1>16 DEF OnlyOf, TrsmType
<1>20. Last(t) /\ \A u \in Threads : trsm_calls[u] >= trsm_calls[t]
  BY <1>8, InFront
<1>21. Round(t)' = q /\ trsm_calls'[t] >= trsm_calls[t] /\ Together(t)'
  BY <1>6, <1>16, <1>19, <1>20, NoBarrier
<1>22. Counted(t)'
  <2>1. trsm_pc'[t] \in {from, to}
    BY <1>19
  <2>2. Round(t)' = Round(t)
    BY <1>6, <1>21
  <2> QED
    BY <1>8, <1>10, <1>16, <2>1, <2>2 DEF Counted
<1>23. LoopBase(t)' = base
  BY <1>1, <1>7, <1>8, <1>19 DEF LoopBase, Solving, Updating
<1>24. InLoop(t)'
  <2>1. n + b \in r.start .. r.end
    BY <1>9, <1>13, SMT
  <2> QED
    BY <1>8, <1>9, <1>16, <1>19, <2>1 DEF InLoop, Solving, Updating
<1>25. AtTile(t)'
  <2>1. CASE slab.start = slab.end
    BY <1>8, <1>19, <2>1 DEF AtTile, InKernel
  <2>2. CASE slab.start # slab.end
    <3>1. slab.start \in Indices(slab)
      BY <1>17, <2>2, SMT DEF Indices
    <3>2. x.len \in 1 .. (n + b) - r.start
      BY <1>9, <1>13, <1>15, SMT
    <3>3. base + n = base + ((n + b) - x.len)
      BY <1>13, <1>15, <1>14, SMT
    <3>4. 0 \in 0 .. x.len - 1
      BY <1>13, <1>15, <1>14, SMT
    <3>5. slab = IF to = "gemmtrsm" THEN SolveSlab(trsm_p, t) ELSE UpdateSlab(trsm_p, t)
      OBVIOUS
    <3>6. FirstPlace(trsm_p', trsm_blk'[t]) = LoopBase(t)' + (trsm_i'[t] - trsm_blk'[t].len)
      BY <1>15, <1>16, <1>19, <1>23, <3>3
    <3> QED
      BY <1>16, <1>19, <2>2, <3>1, <3>2, <3>4, <3>5, <3>6 DEF AtTile
  <2> QED
    BY <2>1, <2>2
<1>26. \A a \in Nat, j \in Indices(slab) : Passed(t, a, j)' <=> Passed(t, a, j)
  <2> SUFFICES ASSUME NEW a \in Nat, NEW j \in Indices(slab)
               PROVE  Passed(t, a, j)' <=> Passed(t, a, j)
    OBVIOUS
  <2>1. Passed(t, a, j) <=> a < base + n
    BY <1>3, <1>7, <1>8, DoneAt
  <2>2. slab.start # slab.end /\ j \in Nat /\ slab.start <= j
    BY <1>17, SMT DEF Indices
  <2>3. trsm_pc'[t] \in InKernel
    BY <1>8, <1>19, <2>2
  <2>4. Passed(t, a, j)' <=>
            KernelPassed(FirstPlace(trsm_p', trsm_blk'[t]), trsm_blk'[t], trsm_ker'[t], a, j)
    BY <2>3, DoneAtNext
  <2>5. /\ FirstPlace(trsm_p', trsm_blk'[t]) = base + n
        /\ trsm_ker'[t] = [j |-> slab.start, j_end |-> slab.end, r |-> 0]
    BY <1>15, <1>16, <1>19, <2>2
  <2>6. base \in Nat
    BY <1>8, <1>9, SMT
  <2>7. KernelPassed(base + n, trsm_blk'[t], [j |-> slab.start, j_end |-> slab.end, r |-> 0], a, j)
        <=> a < base + n
    <3>1. ~(j < slab.start) /\ base + n + 0 = base + n
      BY <1>14, <1>17, <2>2, <2>6, SMT
    <3> QED
      BY <3>1, Zenon DEF KernelPassed
  <2> QED
    BY <2>1, <2>4, <2>5, <2>7
<1>27. ~(q > q) /\ \A a \in SolvePlaces(k) : a \in Nat
  BY <1>9, SMT DEF SolvePlaces
<1>28. \A a \in UpdatePlaces(trsm_p, t, k) : a \in Nat
  BY <1>9, <1>10, UpdateShares
<1>29. trsm_pc'[t] \in {from, to}
  BY <1>19
<1>30. /\ \A a \in SolvePlaces(k), j \in Indices(SolveSlab(trsm_p, t)) :
            SolveDone(t, a, j, q)' <=> SolveDone(t, a, j, q)
       /\ \A a \in UpdatePlaces(trsm_p, t, k), j \in Indices(UpdateSlab(trsm_p, t)) :
            UpdateDone(t, a, j, q)' <=> UpdateDone(t, a, j, q)
  <2>1. CASE from = "solve"
    <3>1. /\ trsm_pc[t] \in Solving /\ trsm_pc'[t] \in Solving
          /\ slab = SolveSlab(trsm_p, t)
      BY <1>8, <1>29, <2>1
    <3>2. \A a, j : /\ SolveDone(t, a, j, q) <=> Passed(t, a, j)
                    /\ SolveDone(t, a, j, q)' <=> Passed(t, a, j)'
                    /\ UpdateDone(t, a, j, q) <=> FALSE
                    /\ UpdateDone(t, a, j, q)' <=> FALSE
      BY <1>6, <1>21, <1>27, <3>1, DoneAt, DoneAtNext
    <3> QED
      BY <1>26, <1>27, <3>1, <3>2
  <2>2. CASE from = "update"
    <3>1. /\ trsm_pc[t] \in Updating /\ trsm_pc'[t] \in Updating
          /\ slab = UpdateSlab(trsm_p, t)
      BY <1>8, <1>29, <2>2
    <3>2. \A a, j : /\ SolveDone(t, a, j, q) /\ SolveDone(t, a, j, q)'
                    /\ UpdateDone(t, a, j, q) <=> Passed(t, a, j)
                    /\ UpdateDone(t, a, j, q)' <=> Passed(t, a, j)'
      BY <1>6, <1>21, <1>27, <3>1, DoneAt, DoneAtNext
    <3> QED
      BY <1>26, <1>28, <3>1, <3>2
  <2> QED
    BY <1>8, <2>1, <2>2
<1>31. trsm_pc[t] # "pack"
  BY <1>8
<1>32. Round(t)' = Round(t)
  BY <1>6, <1>21
<1> QED
  BY <1>1, <1>6, <1>16, <1>18, <1>19, <1>20, <1>21, <1>22, <1>24, <1>25, <1>30, <1>31,
     <1>32, QuietSolveStep

LEMMA NextSolveStep ==
    ASSUME IrOnce, TrsmIInv, NEW t \in Threads, Solve!NextSolve(t)
    PROVE  TrsmIInv'
<1>1. trsm_p \in Solves
  BY DEF TrsmIInv, TrsmType
<1>2. PICK whole : whole = trsm_kblk[t]
  OBVIOUS
<1>3. PICK slab : slab = SolveSlab(trsm_p, t)
  OBVIOUS
<1>4. Solve!SolveSlab(t) = slab
  BY <1>1, <1>3, SlabNames
<1>5. Solve!NextBlock(t, "solve", whole, slab, "gemmtrsm")
  BY <1>2, <1>4 DEF Solve!NextSolve, Solve!NextBlock
<1> QED
  BY <1>2, <1>3, <1>5, BlockStep

LEMMA NextUpdateStep ==
    ASSUME IrOnce, TrsmIInv, NEW t \in Threads, Solve!NextUpdate(t)
    PROVE  TrsmIInv'
<1>1. trsm_p \in Solves
  BY DEF TrsmIInv, TrsmType
<1>2. PICK whole : whole = Solve!Ahead(t)
  OBVIOUS
<1>3. PICK slab : slab = UpdateSlab(trsm_p, t)
  OBVIOUS
<1>4. Solve!UpdateSlab(t) = slab
  BY <1>1, <1>3, SlabNames
<1>5. Solve!NextBlock(t, "update", whole, slab, "gemm")
  BY <1>2, <1>4 DEF Solve!NextUpdate, Solve!NextBlock
<1> QED
  BY <1>2, <1>3, <1>5, BlockStep

LEMMA EndSolveStep ==
    ASSUME IrOnce, TrsmIInv, NEW t \in Threads, Solve!EndSolve(t)
    PROVE  TrsmIInv'
<1>1. PICK k : k = trsm_kblk[t]
  OBVIOUS
<1>2. PICK q : q = Round(t)
  OBVIOUS
<1>3. /\ trsm_pc[t] = "solve" /\ trsm_i[t] >= trsm_range[t].end
      /\ trsm_calls' = [trsm_calls EXCEPT ![t] = @ + 1]
      /\ trsm_pc' = [trsm_pc EXCEPT ![t] = "solved"]
      /\ trsm_p' = trsm_p /\ trsm_c' = trsm_c /\ trsm_bp' = trsm_bp
      /\ trsm_kblk' = trsm_kblk /\ trsm_range' = trsm_range
      /\ trsm_i' = trsm_i /\ trsm_blk' = trsm_blk /\ trsm_ker' = trsm_ker
  BY DEF Solve!EndSolve, Solve!Goto
<1>4. TrsmType /\ Counted(t)
  BY DEF TrsmIInv
<1>5. /\ k \in [i : Nat, off : Nat, len : Nat]
      /\ trsm_range[t] = [start |-> 0, end |-> k.len] /\ trsm_i[t] \in 0 .. k.len
      /\ LoopBase(t) = k.i /\ q \in Nat
  BY <1>1, <1>2, <1>3, LoopFacts DEF Solving
<1>6. \A u \in Threads : trsm_calls[u] \in Nat
  BY <1>4 DEF TrsmType
<1>7. /\ OnlyOf(t) /\ trsm_pc'[t] = "solved"
      /\ trsm_calls'[t] = trsm_calls[t] + 1
      /\ \A u \in Threads : u # t => trsm_calls'[u] = trsm_calls[u]
  BY <1>3, <1>4 DEF OnlyOf, TrsmType
<1>8. trsm_calls[t] + 1 \in Nat
  BY <1>6, SMT
<1>9. TrsmType'
  BY <1>3, <1>4, <1>8 DEF TrsmType, TrsmPoints
<1>10. Last(t) /\ \A u \in Threads : trsm_calls[u] >= trsm_calls[t]
  BY <1>3, InFront
<1>11. trsm_calls[t] = 3 * q - 1 /\ q > 0
  BY <1>2, <1>3, <1>4 DEF Counted
<1>12. Round(t)' = q /\ trsm_calls'[t] = 3 * q
  <2>1. trsm_calls'[t] = 3 * q
    BY <1>5, <1>7, <1>11, SMT
  <2>2. 3 * q \in Nat /\ 3 * q - 2 <= 3 * q /\ 3 * q <= 3 * q
    BY <1>5, SMT
  <2>3. (3 * q + 2) \div 3 = q
    BY <1>5, <2>2, RoundNumber
  <2> QED
    BY <2>1, <2>3 DEF Round
<1>13. Counted(t)'
  BY <1>7, <1>11, <1>12 DEF Counted
<1>14. Together(t)' /\ trsm_calls'[t] >= trsm_calls[t]
  <2>1. \A u \in Threads : trsm_calls'[u] >= trsm_calls'[t] - 1
    BY <1>6, <1>7, <1>10, SMT
  <2> QED
    BY <1>6, <1>7, <2>1, SMT DEF Together
<1>15. InLoop(t)' /\ AtTile(t)'
  BY <1>7 DEF InLoop, AtTile, Solving, Updating, InKernel
<1>16. ~(q > q)
  BY <1>5, SMT
<1>17. \A a \in SolvePlaces(k), j \in Indices(SolveSlab(trsm_p, t)) :
            SolveDone(t, a, j, q)' <=> SolveDone(t, a, j, q)
  <2> SUFFICES ASSUME NEW a \in SolvePlaces(k), NEW j \in Indices(SolveSlab(trsm_p, t))
               PROVE  SolveDone(t, a, j, q)' <=> SolveDone(t, a, j, q)
    OBVIOUS
  <2>1. a < k.i + trsm_i[t]
    BY <1>3, <1>5, SMT DEF SolvePlaces
  <2>2. SolveDone(t, a, j, q)
    BY <1>3, <1>5, <2>1, DoneAt DEF Solving
  <2>3. SolveDone(t, a, j, q)'
    BY <1>7, DoneAtNext
  <2> QED
    BY <2>2, <2>3
<1>18. \A a \in UpdatePlaces(trsm_p, t, k), j \in Indices(UpdateSlab(trsm_p, t)) :
            UpdateDone(t, a, j, q)' <=> UpdateDone(t, a, j, q)
  BY <1>2, <1>3, <1>7, <1>12, <1>16, DoneAt, DoneAtNext DEF Solving
<1>19. trsm_pc[t] # "pack" /\ Round(t)' = Round(t)
  BY <1>2, <1>3, <1>12
<1> QED
  BY <1>1, <1>2, <1>3, <1>7, <1>9, <1>10, <1>13, <1>14, <1>15, <1>17, <1>18, <1>19,
     QuietSolveStep

LEMMA BeginUpdateStep ==
    ASSUME IrOnce, TrsmIInv, NEW t \in Threads, Solve!BeginUpdate(t)
    PROVE  TrsmIInv'
<1>1. PICK k : k = trsm_kblk[t]
  OBVIOUS
<1>2. PICK q : q = Round(t)
  OBVIOUS
<1>3. PICK r : r = UpdateRange(trsm_p, t, k)
  OBVIOUS
<1>4. TrsmType /\ Counted(t) /\ trsm_p \in Solves
  BY DEF TrsmIInv, TrsmType
<1>5. trsm_pc[t] = "solved" /\ Solve!Released(t)
  BY DEF Solve!BeginUpdate
<1>6. q > 0 /\ q \in Nat
  BY <1>2, <1>4, <1>5, Rounds DEF Counted
<1>7. /\ k \in [i : Nat, off : Nat, len : Nat] /\ k.i + k.len <= trsm_p.m
      /\ k = BlockAt(trsm_p, k.i, k.len)
  BY <1>1, <1>2, <1>6, KBlockFacts
<1>8. /\ r \in [start : Nat, end : Nat] /\ r.start <= r.end
      /\ \A a \in UpdatePlaces(trsm_p, t, k) : a \in Nat /\ a - (k.i + k.len) \in Indices(r)
  BY <1>3, <1>4, <1>7, UpdateShares DEF UpdatePlaces
<1>9. Solve!RangeSub(Solve!IcId(t), trsm_p.ic, Solve!Ahead(t).len, 1, trsm_p.backward) = r
  <2>1. Solve!Ahead(t).len = trsm_p.m - (k.i + k.len)
    BY <1>1, <1>4, <1>7, AheadPlaces
  <2>2. /\ Solve!IcId(t) = t \div trsm_p.jr
        /\ \A w, n_way, n, low :
                Solve!RangeSub(w, n_way, n, 1, low) = RangeSub(w, n_way, n, 1, low)
    BY <1>4, SlabNames
  <2> QED
    BY <1>3, <2>1, <2>2, Zenon DEF UpdateRange
<1>10. /\ trsm_range' = [trsm_range EXCEPT ![t] = r]
       /\ trsm_i' = [trsm_i EXCEPT ![t] = r.start]
       /\ trsm_pc' = [trsm_pc EXCEPT ![t] = "update"]
       /\ trsm_p' = trsm_p /\ trsm_c' = trsm_c /\ trsm_bp' = trsm_bp
       /\ trsm_calls' = trsm_calls /\ trsm_kblk' = trsm_kblk
       /\ trsm_blk' = trsm_blk /\ trsm_ker' = trsm_ker
  BY <1>9 DEF Solve!BeginUpdate, Solve!Goto
<1>11. TrsmType'
  BY <1>4, <1>8, <1>10 DEF TrsmType, TrsmPoints
<1>12. /\ OnlyOf(t) /\ trsm_pc'[t] = "update" /\ trsm_i'[t] = r.start
       /\ trsm_range'[t] = r /\ trsm_kblk'[t] = k
  BY <1>1, <1>4, <1>10 DEF OnlyOf, TrsmType
<1>13. Last(t) /\ \A u \in Threads : trsm_calls[u] >= trsm_calls[t]
  BY <1>5, InFront
<1>14. Round(t)' = Round(t) /\ trsm_calls'[t] >= trsm_calls[t] /\ Together(t)'
  BY <1>10, <1>12, <1>13, NoBarrier
<1>15. Counted(t)'
  BY <1>4, <1>5, <1>10, <1>12, <1>14 DEF Counted
<1>16. InLoop(t)' /\ AtTile(t)'
  <2>1. r.start \in r.start .. r.end
    BY <1>8, SMT
  <2> QED
    BY <1>3, <1>10, <1>12, <2>1 DEF InLoop, AtTile, Solving, Updating, InKernel
<1>17. ~(q > q)
  BY <1>6, SMT
<1>18. \A a \in SolvePlaces(k), j \in Indices(SolveSlab(trsm_p, t)) :
            SolveDone(t, a, j, q)' <=> SolveDone(t, a, j, q)
  BY <1>5, <1>12, DoneAt, DoneAtNext DEF Updating
<1>19. \A a \in UpdatePlaces(trsm_p, t, k), j \in Indices(UpdateSlab(trsm_p, t)) :
            UpdateDone(t, a, j, q)' <=> UpdateDone(t, a, j, q)
  <2> SUFFICES ASSUME NEW a \in UpdatePlaces(trsm_p, t, k), NEW j
               PROVE  UpdateDone(t, a, j, q)' <=> UpdateDone(t, a, j, q)
    OBVIOUS
  <2>1. UpdateDone(t, a, j, q) <=> FALSE
    BY <1>2, <1>5, <1>17, DoneAt
  <2>2. LoopBase(t)' = k.i + k.len
    BY <1>12, DoneAtNext DEF Updating
  <2>3. ~(a < (k.i + k.len) + r.start)
    BY <1>7, <1>8, SMT DEF Indices
  <2>4. UpdateDone(t, a, j, q)' <=> FALSE
    <3>1. UpdateDone(t, a, j, q)' <=> (Round(t)' > q \/ Passed(t, a, j)')
      BY <1>12, DoneAtNext DEF Updating
    <3>2. Passed(t, a, j)' <=> a < LoopBase(t)' + trsm_i'[t]
      BY <1>12, DoneAtNext
    <3> QED
      BY <1>2, <1>12, <1>14, <1>17, <2>2, <2>3, <3>1, <3>2
  <2> QED
    BY <2>1, <2>4
<1>20. trsm_pc[t] # "pack"
  BY <1>5
<1> QED
  BY <1>1, <1>2, <1>10, <1>11, <1>12, <1>13, <1>14, <1>15, <1>16, <1>18, <1>19, <1>20,
     QuietSolveStep

LEMMA EndUpdateStep ==
    ASSUME IrOnce, TrsmIInv, NEW t \in Threads, Solve!EndUpdate(t)
    PROVE  TrsmIInv'
<1>1. PICK k : k = trsm_kblk[t]
  OBVIOUS
<1>2. PICK q : q = Round(t)
  OBVIOUS
<1>3. /\ trsm_pc[t] = "update" /\ trsm_i[t] >= trsm_range[t].end
      /\ trsm_pc' = [trsm_pc EXCEPT ![t] = "var3"]
      /\ trsm_p' = trsm_p /\ trsm_c' = trsm_c /\ trsm_bp' = trsm_bp
      /\ trsm_calls' = trsm_calls /\ trsm_kblk' = trsm_kblk /\ trsm_range' = trsm_range
      /\ trsm_i' = trsm_i /\ trsm_blk' = trsm_blk /\ trsm_ker' = trsm_ker
  BY DEF Solve!EndUpdate, Solve!Goto
<1>4. TrsmType /\ Counted(t) /\ trsm_p \in Solves
  BY DEF TrsmIInv, TrsmType
<1>5. /\ k \in [i : Nat, off : Nat, len : Nat] /\ k.i + k.len <= trsm_p.m
      /\ trsm_range[t] = UpdateRange(trsm_p, t, k) /\ trsm_range[t] \in [start : Nat, end : Nat]
      /\ trsm_i[t] \in trsm_range[t].start .. trsm_range[t].end
      /\ LoopBase(t) = k.i + k.len /\ q \in Nat
  BY <1>1, <1>2, <1>3, LoopFacts DEF Updating
<1>6. TrsmType'
  BY <1>3, <1>4 DEF TrsmType, TrsmPoints
<1>7. OnlyOf(t) /\ trsm_pc'[t] = "var3"
  BY <1>3, <1>4 DEF OnlyOf, TrsmType
<1>8. Last(t) /\ \A u \in Threads : trsm_calls[u] >= trsm_calls[t]
  BY <1>3, InFront
<1>9. Round(t)' = Round(t) /\ trsm_calls'[t] >= trsm_calls[t] /\ Together(t)'
  BY <1>3, <1>7, <1>8, NoBarrier
<1>10. Counted(t)'
  BY <1>3, <1>4, <1>7, <1>9 DEF Counted
<1>11. InLoop(t)' /\ AtTile(t)'
  BY <1>7 DEF InLoop, AtTile, Solving, Updating, InKernel
<1>12. \A a \in SolvePlaces(k), j \in Indices(SolveSlab(trsm_p, t)) :
            SolveDone(t, a, j, q)' <=> SolveDone(t, a, j, q)
  BY <1>3, <1>7, DoneAt, DoneAtNext DEF Updating
<1>13. \A a \in UpdatePlaces(trsm_p, t, k), j \in Indices(UpdateSlab(trsm_p, t)) :
            UpdateDone(t, a, j, q)' <=> UpdateDone(t, a, j, q)
  <2> SUFFICES ASSUME NEW a \in UpdatePlaces(trsm_p, t, k), NEW j
               PROVE  UpdateDone(t, a, j, q)' <=> UpdateDone(t, a, j, q)
    OBVIOUS
  <2>1. a \in Nat /\ a - (k.i + k.len) \in Indices(trsm_range[t])
    BY <1>4, <1>5, UpdateShares DEF UpdatePlaces
  <2>2. a < (k.i + k.len) + trsm_i[t]
    BY <1>3, <1>5, <2>1, SMT DEF Indices
  <2>3. UpdateDone(t, a, j, q)
    BY <1>3, <1>5, <2>2, DoneAt DEF Updating
  <2>4. UpdateDone(t, a, j, q)'
    BY <1>7, DoneAtNext
  <2> QED
    BY <2>3, <2>4
<1>14. trsm_pc[t] # "pack"
  BY <1>3
<1> QED
  BY <1>1, <1>2, <1>3, <1>6, <1>7, <1>8, <1>9, <1>10, <1>11, <1>12, <1>13, <1>14,
     QuietSolveStep

-----------------------------------------------------------------------------
\* The next block of A's columns

\* Every element behind the block, and of it when it has been solved
LEMMA BehindIsSolved ==
    ASSUME IrOnce, trsm_p \in Solves, NEW k \in [i : Nat, off : Nat, len : Nat],
           NEW q, ElementsAre(k, q),
           \A v \in Threads : \A a, j : SolveDone(v, a, j, q)
    PROVE  \A a \in 0 .. k.i + k.len - 1, j \in 0 .. trsm_p.n - 1 :
                trsm_c[At(trsm_p, a, j)] = Solved(trsm_p, a)
<1> SUFFICES ASSUME NEW a \in 0 .. k.i + k.len - 1, NEW j \in 0 .. trsm_p.n - 1
             PROVE  trsm_c[At(trsm_p, a, j)] = Solved(trsm_p, a)
  OBVIOUS
<1>1. CASE a < k.i
  <2>1. a \in 0 .. k.i - 1
    BY <1>1, SMT
  <2> QED
    BY <2>1 DEF ElementsAre
<1>2. CASE ~(a < k.i)
  <2>1. a \in SolvePlaces(k)
    BY <1>2, SMT DEF SolvePlaces
  <2>2. PICK v \in Threads : j \in Indices(SolveSlab(trsm_p, v))
    BY SolveShares
  <2> QED
    BY <2>1, <2>2 DEF ElementsAre
<1> QED
  BY <1>1, <1>2

\* Every element ahead of the block, when it has been updated
LEMMA AheadIsUpdated ==
    ASSUME IrOnce, trsm_p \in Solves, NEW k \in [i : Nat, off : Nat, len : Nat],
           k.i + k.len <= trsm_p.m, NEW q, ElementsAre(k, q),
           \A v \in Threads : \A a, j : UpdateDone(v, a, j, q)
    PROVE  \A a \in k.i + k.len .. trsm_p.m - 1, j \in 0 .. trsm_p.n - 1 :
                trsm_c[At(trsm_p, a, j)] = Partial(trsm_p, a, k.i + k.len)
<1> SUFFICES ASSUME NEW a \in k.i + k.len .. trsm_p.m - 1, NEW j \in 0 .. trsm_p.n - 1
             PROVE  trsm_c[At(trsm_p, a, j)] = Partial(trsm_p, a, k.i + k.len)
  OBVIOUS
<1>1. PICK v \in Threads :
        a \in UpdatePlaces(trsm_p, v, k) /\ j \in Indices(UpdateSlab(trsm_p, v))
  BY UpdateShares
<1> QED
  BY <1>1 DEF ElementsAre

LEMMA NextKBlockStep ==
    ASSUME IrOnce, TrsmIInv, NEW t \in Threads, Solve!NextKBlock(t)
    PROVE  TrsmIInv'
<1>1. PICK k : k = trsm_kblk[t]
  OBVIOUS
<1>2. PICK q : q = Round(t)
  OBVIOUS
<1>3. PICK at : at = k.i + k.len
  OBVIOUS
<1>4. PICK b : b = DetermineBlocksize(trsm_p.backward, trsm_p.m - at, trsm_p.kc, trsm_p.kc)
  OBVIOUS
<1>5. PICK k2 : k2 = NextK(trsm_p, k)
  OBVIOUS
<1>6. TrsmType /\ trsm_p \in Solves /\ SameBlocks
  BY DEF TrsmIInv, TrsmType
<1>7. /\ trsm_p.m \in Nat \ {0} /\ trsm_p.kc \in Nat \ {0} /\ trsm_p.backward \in BOOLEAN
  BY <1>6, TrsmParameters
<1>8. k \in [i : Nat, off : Nat, len : Nat] /\ at \in Nat /\ q \in Nat
  <2>1. k \in [i : Nat, off : Nat, len : Nat] /\ q \in Nat
    BY <1>1, <1>2, KBlockFacts
  <2> QED
    BY <1>3, <2>1, SMT
<1>9. trsm_pc[t] = "var3" /\ at < trsm_p.m
  BY <1>1, <1>3 DEF Solve!NextKBlock
<1>10. /\ Solve!DetermineBlocksize(trsm_p.backward, trsm_p.m - at, trsm_p.kc, trsm_p.kc) = b
       /\ b \in 1 .. trsm_p.m - at /\ b <= trsm_p.kc
  <2>1. trsm_p.m - at \in Nat \ {0}
    BY <1>7, <1>8, <1>9, SMT
  <2> QED
    BY <1>4, <1>7, <2>1, NextBlockFits
<1>11. k2 = BlockAt(trsm_p, at, b) /\ k2.i = at /\ k2.len = b
  BY <1>3, <1>4, <1>5 DEF NextK, BlockAt
<1>12. k2 \in [i : Nat, off : Nat, len : Nat] /\ k2.len \in 1 .. trsm_p.kc
       /\ k2.i + k2.len <= trsm_p.m /\ k2 = BlockAt(trsm_p, k2.i, k2.len)
  <2>1. (IF trsm_p.backward THEN trsm_p.m - at - b ELSE at) \in Nat /\ b \in Nat
    BY <1>7, <1>8, <1>10, SMT
  <2>2. b \in 1 .. trsm_p.kc /\ at + b <= trsm_p.m
    BY <1>7, <1>8, <1>10, SMT
  <2> QED
    BY <1>8, <1>11, <2>1, <2>2 DEF BlockAt
<1>13. LET x == Solve!MPart([off |-> 0, len |-> trsm_p.m], at, b)
       IN  [i |-> at, off |-> x.off, len |-> x.len] = k2
  <2>1. (IF b > trsm_p.m - at THEN trsm_p.m - at ELSE b) = b
    BY <1>7, <1>8, <1>10, SMT
  <2>2. Solve!MPart([off |-> 0, len |-> trsm_p.m], at, b)
            = [off |-> 0 + (IF trsm_p.backward THEN trsm_p.m - at - b ELSE at), len |-> b]
    BY <2>1 DEF Solve!MPart
  <2>3. 0 + (IF trsm_p.backward THEN trsm_p.m - at - b ELSE at)
            = IF trsm_p.backward THEN trsm_p.m - at - b ELSE at
    BY <1>7, <1>8, <1>10, SMT
  <2> QED
    BY <1>11, <2>2, <2>3 DEF BlockAt
<1>14. /\ trsm_kblk' = [trsm_kblk EXCEPT ![t] = k2]
       /\ trsm_calls' = [trsm_calls EXCEPT ![t] = @ + 1]
       /\ trsm_pc' = [trsm_pc EXCEPT ![t] = "pack"]
       /\ trsm_p' = trsm_p /\ trsm_c' = trsm_c /\ trsm_bp' = trsm_bp
       /\ trsm_range' = trsm_range /\ trsm_i' = trsm_i /\ trsm_blk' = trsm_blk
       /\ trsm_ker' = trsm_ker
  BY <1>1, <1>3, <1>10, <1>13 DEF Solve!NextKBlock, Solve!Goto
<1>15. \A u \in Threads : trsm_calls[u] \in Nat
  BY <1>6 DEF TrsmType
<1>16. TrsmType'
  <2>1. trsm_calls[t] + 1 \in Nat
    BY <1>15, SMT
  <2> QED
    BY <1>6, <1>12, <1>14, <2>1 DEF TrsmType, TrsmPoints
<1>17. /\ trsm_pc'[t] = "pack" /\ trsm_kblk'[t] = k2 /\ trsm_calls'[t] = trsm_calls[t] + 1
       /\ \A v \in Threads : v # t =>
            /\ trsm_pc'[v] = trsm_pc[v] /\ trsm_calls'[v] = trsm_calls[v]
            /\ trsm_kblk'[v] = trsm_kblk[v]
            /\ trsm_range'[v] = trsm_range[v] /\ trsm_i'[v] = trsm_i[v]
            /\ trsm_blk'[v] = trsm_blk[v] /\ trsm_ker'[v] = trsm_ker[v]
  BY <1>6, <1>14 DEF TrsmType
<1>18. Last(t) /\ \A u \in Threads : trsm_calls[u] >= trsm_calls[t]
  BY <1>9, InFront
<1>19. trsm_calls[t] = 3 * q
  BY <1>2, <1>9 DEF TrsmIInv, Counted
<1>20. Round(t)' = q + 1 /\ trsm_calls'[t] = 3 * q + 1
  <2>1. trsm_calls'[t] = 3 * q + 1
    BY <1>17, <1>19
  <2>2. /\ 3 * q + 1 \in Nat /\ q + 1 \in Nat
        /\ 3 * (q + 1) - 2 <= 3 * q + 1 /\ 3 * q + 1 <= 3 * (q + 1)
    BY <1>8, SMT
  <2>3. (3 * q + 1 + 2) \div 3 = q + 1
    BY <2>2, RoundNumber
  <2> QED
    BY <2>1, <2>3 DEF Round
<1>21. \A v \in Threads : v # t =>
        /\ Round(v)' = Round(v) /\ Counted(v)' /\ BlockOfRound(v)'
        /\ InLoop(v)' /\ AtTile(v)'
        /\ \A a, j : /\ SolveDone(v, a, j, q)' <=> SolveDone(v, a, j, q)
                     /\ UpdateDone(v, a, j, q)' <=> UpdateDone(v, a, j, q)
  BY <1>14, <1>17, OthersStay DEF TrsmIInv
<1>22. ASSUME NEW v \in Threads
       PROVE  /\ Round(v) \in Nat
              /\ \/ Round(v) = q
                 \/ Round(v) = q + 1 /\ trsm_pc[v] = "pack"
  <2>1. /\ Round(v) \in Nat /\ 3 * Round(v) - 2 <= trsm_calls[v] /\ trsm_calls[v] \in Nat
        /\ trsm_calls[v] <= 3 * Round(v)
    BY <1>6, Rounds
  <2>2. trsm_calls[t] >= trsm_calls[v] - 1 /\ Counted(v)
    BY DEF TrsmIInv, Together
  <2>3. q <= Round(v)
    BY <1>2, <1>18 DEF Last
  <2>4. Round(v) = q \/ Round(v) = q + 1
    BY <1>8, <1>19, <2>1, <2>2, <2>3, SMT
  <2>5. ASSUME Round(v) = q + 1, trsm_pc[v] # "pack" PROVE FALSE
    <3>1. trsm_calls[v] >= 3 * (q + 1) - 1
      <4>1. trsm_pc[v] \in TrsmPoints
        BY <1>6 DEF TrsmType
      <4>2. trsm_calls[v] = 3 * (q + 1) - 1 \/ trsm_calls[v] = 3 * (q + 1)
        BY <2>2, <2>5, <4>1 DEF Counted, TrsmPoints
      <4> QED
        BY <1>8, <4>2, SMT
    <3> QED
      BY <1>8, <1>19, <2>1, <2>2, <3>1, SMT
  <2> QED
    BY <2>1, <2>4, <2>5
<1>23. Counted(t)' /\ InLoop(t)' /\ AtTile(t)' /\ BlockOfRound(t)'
  <2>1. q + 1 > 0 /\ 3 * q + 1 = 3 * (q + 1) - 2 /\ q + 1 # 0
    BY <1>8, SMT
  <2>2. Counted(t)'
    BY <1>17, <1>20, <2>1 DEF Counted
  <2>3. InLoop(t)' /\ AtTile(t)'
    BY <1>17 DEF InLoop, AtTile, Solving, Updating, InKernel
  <2>4. BlockOfRound(t)'
    BY <1>12, <1>14, <1>17, <1>20, <2>1 DEF BlockOfRound
  <2> QED
    BY <2>2, <2>3, <2>4
<1>24. \A v \in Threads : Together(v)'
  <2> SUFFICES ASSUME NEW v \in Threads, NEW u \in Threads
               PROVE  /\ trsm_calls'[u] >= trsm_calls'[v] - 1
                      /\ trsm_pc'[v] \notin {"pack", "packed", "solved"} =>
                            trsm_calls'[u] >= trsm_calls'[v]
    BY DEF Together
  <2>1. /\ trsm_calls[u] >= trsm_calls[v] - 1
        /\ trsm_pc[v] \notin {"pack", "packed", "solved"} => trsm_calls[u] >= trsm_calls[v]
    BY DEF TrsmIInv, Together
  <2>2. trsm_calls'[u] \in Nat /\ trsm_calls'[u] >= trsm_calls[u]
    BY <1>15, <1>17, SMT
  <2>3. CASE v = t
    BY <1>15, <1>17, <1>18, <2>2, <2>3, SMT
  <2>4. CASE v # t
    BY <1>15, <1>17, <2>1, <2>2, <2>4, SMT
  <2> QED
    BY <2>3, <2>4
<1>25. SameBlocks'
  <2> SUFFICES ASSUME NEW v \in Threads, NEW u \in Threads
               PROVE  /\ Round(u)' = Round(v)' => trsm_kblk'[u] = trsm_kblk'[v]
                      /\ Round(u)' = Round(v)' + 1 =>
                            trsm_kblk'[u] = NextK(trsm_p', trsm_kblk'[v])
    BY DEF SameBlocks
  <2>1. /\ Round(u) = Round(v) => trsm_kblk[u] = trsm_kblk[v]
        /\ Round(u) = Round(v) + 1 => trsm_kblk[u] = NextK(trsm_p, trsm_kblk[v])
        /\ Round(v) = q => trsm_kblk[v] = k
        /\ Round(v) = q + 1 => trsm_kblk[v] = k2
        /\ Round(u) = q + 1 => trsm_kblk[u] = k2
    BY <1>1, <1>2, <1>5, <1>6 DEF SameBlocks
  <2>2. Round(u) \in {q, q + 1} /\ Round(v) \in {q, q + 1}
    BY <1>22
  <2>3. CASE v = t /\ u = t
    <3>1. Round(t)' # Round(t)' + 1
      BY <1>8, <1>20, SMT
    <3> QED
      BY <2>3, <3>1
  <2>4. CASE v = t /\ u # t
    <3>1. Round(u)' # Round(t)' + 1
      BY <1>8, <1>20, <1>21, <2>2, <2>4, SMT
    <3> QED
      BY <1>17, <1>20, <1>21, <2>1, <2>4, <3>1
  <2>5. CASE v # t /\ u = t
    <3>1. q + 1 = Round(v) + 1 => Round(v) = q
      BY <1>8, <2>2, SMT
    <3> QED
      BY <1>5, <1>14, <1>17, <1>20, <1>21, <2>1, <2>5, <3>1
  <2>6. CASE v # t /\ u # t
    BY <1>14, <1>17, <1>21, <2>1, <2>6
  <2> QED
    BY <2>3, <2>4, <2>5, <2>6
<1>26. ElementsAre(k, q) /\ PackedAre(k, q)
  BY <1>1, <1>2, <1>18 DEF TrsmIInv
<1>27. q + 1 > q /\ ~(q > q) /\ ~(q + 1 > q + 1)
  BY <1>8, SMT
<1>28. \A a, j : /\ SolveDone(t, a, j, q) /\ UpdateDone(t, a, j, q)
                 /\ SolveDone(t, a, j, q)' /\ UpdateDone(t, a, j, q)'
  <2>1. \A a, j : SolveDone(t, a, j, q) /\ UpdateDone(t, a, j, q)
    BY <1>9, DoneAt
  <2>2. \A a, j : SolveDone(t, a, j, q)' /\ UpdateDone(t, a, j, q)'
    BY <1>17, <1>20, <1>27, DoneAtNext
  <2> QED
    BY <2>1, <2>2
<1>29. ElementsAre(k, q)' /\ PackedAre(k, q)'
  <2>1. \A v \in Threads : \A a, j :
            /\ SolveDone(v, a, j, q)' <=> SolveDone(v, a, j, q)
            /\ UpdateDone(v, a, j, q)' <=> UpdateDone(v, a, j, q)
    BY <1>21, <1>28
  <2>2. ElementsAre(k, q)'
    BY <1>14, <1>26, <2>1 DEF ElementsAre
  <2>3. \A v \in Threads : Round(v)' > q \/ trsm_pc'[v] # "pack" =>
                           Round(v) > q \/ trsm_pc[v] # "pack"
    BY <1>9, <1>17, <1>21
  <2>4. PackedAre(k, q)'
    BY <1>14, <1>26, <2>1, <2>3 DEF PackedAre
  <2> QED
    BY <2>2, <2>4
<1>30. ASSUME \A v \in Threads : Round(v)' = q + 1 /\ trsm_pc'[v] = "pack"
       PROVE  ElementsAre(k2, q + 1)' /\ PackedAre(k2, q + 1)'
  <2>1. \A v \in Threads : \A a, j : SolveDone(v, a, j, q) /\ UpdateDone(v, a, j, q)
    <3> SUFFICES ASSUME NEW v \in Threads, v # t
                 PROVE  \A a, j : SolveDone(v, a, j, q) /\ UpdateDone(v, a, j, q)
      BY <1>28
    <3>1. Round(v) = q + 1
      BY <1>21, <1>30
    <3> QED
      BY <1>27, <3>1 DEF SolveDone, UpdateDone
  <2>2. \A a \in 0 .. at - 1, j \in 0 .. trsm_p.n - 1 :
            trsm_c[At(trsm_p, a, j)] = Solved(trsm_p, a)
    BY <1>3, <1>6, <1>8, <1>26, <2>1, BehindIsSolved
  <2>3. \A a \in at .. trsm_p.m - 1, j \in 0 .. trsm_p.n - 1 :
            trsm_c[At(trsm_p, a, j)] = Partial(trsm_p, a, at)
    <3>1. k.i + k.len <= trsm_p.m
      BY <1>1, KBlockFacts
    <3> QED
      BY <1>3, <1>6, <1>8, <1>26, <2>1, <3>1, AheadIsUpdated
  <2>4. \A v \in Threads : \A a, j : /\ SolveDone(v, a, j, q + 1)' <=> FALSE
                                     /\ UpdateDone(v, a, j, q + 1)' <=> FALSE
    BY <1>27, <1>30, DoneAtNext
  <2>5. \A v \in Threads : /\ Indices(SolveSlab(trsm_p, v)) \subseteq 0 .. trsm_p.n - 1
                           /\ Indices(UpdateSlab(trsm_p, v)) \subseteq 0 .. trsm_p.n - 1
    BY <1>6, <1>12, SolveShares, UpdateShares
  <2>6. \A a \in SolvePlaces(k2) : a \in at .. trsm_p.m - 1
    BY <1>7, <1>8, <1>11, <1>12, SMT DEF SolvePlaces
  <2>7. ASSUME NEW v \in Threads, NEW a \in UpdatePlaces(trsm_p, v, k2)
        PROVE  a \in at .. trsm_p.m - 1
    <3>1. a \in Nat /\ k2.i + k2.len <= a /\ a < trsm_p.m
      BY <1>6, <1>12, UpdateShares
    <3> QED
      BY <1>7, <1>8, <1>11, <1>12, <3>1, SMT
  <2>8. ElementsAre(k2, q + 1)'
    BY <1>11, <1>14, <2>2, <2>3, <2>4, <2>5, <2>6, <2>7 DEF ElementsAre
  <2>9. PackedAre(k2, q + 1)'
    BY <1>27, <1>30 DEF PackedAre
  <2> QED
    BY <2>8, <2>9
<1>31. ASSUME NEW u \in Threads, Last(u)'
       PROVE  ElementsAre(trsm_kblk[u], Round(u))' /\ PackedAre(trsm_kblk[u], Round(u))'
  <2>1. Round(u)' = q \/ Round(u)' = q + 1
    BY <1>20, <1>21, <1>22
  <2>2. CASE Round(u)' = q
    <3>1. u # t
      BY <1>8, <1>20, <2>2, SMT
    <3>2. trsm_kblk'[u] = k
      BY <1>1, <1>2, <1>6, <1>17, <1>21, <2>2, <3>1 DEF SameBlocks
    <3> QED
      BY <1>29, <2>2, <3>2
  <2>3. CASE Round(u)' = q + 1
    <3>1. trsm_kblk'[u] = k2
      BY <1>1, <1>2, <1>5, <1>6, <1>17, <1>21, <2>3 DEF SameBlocks
    <3>2. \A v \in Threads : Round(v)' = q + 1 /\ trsm_pc'[v] = "pack"
      <4> SUFFICES ASSUME NEW v \in Threads, v # t
                   PROVE  Round(v)' = q + 1 /\ trsm_pc'[v] = "pack"
        BY <1>17, <1>20
      <4>1. Round(u)' <= Round(v)'
        BY <1>31 DEF Last
      <4>2. Round(v) # q
        BY <1>8, <1>21, <2>3, <4>1, SMT
      <4> QED
        BY <1>17, <1>21, <1>22, <4>2
    <3>3. ElementsAre(k2, q + 1)' /\ PackedAre(k2, q + 1)'
      BY <1>30, <3>2
    <3> QED
      BY <2>3, <3>1, <3>3
  <2> QED
    BY <2>1, <2>2, <2>3
<1> QED
  BY <1>16, <1>21, <1>23, <1>24, <1>25, <1>31 DEF TrsmIInv

-----------------------------------------------------------------------------
\* Steps that write to B or its packed rows

LEMMA PackStep ==
    ASSUME IrOnce, TrsmIInv, NEW t \in Threads, Solve!Pack(t)
    PROVE  TrsmIInv'
<1>1. PICK k : k = trsm_kblk[t]
  OBVIOUS
<1>2. PICK q : q = Round(t)
  OBVIOUS
<1>3. PICK slab : slab = SolveSlab(trsm_p, t)
  OBVIOUS
<1>4. TrsmType /\ trsm_p \in Solves /\ Counted(t)
  BY DEF TrsmIInv, TrsmType
<1>5. /\ trsm_pc[t] = "pack" /\ Solve!Released(t)
      /\ trsm_bp' = [x \in DOMAIN trsm_bp |->
                        IF x[2] \in Indices(slab)
                          THEN IF x[1] < k.len THEN trsm_c[<<k.off + x[1], x[2]>>]
                               ELSE Solve!Garbled
                          ELSE trsm_bp[x]]
      /\ trsm_calls' = [trsm_calls EXCEPT ![t] = @ + 1]
      /\ trsm_pc' = [trsm_pc EXCEPT ![t] = "packed"]
      /\ trsm_p' = trsm_p /\ trsm_c' = trsm_c /\ trsm_kblk' = trsm_kblk
      /\ trsm_range' = trsm_range /\ trsm_i' = trsm_i /\ trsm_blk' = trsm_blk
      /\ trsm_ker' = trsm_ker
  <2>1. Solve!RangeSub(t, NT, trsm_p.n, 1, FALSE) = slab
    BY <1>3, <1>4, SlabNames
  <2> QED
    BY <1>1, <2>1 DEF Solve!Pack, Solve!Goto, Indices
<1>6. Last(t) /\ \A u \in Threads : trsm_calls[u] >= trsm_calls[t]
  BY <1>5, InFront
<1>7. q > 0 /\ q \in Nat /\ trsm_calls[t] = 3 * q - 2
  BY <1>2, <1>4, <1>5, Rounds DEF Counted
<1>8. /\ k \in [i : Nat, off : Nat, len : Nat] /\ k.i + k.len <= trsm_p.m
      /\ k.len \in 1 .. trsm_p.kc /\ k = BlockAt(trsm_p, k.i, k.len)
  BY <1>1, <1>2, <1>7, KBlockFacts
<1>9. \A u \in Threads : trsm_calls[u] \in Nat
  BY <1>4 DEF TrsmType
<1>10. /\ OnlyOf(t) /\ trsm_pc'[t] = "packed" /\ trsm_calls'[t] = trsm_calls[t] + 1
       /\ \A u \in Threads : u # t => trsm_calls'[u] = trsm_calls[u]
  BY <1>4, <1>5 DEF OnlyOf, TrsmType
<1>11. TrsmType'
  <2>1. trsm_calls[t] + 1 \in Nat
    BY <1>9, SMT
  <2> QED
    BY <1>4, <1>5, <2>1 DEF TrsmType, TrsmPoints
<1>12. trsm_calls'[t] = 3 * q - 1 /\ Round(t)' = q
  <2>1. trsm_calls'[t] = 3 * q - 1
    BY <1>7, <1>10, SMT
  <2>2. 3 * q - 1 \in Nat /\ 3 * q - 2 <= 3 * q - 1 /\ 3 * q - 1 <= 3 * q
    BY <1>7, SMT
  <2>3. (3 * q - 1 + 2) \div 3 = q
    BY <1>7, <2>2, RoundNumber
  <2> QED
    BY <2>1, <2>3 DEF Round
<1>13. Counted(t)'
  BY <1>7, <1>10, <1>12 DEF Counted
<1>14. Together(t)' /\ trsm_calls'[t] >= trsm_calls[t]
  <2>1. \A u \in Threads : trsm_calls'[u] >= trsm_calls'[t] - 1
    BY <1>6, <1>9, <1>10, SMT
  <2> QED
    BY <1>9, <1>10, <2>1, SMT DEF Together
<1>15. InLoop(t)' /\ AtTile(t)'
  BY <1>10 DEF InLoop, AtTile, Solving, Updating, InKernel
<1>16. ElementsAre(k, q) /\ PackedAre(k, q)
  BY <1>1, <1>2, <1>6 DEF TrsmIInv
<1>17. \A a, j : /\ SolveDone(t, a, j, q) <=> FALSE
                 /\ UpdateDone(t, a, j, q) <=> FALSE
                 /\ SolveDone(t, a, j, q)' <=> FALSE
                 /\ UpdateDone(t, a, j, q)' <=> FALSE
  <2>1. ~(q > q)
    BY <1>7, SMT
  <2>2. \A a, j : /\ SolveDone(t, a, j, q) <=> FALSE
                  /\ UpdateDone(t, a, j, q) <=> FALSE
    BY <1>2, <1>5, <2>1, DoneAt
  <2>3. \A a, j : /\ SolveDone(t, a, j, q)' <=> FALSE
                  /\ UpdateDone(t, a, j, q)' <=> FALSE
    BY <1>10, <1>12, <2>1, DoneAtNext
  <2> QED
    BY <2>2, <2>3
<1>18. \A v \in Threads : v # t =>
        /\ Round(v)' = Round(v) /\ trsm_pc'[v] = trsm_pc[v]
        /\ \A a, j : /\ SolveDone(v, a, j, q)' <=> SolveDone(v, a, j, q)
                     /\ UpdateDone(v, a, j, q)' <=> UpdateDone(v, a, j, q)
  BY <1>10, OthersStay DEF OnlyOf
<1>19. ElementsAre(k, q)'
  <2>1. \A v \in Threads : \A a, j :
            /\ SolveDone(v, a, j, q)' <=> SolveDone(v, a, j, q)
            /\ UpdateDone(v, a, j, q)' <=> UpdateDone(v, a, j, q)
    BY <1>17, <1>18
  <2> QED
    BY <1>5, <1>16, <2>1 DEF ElementsAre
<1>20. ASSUME NEW v \in Threads, NEW a \in SolvePlaces(k),
              NEW j \in Indices(SolveSlab(trsm_p, v)),
              Round(v)' > q \/ trsm_pc'[v] # "pack"
       PROVE  trsm_bp'[PackedAt(trsm_p, k, a, j)] =
                IF SolveDone(v, a, j, q)' THEN Solved(trsm_p, a)
                ELSE Partial(trsm_p, a, k.i)
  <2> DEFINE x == PackedAt(trsm_p, k, a, j)
  <2>1. /\ a \in 0 .. trsm_p.m - 1 /\ Flip(trsm_p, a) - k.off \in 0 .. k.len - 1
        /\ Flip(trsm_p, a) \in 0 .. trsm_p.m - 1
    BY <1>4, <1>8, BlockPlaces, Flips
  <2>2. j \in 0 .. trsm_p.n - 1
    BY <1>4, SolveShares
  <2>3. x[1] = Flip(trsm_p, a) - k.off /\ x[2] = j /\ x = <<Flip(trsm_p, a) - k.off, j>>
    BY DEF PackedAt
  <2>4. x \in DOMAIN trsm_bp
    <3>1. Flip(trsm_p, a) - k.off \in 0 .. trsm_p.kc - 1
      <4>1. trsm_p.kc \in Nat
        BY <1>4, TrsmParameters
      <4> QED
        BY <1>8, <2>1, <4>1, SMT
    <3> QED
      BY <1>4, <2>2, <2>3, <3>1 DEF TrsmType
  <2> HIDE DEF x
  <2>5. CASE v = t
    <3>1. j \in Indices(slab)
      BY <1>3, <2>5
    <3>2. /\ Flip(trsm_p, a) - k.off < k.len
          /\ k.off + (Flip(trsm_p, a) - k.off) = Flip(trsm_p, a)
      <4>1. trsm_p.m \in Nat
        BY <1>4, TrsmParameters
      <4> QED
        BY <1>8, <2>1, <4>1, SMT
    <3>3. trsm_bp'[x] = trsm_c[At(trsm_p, a, j)]
      BY <1>5, <2>3, <2>4, <3>1, <3>2 DEF At
    <3>4. trsm_c[At(trsm_p, a, j)] = Partial(trsm_p, a, k.i)
      BY <1>16, <1>17, <2>5 DEF ElementsAre
    <3> QED
      BY <1>17, <2>5, <3>3, <3>4 DEF x
  <2>6. CASE v # t
    <3>1. j \notin Indices(slab)
      BY <1>3, <1>4, <2>6, SolveShares
    <3>2. trsm_bp'[x] = trsm_bp[x]
      BY <1>5, <2>3, <2>4, <3>1
    <3>3. Round(v) > q \/ trsm_pc[v] # "pack"
      BY <1>18, <1>20, <2>6
    <3> QED
      BY <1>16, <1>18, <2>6, <3>2, <3>3 DEF PackedAre, x
  <2> QED
    BY <2>5, <2>6
<1>21. PackedAre(k, q)'
  BY <1>5, <1>20 DEF PackedAre
<1>22. Round(t)' = Round(t)
  BY <1>2, <1>12
<1> QED
  BY <1>1, <1>2, <1>6, <1>10, <1>11, <1>13, <1>14, <1>15, <1>19, <1>21, <1>22, StepKeeps

\* The macrokernel goes down the rows of a column, and then to the next column.
LEMMA AdvanceStep ==
    ASSUME IrOnce, TrsmIInv, NEW t \in Threads, NEW from, NEW back,
           Solve!Advance(t, back), trsm_pc[t] = from,
           \/ from = "gemmtrsm" /\ back = "solve"
           \/ from = "gemm" /\ back = "update",
           trsm_p' = trsm_p, trsm_calls' = trsm_calls, trsm_kblk' = trsm_kblk,
           trsm_range' = trsm_range, trsm_i' = trsm_i, trsm_blk' = trsm_blk,
           DOMAIN trsm_c' = DOMAIN trsm_c, DOMAIN trsm_bp' = DOMAIN trsm_bp,
           NEW slab, slab = IF from = "gemmtrsm" THEN SolveSlab(trsm_p, t)
                            ELSE UpdateSlab(trsm_p, t),
           NEW at, at = FirstPlace(trsm_p, trsm_blk[t]) + trsm_ker[t].r,
           NEW col, col = trsm_ker[t].j
    PROVE  /\ OnlyOf(t) /\ TrsmType' /\ trsm_pc'[t] \in {from, back}
           /\ Last(t) /\ \A u \in Threads : trsm_calls[u] >= trsm_calls[t]
           /\ Round(t)' = Round(t) /\ trsm_calls'[t] >= trsm_calls[t]
           /\ Counted(t)' /\ Together(t)' /\ InLoop(t)' /\ AtTile(t)'
           /\ at \in Nat /\ col \in Indices(slab)
           /\ at - LoopBase(t) \in Indices(trsm_range[t])
           /\ ~Passed(t, at, col)
           /\ \A a \in Nat : a < at /\ LoopBase(t) <= a => Passed(t, a, col)
           /\ \A a \in Nat, j \in Indices(slab) :
                Passed(t, a, j)' <=> Passed(t, a, j) \/ (a = at /\ j = col)
<1>1. PICK x : x = trsm_blk[t]
  OBVIOUS
<1>2. PICK k : k = trsm_ker[t]
  OBVIOUS
<1>3. PICK n : n = trsm_i[t]
  OBVIOUS
<1>4. PICK r : r = trsm_range[t]
  OBVIOUS
<1>5. PICK base : base = LoopBase(t)
  OBVIOUS
<1>6. PICK first : first = FirstPlace(trsm_p, x)
  OBVIOUS
<1>7. /\ from \in InKernel /\ from \in Solving \cup Updating
      /\ back \in {"solve", "update"} /\ back \in Solving \cup Updating
      /\ from \in Solving <=> back \in Solving
      /\ from \in Updating <=> back \in Updating
      /\ from \in TrsmPoints /\ back \in TrsmPoints
  BY DEF InKernel, Solving, Updating, TrsmPoints
<1>8. TrsmType /\ trsm_p \in Solves /\ Counted(t) /\ AtTile(t) /\ InLoop(t)
  BY DEF TrsmIInv, TrsmType
<1>9. /\ trsm_kblk[t] \in [i : Nat, off : Nat, len : Nat]
      /\ trsm_kblk[t].i + trsm_kblk[t].len <= trsm_p.m
      /\ r \in [start : Nat, end : Nat] /\ n \in r.start .. r.end
      /\ from \in Solving => base = trsm_kblk[t].i
      /\ from \in Updating => base = trsm_kblk[t].i + trsm_kblk[t].len
  BY <1>3, <1>4, <1>5, <1>7, LoopFacts
<1>10. base \in Nat
  BY <1>7, <1>9, SMT
<1>11. k \in [j : Nat, j_end : Nat, r : Nat] /\ x.len \in Nat
  BY <1>1, <1>2, <1>8 DEF TrsmType
<1>12. /\ x.len \in 1 .. n - r.start /\ first = base + (n - x.len)
       /\ k.r \in 0 .. x.len - 1 /\ k.j \in Indices(slab) /\ k.j_end = slab.end
  BY <1>1, <1>2, <1>3, <1>4, <1>5, <1>6, <1>7, <1>8 DEF AtTile
<1>13. slab \in [start : Nat, end : Nat]
  <2>1. SolveSlab(trsm_p, t) \in [start : Nat, end : Nat]
    BY <1>8, SolveShares
  <2>2. UpdateSlab(trsm_p, t) \in [start : Nat, end : Nat]
    BY <1>8, <1>9, UpdateShares
  <2> QED
    BY <2>1, <2>2
<1>14. /\ first \in Nat /\ at = first + k.r /\ at \in Nat /\ col = k.j
       /\ at - base \in Indices(r)
  <2>1. at = first + k.r /\ col = k.j
    BY <1>1, <1>2, <1>6
  <2>2. first \in Nat /\ at \in Nat /\ at - base \in Indices(r)
    BY <1>9, <1>10, <1>11, <1>12, <2>1, SMT DEF Indices
  <2> QED
    BY <2>1, <2>2
<1>15. \/ /\ k.r + 1 < x.len
          /\ trsm_ker' = [trsm_ker EXCEPT ![t].r = @ + 1] /\ trsm_pc' = trsm_pc
       \/ /\ ~(k.r + 1 < x.len) /\ k.j + 1 < k.j_end
          /\ trsm_ker' = [trsm_ker EXCEPT ![t].j = @ + 1, ![t].r = 0]
          /\ trsm_pc' = trsm_pc
       \/ /\ ~(k.r + 1 < x.len) /\ ~(k.j + 1 < k.j_end)
          /\ trsm_ker' = [trsm_ker EXCEPT ![t] = [j |-> 0, j_end |-> 0, r |-> 0]]
          /\ trsm_pc' = [trsm_pc EXCEPT ![t] = back]
  BY <1>1, <1>2 DEF Solve!Advance, Solve!Goto, Solve!NoKer
<1>16. \/ /\ k.r + 1 < x.len /\ trsm_pc'[t] = from
          /\ trsm_ker'[t] = [j |-> k.j, j_end |-> k.j_end, r |-> k.r + 1]
       \/ /\ ~(k.r + 1 < x.len) /\ k.j + 1 < k.j_end /\ trsm_pc'[t] = from
          /\ trsm_ker'[t] = [j |-> k.j + 1, j_end |-> k.j_end, r |-> 0]
       \/ /\ ~(k.r + 1 < x.len) /\ ~(k.j + 1 < k.j_end) /\ trsm_pc'[t] = back
          /\ trsm_ker'[t] = [j |-> 0, j_end |-> 0, r |-> 0]
  <2>1. trsm_ker \in [Threads -> [j : Nat, j_end : Nat, r : Nat]]
        /\ trsm_pc \in [Threads -> TrsmPoints]
    BY <1>8 DEF TrsmType
  <2> QED
    BY <1>2, <1>11, <1>15, <2>1
<1>17. OnlyOf(t)
  <2>1. \A v \in Threads : v # t => trsm_ker'[v] = trsm_ker[v] /\ trsm_pc'[v] = trsm_pc[v]
    <3>1. trsm_ker \in [Threads -> [j : Nat, j_end : Nat, r : Nat]]
          /\ trsm_pc \in [Threads -> TrsmPoints]
      BY <1>8 DEF TrsmType
    <3> QED
      BY <1>15, <3>1
  <2> QED
    BY <2>1 DEF OnlyOf
<1>18. trsm_pc'[t] \in {from, back}
  BY <1>16
<1>19. TrsmType'
  <2>1. trsm_pc' \in [Threads -> TrsmPoints]
    <3>1. trsm_pc \in [Threads -> TrsmPoints]
      BY <1>8 DEF TrsmType
    <3> QED
      BY <1>7, <1>15, <3>1
  <2>2. trsm_ker' \in [Threads -> [j : Nat, j_end : Nat, r : Nat]]
    <3>1. trsm_ker'[t] \in [j : Nat, j_end : Nat, r : Nat]
      BY <1>11, <1>16, SMT
    <3>2. trsm_ker \in [Threads -> [j : Nat, j_end : Nat, r : Nat]]
      BY <1>8 DEF TrsmType
    <3>3. /\ DOMAIN trsm_ker' = Threads
          /\ trsm_ker' = [v \in Threads |-> trsm_ker'[v]]
      BY <1>15, <3>2
    <3>4. \A v \in Threads : trsm_ker'[v] \in [j : Nat, j_end : Nat, r : Nat]
      BY <1>17, <3>1, <3>2 DEF OnlyOf
    <3> QED
      BY <3>3, <3>4
  <2> QED
    BY <1>8, <2>1, <2>2 DEF TrsmType
<1>20. Last(t) /\ \A u \in Threads : trsm_calls[u] >= trsm_calls[t]
  BY <1>7, InFront DEF InKernel
<1>21. Round(t)' = Round(t) /\ trsm_calls'[t] >= trsm_calls[t] /\ Together(t)'
  BY <1>17, <1>20, NoBarrier
<1>22. Counted(t)'
  BY <1>8, <1>18, <1>21 DEF Counted
<1>23. LoopBase(t)' = base
  BY <1>5, <1>7, <1>18 DEF LoopBase
<1>24. InLoop(t)'
  BY <1>7, <1>8, <1>18 DEF InLoop
<1>25. AtTile(t)'
  <2>1. CASE trsm_pc'[t] = back
    BY <1>7, <2>1 DEF AtTile, InKernel
  <2>2. CASE trsm_pc'[t] = from /\ from # back
    <3>1. trsm_ker'[t].j_end = slab.end
      BY <1>12, <1>16, <2>2
    <3>2. trsm_ker'[t].r \in 0 .. x.len - 1
      BY <1>11, <1>12, <1>16, <2>2, SMT
    <3>3. trsm_ker'[t].j \in Indices(slab)
      BY <1>11, <1>12, <1>13, <1>16, <2>2, SMT DEF Indices
    <3>4. slab = IF trsm_pc'[t] = "gemmtrsm" THEN SolveSlab(trsm_p, t)
                 ELSE UpdateSlab(trsm_p, t)
      BY <2>2
    <3> QED
      BY <1>1, <1>3, <1>4, <1>6, <1>12, <1>23, <3>1, <3>2, <3>3, <3>4 DEF AtTile
  <2> QED
    BY <1>18, <2>1, <2>2
<1>26. \A a, j : Passed(t, a, j) <=> KernelPassed(first, x, k, a, j)
  BY <1>1, <1>2, <1>6, <1>7, DoneAt
<1>27. ~Passed(t, at, col)
  BY <1>11, <1>12, <1>14, <1>26, SMT DEF KernelPassed
<1>28. ASSUME NEW a \in Nat, a < at, base <= a PROVE Passed(t, a, col)
  BY <1>11, <1>12, <1>14, <1>26, <1>28, SMT DEF KernelPassed
<1>29. ASSUME NEW a \in Nat, NEW j \in Indices(slab)
       PROVE  Passed(t, a, j)' <=> Passed(t, a, j) \/ (a = at /\ j = col)
  <2>1. j \in Nat /\ j < slab.end
    BY <1>13, SMT DEF Indices
  <2>2. \/ trsm_pc'[t] = from /\ (Passed(t, a, j)' <=> KernelPassed(first, x, trsm_ker'[t], a, j))
        \/ trsm_pc'[t] = back /\ (Passed(t, a, j)' <=> a < base + n)
    <3>1. trsm_pc'[t] = from => (Passed(t, a, j)' <=> KernelPassed(first, x, trsm_ker'[t], a, j))
      BY <1>1, <1>6, <1>7, DoneAtNext
    <3>2. trsm_pc'[t] = back => (Passed(t, a, j)' <=> a < base + n)
      BY <1>3, <1>7, <1>23, DoneAtNext
    <3> QED
      BY <1>18, <3>1, <3>2
  <2>3. from # back
    OBVIOUS
  <2>4. CASE k.r + 1 < x.len
    <3>1. trsm_pc'[t] = from /\ trsm_ker'[t] = [j |-> k.j, j_end |-> k.j_end, r |-> k.r + 1]
      BY <1>16, <2>4
    <3>2. Passed(t, a, j)' <=>
            KernelPassed(first, x, [j |-> k.j, j_end |-> k.j_end, r |-> k.r + 1], a, j)
      BY <2>2, <2>3, <3>1
    <3>3. KernelPassed(first, x, [j |-> k.j, j_end |-> k.j_end, r |-> k.r + 1], a, j)
            <=> KernelPassed(first, x, k, a, j) \/ (a = at /\ j = col)
      BY <1>11, <1>12, <1>14, <2>1, <2>4, SMT DEF KernelPassed
    <3> QED
      BY <1>26, <3>2, <3>3
  <2>5. CASE ~(k.r + 1 < x.len) /\ k.j + 1 < k.j_end
    <3>1. trsm_pc'[t] = from /\ trsm_ker'[t] = [j |-> k.j + 1, j_end |-> k.j_end, r |-> 0]
      BY <1>16, <2>5
    <3>2. Passed(t, a, j)' <=>
            KernelPassed(first, x, [j |-> k.j + 1, j_end |-> k.j_end, r |-> 0], a, j)
      BY <2>2, <2>3, <3>1
    <3>3. KernelPassed(first, x, [j |-> k.j + 1, j_end |-> k.j_end, r |-> 0], a, j)
            <=> KernelPassed(first, x, k, a, j) \/ (a = at /\ j = col)
      BY <1>11, <1>12, <1>14, <2>1, <2>5, SMT DEF KernelPassed
    <3> QED
      BY <1>26, <3>2, <3>3
  <2>6. CASE ~(k.r + 1 < x.len) /\ ~(k.j + 1 < k.j_end)
    <3>1. trsm_pc'[t] = back
      BY <1>16, <2>6
    <3>2. Passed(t, a, j)' <=> a < base + n
      BY <2>2, <2>3, <3>1
    <3>3. k.j = slab.end - 1 /\ base + n = first + x.len /\ k.r + 1 = x.len
      <4>1. k.j = slab.end - 1
        BY <1>11, <1>12, <1>13, <2>6, SMT DEF Indices
      <4>2. k.r + 1 = x.len
        BY <1>11, <1>12, <2>6, SMT
      <4>3. base + n = first + x.len
        <5>1. n \in Nat
          BY <1>9, SMT
        <5> QED
          BY <1>10, <1>11, <1>12, <5>1, SMT
      <4> QED
        BY <4>1, <4>2, <4>3
    <3>4. a < first + x.len <=> KernelPassed(first, x, k, a, j) \/ (a = at /\ j = col)
      BY <1>11, <1>12, <1>13, <1>14, <2>1, <3>3, SMT DEF KernelPassed
    <3> QED
      BY <1>26, <3>2, <3>3, <3>4
  <2> QED
    BY <2>4, <2>5, <2>6
<1>30. \A a \in Nat : a < at /\ LoopBase(t) <= a => Passed(t, a, col)
  BY <1>5, <1>28
<1> QED
  BY <1>4, <1>5, <1>14, <1>12, <1>17, <1>18, <1>19, <1>20, <1>21, <1>22, <1>24, <1>25,
     <1>27, <1>29, <1>30

-----------------------------------------------------------------------------

\* Different places have different rows.
LEMMA PlacesDiffer ==
    ASSUME IrOnce, NEW s \in Solves, NEW a \in 0 .. s.m - 1, NEW b \in 0 .. s.m - 1,
           NEW i1, NEW j1
    PROVE  /\ At(s, a, i1) = At(s, b, j1) => a = b /\ i1 = j1
           /\ \A k : k.off \in Nat /\ PackedAt(s, k, a, i1) = PackedAt(s, k, b, j1)
                        => a = b /\ i1 = j1
<1>1. Flip(s, a) \in 0 .. s.m - 1 /\ Flip(s, Flip(s, a)) = a
      /\ Flip(s, b) \in 0 .. s.m - 1 /\ Flip(s, Flip(s, b)) = b
  BY Flips
<1>2. Flip(s, a) = Flip(s, b) => a = b
  BY <1>1
<1>3. \A o \in Nat : Flip(s, a) - o = Flip(s, b) - o => Flip(s, a) = Flip(s, b)
  BY <1>1, SMT
<1> QED
  BY <1>2, <1>3 DEF At, PackedAt

LEMMA RowsBetween ==
    ASSUME IrOnce, NEW s \in Solves, NEW b \in Nat, NEW e \in Nat, NEW r \in Between(s, b, e)
    PROVE  \E a \in b .. e - 1 : a \in 0 .. s.m - 1 /\ r = Flip(s, a)
<1>1. r \in 0 .. s.m - 1 /\ b <= Flip(s, r) /\ Flip(s, r) < e
  BY DEF Between
<1>2. Flip(s, r) \in 0 .. s.m - 1 /\ r = Flip(s, Flip(s, r))
  BY <1>1, Flips
<1>3. Flip(s, r) \in b .. e - 1
  <2>1. s.m \in Nat
    BY TrsmParameters
  <2> QED
    BY <1>1, <1>2, <2>1, SMT
<1> QED
  BY <1>2, <1>3

LEMMA TermParts ==
    ASSUME NEW v, NEW r, NEW sub, NEW solved, NEW x, NEW y,
           v = [row |-> r, sub |-> sub, solved |-> solved]
    PROVE  /\ v.row = r /\ v.sub = sub /\ v.solved = solved
           /\ [v EXCEPT !.sub = x] = [row |-> r, sub |-> x, solved |-> solved]
           /\ [v EXCEPT !.solved = y] = [row |-> r, sub |-> sub, solved |-> y]
OBVIOUS

\* The gemm part of the microkernels: it subtracts the rows from b to e - 1
\* from an element from which those before b have been subtracted.
LEMMA SubtractRows ==
    ASSUME IrOnce, trsm_p \in Solves, NEW t \in Threads, NEW a, NEW j,
           NEW b \in Nat, NEW e \in Nat, b <= e, NEW rows, rows = Between(trsm_p, b, e),
           \A s \in rows : trsm_bp[<<s - trsm_kblk[t].off, j>>] = Solve!Solution(s)
    PROVE  Solve!Subtract(Partial(trsm_p, a, b), rows, t, j) = Partial(trsm_p, a, e)
<1>1. PICK v : v = Partial(trsm_p, a, b)
  OBVIOUS
<1>2. PICK no : no = FALSE
  OBVIOUS
<1>3. v = [row |-> Flip(trsm_p, a), sub |-> Early(trsm_p, b), solved |-> no]
  BY <1>1, <1>2, Zenon DEF Partial, Solve!Term
<1>4. PICK sub : sub = Early(trsm_p, b) \cup rows
  OBVIOUS
<1>5. /\ v.sub = Early(trsm_p, b) /\ v.solved = no
      /\ [v EXCEPT !.sub = sub] = [row |-> Flip(trsm_p, a), sub |-> sub, solved |-> no]
  BY <1>3, TermParts
<1>6. sub = Early(trsm_p, e) /\ Early(trsm_p, b) \cap rows = {}
  BY <1>4, EarlyJoin
<1>7. Solve!Subtract(v, rows, t, j) = [v EXCEPT !.sub = sub]
  BY <1>2, <1>4, <1>5, <1>6 DEF Solve!Subtract
<1>8. Partial(trsm_p, a, e) = [row |-> Flip(trsm_p, a), sub |-> sub, solved |-> no]
  BY <1>2, <1>6, Zenon DEF Partial, Solve!Term
<1> QED
  BY <1>1, <1>5, <1>7, <1>8

\* The trsm part of the gemmtrsm microkernel.
LEMMA SolvedRow ==
    ASSUME IrOnce, trsm_p \in Solves, NEW a \in 0 .. trsm_p.m - 1
    PROVE  Solve!SolveRow(Partial(trsm_p, a, a)) = Solved(trsm_p, a)
<1>1. Solve!Before(Flip(trsm_p, a)) = Early(trsm_p, a)
  BY SolutionAt
<1>2. PICK v : v = Partial(trsm_p, a, a)
  OBVIOUS
<1>3. PICK no : no = FALSE
  OBVIOUS
<1>4. PICK yes : yes = TRUE
  OBVIOUS
<1>5. v = [row |-> Flip(trsm_p, a), sub |-> Early(trsm_p, a), solved |-> no]
  BY <1>2, <1>3, Zenon DEF Partial, Solve!Term
<1>6. /\ v.row = Flip(trsm_p, a) /\ v.sub = Early(trsm_p, a) /\ v.solved = no
      /\ [v EXCEPT !.solved = yes]
            = [row |-> Flip(trsm_p, a), sub |-> Early(trsm_p, a), solved |-> yes]
  BY <1>5, TermParts
<1>7. [v EXCEPT !.solved = yes] = Solved(trsm_p, a)
  BY <1>4, <1>6, Zenon DEF Solved, Solve!Term
<1>8. Solve!SolveRow(v) = [v EXCEPT !.solved = yes]
  BY <1>1, <1>3, <1>4, <1>6 DEF Solve!SolveRow
<1> QED
  BY <1>2, <1>7, <1>8

\* Which rows the gemmtrsm microkernel subtracts
LEMMA BeforeInBlock ==
    ASSUME IrOnce, trsm_p \in Solves, NEW k \in [i : Nat, off : Nat, len : Nat],
           k.i + k.len <= trsm_p.m, k = BlockAt(trsm_p, k.i, k.len),
           NEW a \in SolvePlaces(k)
    PROVE  Solve!Before(Flip(trsm_p, a)) \cap Solve!Span(k) = Between(trsm_p, k.i, a)
<1>1. /\ Solve!Span(k) = Between(trsm_p, k.i, k.i + k.len)
      /\ a \in 0 .. trsm_p.m - 1
  BY BlockPlaces
<1>2. Solve!Before(Flip(trsm_p, a)) = Early(trsm_p, a)
  BY <1>1, SolutionAt
<1>3. ASSUME NEW r \in 0 .. trsm_p.m - 1
      PROVE  Flip(trsm_p, r) < a /\ k.i <= Flip(trsm_p, r) /\ Flip(trsm_p, r) < k.i + k.len
             <=> k.i <= Flip(trsm_p, r) /\ Flip(trsm_p, r) < a
  <2>1. trsm_p.m \in Nat /\ Flip(trsm_p, r) \in 0 .. trsm_p.m - 1
    BY TrsmParameters, Flips
  <2>2. a < k.i + k.len /\ a \in Nat
    BY <1>1, <2>1, SMT DEF SolvePlaces
  <2> QED
    BY <2>1, <2>2, SMT
<1> QED
  BY <1>1, <1>2, <1>3, Zenon DEF Early, Between

LEMMA GemmtrsmStep ==
    ASSUME IrOnce, TrsmIInv, NEW t \in Threads, Solve!Gemmtrsm(t)
    PROVE  TrsmIInv'
<1>1. PICK k : k = trsm_kblk[t]
  OBVIOUS
<1>2. PICK q : q = Round(t)
  OBVIOUS
<1>3. PICK slab : slab = SolveSlab(trsm_p, t)
  OBVIOUS
<1>4. PICK at : at = FirstPlace(trsm_p, trsm_blk[t]) + trsm_ker[t].r
  OBVIOUS
<1>5. PICK col : col = trsm_ker[t].j
  OBVIOUS
<1>6. TrsmType /\ trsm_p \in Solves /\ trsm_p.m \in Nat
  BY TrsmParameters DEF TrsmIInv, TrsmType
<1>7. /\ trsm_pc[t] = "gemmtrsm" /\ Solve!Advance(t, "solve")
      /\ trsm_p' = trsm_p /\ trsm_calls' = trsm_calls /\ trsm_kblk' = trsm_kblk
      /\ trsm_range' = trsm_range /\ trsm_i' = trsm_i /\ trsm_blk' = trsm_blk
      /\ DOMAIN trsm_c' = DOMAIN trsm_c /\ DOMAIN trsm_bp' = DOMAIN trsm_bp
  BY DEF Solve!Gemmtrsm
<1>8. /\ OnlyOf(t) /\ TrsmType' /\ trsm_pc'[t] \in {"gemmtrsm", "solve"} /\ Last(t)
      /\ Round(t)' = Round(t) /\ trsm_calls'[t] >= trsm_calls[t]
      /\ Counted(t)' /\ Together(t)' /\ InLoop(t)' /\ AtTile(t)'
      /\ at \in Nat /\ col \in Indices(slab) /\ at - LoopBase(t) \in Indices(trsm_range[t])
      /\ ~Passed(t, at, col)
      /\ \A a \in Nat : a < at /\ LoopBase(t) <= a => Passed(t, a, col)
      /\ \A a \in Nat, j \in Indices(slab) :
                Passed(t, a, j)' <=> Passed(t, a, j) \/ (a = at /\ j = col)
  BY <1>3, <1>4, <1>5, <1>7, AdvanceStep
<1>9. /\ k \in [i : Nat, off : Nat, len : Nat] /\ k.i + k.len <= trsm_p.m
      /\ k.len \in 1 .. trsm_p.kc /\ k = BlockAt(trsm_p, k.i, k.len)
      /\ trsm_range[t] = [start |-> 0, end |-> k.len] /\ LoopBase(t) = k.i
      /\ q \in Nat /\ ~(q > q)
  <2>1. trsm_pc[t] \in Solving
    BY <1>7 DEF Solving
  <2>2. q \in Nat
    BY <1>2, <2>1, LoopFacts
  <2>3. ~(q > q)
    BY <2>2, SMT
  <2> QED
    BY <1>1, <1>2, <2>1, <2>2, <2>3, LoopFacts
<1>10. at \in SolvePlaces(k) /\ k.i <= at
  BY <1>8, <1>9, SMT DEF Indices, SolvePlaces
<1>11. /\ \A a \in SolvePlaces(k) : a \in 0 .. trsm_p.m - 1 /\ a \in Nat
       /\ at \in 0 .. trsm_p.m - 1
  <2>1. \A a \in SolvePlaces(k) : a \in 0 .. trsm_p.m - 1
    BY <1>6, <1>9, BlockPlaces
  <2> QED
    BY <1>6, <1>10, <2>1, SMT
<1>12. ElementsAre(k, q) /\ PackedAre(k, q)
  BY <1>1, <1>2, <1>8 DEF TrsmIInv
<1>13. \A a, j : /\ SolveDone(t, a, j, q) <=> Passed(t, a, j)
                 /\ SolveDone(t, a, j, q)' <=> Passed(t, a, j)'
                 /\ UpdateDone(t, a, j, q) <=> FALSE
                 /\ UpdateDone(t, a, j, q)' <=> FALSE
  <2>1. trsm_pc[t] \in Solving /\ trsm_pc'[t] \in Solving
    BY <1>7, <1>8 DEF Solving
  <2>2. \A a, j : /\ SolveDone(t, a, j, q) <=> Passed(t, a, j)
                  /\ UpdateDone(t, a, j, q) <=> FALSE
    BY <1>2, <1>9, <2>1, DoneAt
  <2>3. \A a, j : /\ SolveDone(t, a, j, q)' <=> Passed(t, a, j)'
                  /\ UpdateDone(t, a, j, q)' <=> FALSE
    BY <1>2, <1>8, <1>9, <2>1, DoneAtNext
  <2> QED
    BY <2>2, <2>3
<1>14. \A a \in SolvePlaces(k) :
        trsm_bp[PackedAt(trsm_p, k, a, col)] =
            IF SolveDone(t, a, col, q) THEN Solved(trsm_p, a) ELSE Partial(trsm_p, a, k.i)
  BY <1>3, <1>7, <1>8, <1>12 DEF PackedAre
<1>15. trsm_bp[PackedAt(trsm_p, k, at, col)] = Partial(trsm_p, at, k.i)
  BY <1>8, <1>10, <1>13, <1>14
<1>16. PICK rows : rows = Between(trsm_p, k.i, at)
  OBVIOUS
<1>17. ASSUME NEW s \in rows
       PROVE  trsm_bp[<<s - trsm_kblk[t].off, col>>] = Solve!Solution(s)
  <2>1. PICK a \in k.i .. at - 1 : a \in 0 .. trsm_p.m - 1 /\ s = Flip(trsm_p, a)
    BY <1>6, <1>8, <1>9, <1>16, RowsBetween
  <2>2. a \in Nat /\ a < at /\ k.i <= a
    BY <1>6, <1>8, <1>9, <2>1, SMT
  <2>3. a \in SolvePlaces(k)
    BY <1>9, <1>10, <2>1, <2>2, SMT DEF SolvePlaces
  <2>4. Passed(t, a, col)
    BY <1>8, <1>9, <2>2
  <2>5. trsm_bp[PackedAt(trsm_p, k, a, col)] = Solved(trsm_p, a)
    BY <1>13, <1>14, <2>3, <2>4
  <2>6. Solve!Solution(s) = Solved(trsm_p, a)
    BY <1>6, <2>1, SolutionAt
  <2> QED
    BY <1>1, <2>1, <2>5, <2>6 DEF PackedAt
<1>18. Solve!Subtract(Partial(trsm_p, at, k.i), rows, t, col) = Partial(trsm_p, at, at)
  BY <1>6, <1>8, <1>9, <1>10, <1>16, <1>17, SubtractRows
<1>19. PICK x : x = PackedAt(trsm_p, k, at, col)
  OBVIOUS
<1>20. /\ trsm_bp' = [trsm_bp EXCEPT ![x] = Solved(trsm_p, at)]
       /\ trsm_c' = [trsm_c EXCEPT ![At(trsm_p, at, col)] = Solved(trsm_p, at)]
  <2>1. Solve!Row(t) = Flip(trsm_p, at)
    BY <1>4, <1>6, RowAtPlace DEF TrsmType
  <2>2. Solve!Before(Flip(trsm_p, at)) \cap Solve!Span(k) = rows
    BY <1>6, <1>9, <1>10, <1>16, BeforeInBlock
  <2>3. Solve!SolveRow(Partial(trsm_p, at, at)) = Solved(trsm_p, at)
    BY <1>6, <1>11, SolvedRow
  <2>4. /\ <<Flip(trsm_p, at) - trsm_kblk[t].off, col>> = x
        /\ <<Flip(trsm_p, at), col>> = At(trsm_p, at, col)
    BY <1>1, <1>19 DEF PackedAt, At
  <2>5. PICK r : r = Solve!Row(t)
    OBVIOUS
  <2>6. PICK y : y = Solve!SolveRow(Solve!Subtract(trsm_bp[<<r - trsm_kblk[t].off, col>>],
                        Solve!Before(r) \cap Solve!Span(trsm_kblk[t]), t, col))
    OBVIOUS
  <2>7. y = Solved(trsm_p, at)
    BY <1>1, <1>15, <1>18, <1>19, <2>1, <2>2, <2>3, <2>4, <2>5, <2>6
  <2>8. /\ trsm_bp' = [trsm_bp EXCEPT ![<<r - trsm_kblk[t].off, col>>] = y]
        /\ trsm_c' = [trsm_c EXCEPT ![<<r, col>>] = y]
    BY <1>5, <2>5, <2>6 DEF Solve!Gemmtrsm
  <2> QED
    BY <2>1, <2>4, <2>5, <2>7, <2>8
<1>21. ASSUME NEW a \in 0 .. trsm_p.m - 1, NEW j, a # at \/ j # col,
              At(trsm_p, a, j) \in DOMAIN trsm_c
       PROVE  trsm_c'[At(trsm_p, a, j)] = trsm_c[At(trsm_p, a, j)]
  <2>1. At(trsm_p, a, j) # At(trsm_p, at, col)
    BY <1>6, <1>11, <1>21, PlacesDiffer
  <2> QED
    BY <1>20, <1>21, <2>1
<1>22. \A a \in 0 .. trsm_p.m - 1, j \in 0 .. trsm_p.n - 1 : At(trsm_p, a, j) \in DOMAIN trsm_c
  BY <1>6, Flips DEF TrsmType, At
<1>23. /\ \A v \in Threads : Indices(SolveSlab(trsm_p, v)) \subseteq 0 .. trsm_p.n - 1
       /\ \A v \in Threads : Indices(UpdateSlab(trsm_p, v)) \subseteq 0 .. trsm_p.n - 1
       /\ \A v \in Threads : v # t => col \notin Indices(SolveSlab(trsm_p, v))
       /\ \A v \in Threads : \A a \in UpdatePlaces(trsm_p, v, k) :
            a \in 0 .. trsm_p.m - 1 /\ a # at
  <2>1. \A v \in Threads : Indices(UpdateSlab(trsm_p, v)) \subseteq 0 .. trsm_p.n - 1
    BY <1>6, <1>9, UpdateShares
  <2>2. \A v \in Threads : v # t => col \notin Indices(SolveSlab(trsm_p, v))
    BY <1>3, <1>6, <1>8, SolveShares
  <2>3. ASSUME NEW v \in Threads, NEW a \in UpdatePlaces(trsm_p, v, k)
        PROVE  a \in 0 .. trsm_p.m - 1 /\ a # at
    <3>1. a \in Nat /\ k.i + k.len <= a /\ a < trsm_p.m
      BY <1>6, <1>9, UpdateShares
    <3> QED
      BY <1>6, <1>8, <1>9, <1>10, <3>1, SMT DEF SolvePlaces
  <2> QED
    BY <1>6, <2>1, <2>2, <2>3, SolveShares
<1>24. \A v \in Threads : v # t =>
        /\ Round(v)' = Round(v) /\ trsm_pc'[v] = trsm_pc[v]
        /\ \A a, j : /\ SolveDone(v, a, j, q)' <=> SolveDone(v, a, j, q)
                     /\ UpdateDone(v, a, j, q)' <=> UpdateDone(v, a, j, q)
  BY <1>8, OthersStay DEF OnlyOf
<1>25. ASSUME NEW a \in 0 .. k.i - 1, NEW j \in 0 .. trsm_p.n - 1
       PROVE  trsm_c'[At(trsm_p, a, j)] = Solved(trsm_p, a)
  <2>1. a \in 0 .. trsm_p.m - 1 /\ a # at
    BY <1>6, <1>8, <1>9, <1>10, SMT
  <2> QED
    BY <1>12, <1>21, <1>22, <2>1 DEF ElementsAre
<1>26. ASSUME NEW v \in Threads, NEW a \in SolvePlaces(k),
              NEW j \in Indices(SolveSlab(trsm_p, v))
       PROVE  trsm_c'[At(trsm_p, a, j)] =
                IF SolveDone(v, a, j, q)' THEN Solved(trsm_p, a)
                ELSE Partial(trsm_p, a, k.i)
  <2>1. trsm_c[At(trsm_p, a, j)] =
            IF SolveDone(v, a, j, q) THEN Solved(trsm_p, a) ELSE Partial(trsm_p, a, k.i)
    BY <1>12 DEF ElementsAre
  <2>2. a \in 0 .. trsm_p.m - 1 /\ a \in Nat /\ At(trsm_p, a, j) \in DOMAIN trsm_c
    BY <1>11, <1>22, <1>23
  <2>3. CASE v = t /\ a = at /\ j = col
    <3>1. SolveDone(t, a, j, q)'
      BY <1>3, <1>8, <1>13, <2>2, <2>3
    <3> QED
      BY <1>20, <2>2, <2>3, <3>1
  <2>4. CASE a # at \/ j # col
    <3>1. trsm_c'[At(trsm_p, a, j)] = trsm_c[At(trsm_p, a, j)]
      BY <1>21, <2>2, <2>4
    <3>2. SolveDone(v, a, j, q)' <=> SolveDone(v, a, j, q)
      BY <1>3, <1>8, <1>13, <1>24, <2>2, <2>4
    <3> QED
      BY <2>1, <3>1, <3>2
  <2> QED
    BY <1>23, <2>3, <2>4
<1>27. ASSUME NEW v \in Threads, NEW a \in UpdatePlaces(trsm_p, v, k),
              NEW j \in Indices(UpdateSlab(trsm_p, v))
       PROVE  trsm_c'[At(trsm_p, a, j)] =
                Partial(trsm_p, a, IF UpdateDone(v, a, j, q)' THEN k.i + k.len ELSE k.i)
  <2>1. trsm_c'[At(trsm_p, a, j)] = trsm_c[At(trsm_p, a, j)]
    BY <1>21, <1>22, <1>23
  <2>2. UpdateDone(v, a, j, q)' <=> UpdateDone(v, a, j, q)
    BY <1>13, <1>24
  <2> QED
    BY <1>12, <2>1, <2>2 DEF ElementsAre
<1>28. ElementsAre(k, q)'
  BY <1>7, <1>25, <1>26, <1>27 DEF ElementsAre
<1>29. ASSUME NEW v \in Threads, NEW a \in SolvePlaces(k),
              NEW j \in Indices(SolveSlab(trsm_p, v)),
              Round(v)' > q \/ trsm_pc'[v] # "pack"
       PROVE  trsm_bp'[PackedAt(trsm_p, k, a, j)] =
                IF SolveDone(v, a, j, q)' THEN Solved(trsm_p, a)
                ELSE Partial(trsm_p, a, k.i)
  <2>1. Round(v) > q \/ trsm_pc[v] # "pack"
    BY <1>7, <1>24, <1>29
  <2>2. trsm_bp[PackedAt(trsm_p, k, a, j)] =
            IF SolveDone(v, a, j, q) THEN Solved(trsm_p, a) ELSE Partial(trsm_p, a, k.i)
    BY <1>12, <2>1 DEF PackedAre
  <2>3. a \in 0 .. trsm_p.m - 1 /\ a \in Nat
    BY <1>11
  <2>4. PackedAt(trsm_p, k, a, j) \in DOMAIN trsm_bp
    <3>1. Flip(trsm_p, a) - k.off \in 0 .. k.len - 1
      BY <1>6, <1>9, BlockPlaces
    <3>2. trsm_p.kc \in Nat
      BY <1>6, TrsmParameters
    <3>3. Flip(trsm_p, a) - k.off \in 0 .. trsm_p.kc - 1
      BY <1>9, <3>1, <3>2, SMT
    <3> QED
      BY <1>6, <1>23, <3>3 DEF TrsmType, PackedAt
  <2>5. CASE v = t /\ a = at /\ j = col
    <3>1. SolveDone(t, a, j, q)'
      BY <1>3, <1>8, <1>13, <2>3, <2>5
    <3> QED
      BY <1>19, <1>20, <2>4, <2>5, <3>1
  <2>6. CASE a # at \/ j # col
    <3>1. PackedAt(trsm_p, k, a, j) # x
      <4>1. k.off \in Nat
        BY <1>9
      <4> QED
        BY <1>6, <1>11, <1>19, <2>3, <2>6, <4>1, PlacesDiffer
    <3>2. trsm_bp'[PackedAt(trsm_p, k, a, j)] = trsm_bp[PackedAt(trsm_p, k, a, j)]
      BY <1>20, <2>4, <3>1
    <3>3. SolveDone(v, a, j, q)' <=> SolveDone(v, a, j, q)
      BY <1>3, <1>8, <1>13, <1>24, <2>3, <2>6
    <3> QED
      BY <2>2, <3>2, <3>3
  <2> QED
    BY <1>23, <2>5, <2>6
<1>30. PackedAre(k, q)'
  BY <1>7, <1>29 DEF PackedAre
<1> QED
  BY <1>1, <1>2, <1>8, <1>28, <1>30, StepKeeps

LEMMA GemmSolveStep ==
    ASSUME IrOnce, TrsmIInv, NEW t \in Threads, Solve!Gemm(t)
    PROVE  TrsmIInv'
<1>1. PICK k : k = trsm_kblk[t]
  OBVIOUS
<1>2. PICK q : q = Round(t)
  OBVIOUS
<1>3. PICK slab : slab = UpdateSlab(trsm_p, t)
  OBVIOUS
<1>4. PICK at : at = FirstPlace(trsm_p, trsm_blk[t]) + trsm_ker[t].r
  OBVIOUS
<1>5. PICK col : col = trsm_ker[t].j
  OBVIOUS
<1>6. TrsmType /\ trsm_p \in Solves /\ trsm_p.m \in Nat
  BY TrsmParameters DEF TrsmIInv, TrsmType
<1>7. /\ trsm_pc[t] = "gemm" /\ Solve!Advance(t, "update")
      /\ trsm_p' = trsm_p /\ trsm_calls' = trsm_calls /\ trsm_kblk' = trsm_kblk
      /\ trsm_range' = trsm_range /\ trsm_i' = trsm_i /\ trsm_blk' = trsm_blk
      /\ DOMAIN trsm_c' = DOMAIN trsm_c /\ trsm_bp' = trsm_bp
  BY DEF Solve!Gemm
<1>8. /\ OnlyOf(t) /\ TrsmType' /\ trsm_pc'[t] \in {"gemm", "update"} /\ Last(t)
      /\ \A u \in Threads : trsm_calls[u] >= trsm_calls[t]
      /\ Round(t)' = Round(t) /\ trsm_calls'[t] >= trsm_calls[t]
      /\ Counted(t)' /\ Together(t)' /\ InLoop(t)' /\ AtTile(t)'
      /\ at \in Nat /\ col \in Indices(slab) /\ at - LoopBase(t) \in Indices(trsm_range[t])
      /\ ~Passed(t, at, col)
      /\ \A a \in Nat, j \in Indices(slab) :
                Passed(t, a, j)' <=> Passed(t, a, j) \/ (a = at /\ j = col)
  BY <1>3, <1>4, <1>5, <1>7, AdvanceStep
<1>9. /\ k \in [i : Nat, off : Nat, len : Nat] /\ k.i + k.len <= trsm_p.m
      /\ k.len \in 1 .. trsm_p.kc /\ k = BlockAt(trsm_p, k.i, k.len)
      /\ trsm_range[t] = UpdateRange(trsm_p, t, k) /\ LoopBase(t) = k.i + k.len
      /\ trsm_range[t] \in [start : Nat, end : Nat]
      /\ trsm_range[t].end <= trsm_p.m - (k.i + k.len)
      /\ q \in Nat /\ ~(q > q)
  <2>1. trsm_pc[t] \in Updating
    BY <1>7 DEF Updating
  <2>2. q \in Nat
    BY <1>2, <2>1, LoopFacts
  <2>3. ~(q > q)
    BY <2>2, SMT
  <2> QED
    BY <1>1, <1>2, <2>1, <2>2, <2>3, LoopFacts
<1>10. at \in UpdatePlaces(trsm_p, t, k) /\ at \in 0 .. trsm_p.m - 1 /\ k.i + k.len <= at
  <2>1. at - (k.i + k.len) \in Indices(UpdateRange(trsm_p, t, k))
    BY <1>8, <1>9
  <2>2. k.i + k.len <= at /\ at \in 0 .. trsm_p.m - 1
    BY <1>6, <1>8, <1>9, SMT DEF Indices
  <2> QED
    BY <2>1, <2>2 DEF UpdatePlaces
<1>11. \A v \in Threads : trsm_pc[v] # "pack" \/ Round(v) > q
  <2> SUFFICES ASSUME NEW v \in Threads, trsm_pc[v] = "pack", ~(Round(v) > q) PROVE FALSE
    OBVIOUS
  <2>1. trsm_calls[v] = 3 * Round(v) - 2 /\ trsm_calls[t] = 3 * q
    BY <1>2, <1>7 DEF TrsmIInv, Counted
  <2>2. Round(v) \in Nat /\ trsm_calls[v] >= trsm_calls[t]
    BY <1>6, <1>8, Rounds
  <2> QED
    BY <1>9, <2>1, <2>2, SMT
<1>12. \A v \in Threads : \A a, j : SolveDone(v, a, j, q)
  <2> SUFFICES ASSUME NEW v \in Threads, NEW a, NEW j PROVE SolveDone(v, a, j, q)
    OBVIOUS
  <2>1. Round(v) \in Nat /\ trsm_calls[v] >= trsm_calls[t] /\ trsm_calls[v] \in Nat
    BY <1>6, <1>8, Rounds
  <2>2. trsm_calls[t] = 3 * q
    BY <1>2, <1>7 DEF TrsmIInv, Counted
  <2>3. CASE Round(v) > q
    BY <2>3 DEF SolveDone
  <2>4. CASE ~(Round(v) > q)
    <3>1. trsm_pc[v] \notin {"pack", "packed", "solve", "gemmtrsm"}
      <4>1. Counted(v)
        BY DEF TrsmIInv
      <4>2. trsm_calls[v] # 3 * Round(v) - 2 /\ trsm_calls[v] # 3 * Round(v) - 1
        BY <1>9, <2>1, <2>2, <2>4, SMT
      <4> QED
        BY <4>1, <4>2 DEF Counted
    <3>2. trsm_pc[v] \in TrsmPoints
      BY <1>6 DEF TrsmType
    <3> QED
      BY <3>1, <3>2 DEF SolveDone, TrsmPoints
  <2> QED
    BY <2>3, <2>4
<1>13. ElementsAre(k, q) /\ PackedAre(k, q)
  BY <1>1, <1>2, <1>8 DEF TrsmIInv
<1>14. \A a, j : /\ UpdateDone(t, a, j, q) <=> Passed(t, a, j)
                 /\ UpdateDone(t, a, j, q)' <=> Passed(t, a, j)'
                 /\ SolveDone(t, a, j, q)'
  <2>1. trsm_pc[t] \in Updating /\ trsm_pc'[t] \in Updating
    BY <1>7, <1>8 DEF Updating
  <2>2. \A a, j : UpdateDone(t, a, j, q) <=> Passed(t, a, j)
    BY <1>2, <1>9, <2>1, DoneAt
  <2>3. \A a, j : /\ UpdateDone(t, a, j, q)' <=> Passed(t, a, j)'
                  /\ SolveDone(t, a, j, q)'
    BY <1>2, <1>8, <1>9, <2>1, DoneAtNext
  <2> QED
    BY <2>2, <2>3
<1>15. trsm_c[At(trsm_p, at, col)] = Partial(trsm_p, at, k.i)
  BY <1>3, <1>8, <1>10, <1>13, <1>14 DEF ElementsAre
<1>16. PICK rows : rows = Between(trsm_p, k.i, k.i + k.len)
  OBVIOUS
<1>17. PICK end : end = k.i + k.len
  OBVIOUS
<1>18. end \in Nat /\ k.i \in Nat /\ k.i <= end /\ end = k.i + k.len
  BY <1>9, <1>17, SMT
<1>19. col \in 0 .. trsm_p.n - 1
  BY <1>3, <1>6, <1>8, <1>9, UpdateShares
<1>20. ASSUME NEW s \in rows
       PROVE  trsm_bp[<<s - trsm_kblk[t].off, col>>] = Solve!Solution(s)
  <2>1. PICK a \in k.i .. end - 1 : a \in 0 .. trsm_p.m - 1 /\ s = Flip(trsm_p, a)
    BY <1>6, <1>16, <1>18, RowsBetween
  <2>2. a \in SolvePlaces(k)
    BY <1>9, <1>17, <1>18, <2>1, SMT DEF SolvePlaces
  <2>3. PICK o \in Threads : col \in Indices(SolveSlab(trsm_p, o))
    BY <1>6, <1>19, SolveShares
  <2>4. SolveDone(o, a, col, q) /\ (Round(o) > q \/ trsm_pc[o] # "pack")
    BY <1>11, <1>12
  <2>5. trsm_bp[PackedAt(trsm_p, k, a, col)] = Solved(trsm_p, a)
    BY <1>13, <2>2, <2>3, <2>4 DEF PackedAre
  <2>6. Solve!Solution(s) = Solved(trsm_p, a)
    BY <1>6, <2>1, SolutionAt
  <2> QED
    BY <1>1, <2>1, <2>5, <2>6 DEF PackedAt
<1>21. Solve!Subtract(Partial(trsm_p, at, k.i), rows, t, col) = Partial(trsm_p, at, end)
  BY <1>6, <1>16, <1>18, <1>20, SubtractRows
<1>22. trsm_c' = [trsm_c EXCEPT ![At(trsm_p, at, col)] = Partial(trsm_p, at, end)]
  <2>1. Solve!Row(t) = Flip(trsm_p, at)
    BY <1>4, <1>6, RowAtPlace DEF TrsmType
  <2>2. Solve!Span(k) = rows
    BY <1>6, <1>9, <1>16, BlockPlaces
  <2>3. PICK x : x = <<Solve!Row(t), trsm_ker[t].j>>
    OBVIOUS
  <2>4. x = At(trsm_p, at, col)
    BY <1>5, <2>1, <2>3 DEF At
  <2>5. trsm_c' = [trsm_c EXCEPT ![x] =
                        Solve!Subtract(trsm_c[x], Solve!Span(trsm_kblk[t]), t, trsm_ker[t].j)]
    BY <2>3 DEF Solve!Gemm
  <2>6. Solve!Subtract(trsm_c[x], Solve!Span(trsm_kblk[t]), t, trsm_ker[t].j)
            = Partial(trsm_p, at, end)
    BY <1>1, <1>5, <1>15, <1>21, <2>2, <2>4
  <2> QED
    BY <2>4, <2>5, <2>6
<1>23. ASSUME NEW a \in 0 .. trsm_p.m - 1, NEW j, a # at \/ j # col,
              At(trsm_p, a, j) \in DOMAIN trsm_c
       PROVE  trsm_c'[At(trsm_p, a, j)] = trsm_c[At(trsm_p, a, j)]
  <2>1. At(trsm_p, a, j) # At(trsm_p, at, col)
    BY <1>6, <1>10, <1>23, PlacesDiffer
  <2> QED
    BY <1>22, <1>23, <2>1
<1>24. \A a \in 0 .. trsm_p.m - 1, j \in 0 .. trsm_p.n - 1 : At(trsm_p, a, j) \in DOMAIN trsm_c
  BY <1>6, Flips DEF TrsmType, At
<1>25. /\ \A v \in Threads : Indices(SolveSlab(trsm_p, v)) \subseteq 0 .. trsm_p.n - 1
       /\ \A v \in Threads : Indices(UpdateSlab(trsm_p, v)) \subseteq 0 .. trsm_p.n - 1
       /\ \A v \in Threads : \A a \in UpdatePlaces(trsm_p, v, k) :
            a \in 0 .. trsm_p.m - 1 /\ a \in Nat
       /\ \A a \in SolvePlaces(k) : a \in 0 .. trsm_p.m - 1 /\ a # at
  <2>1. \A v \in Threads : Indices(UpdateSlab(trsm_p, v)) \subseteq 0 .. trsm_p.n - 1
    BY <1>6, <1>9, UpdateShares
  <2>2. \A v \in Threads : \A a \in UpdatePlaces(trsm_p, v, k) :
            a \in 0 .. trsm_p.m - 1 /\ a \in Nat
    BY <1>6, <1>9, UpdateShares DEF UpdatePlaces
  <2>3. \A a \in SolvePlaces(k) : a \in 0 .. trsm_p.m - 1 /\ a # at
    <3>1. \A a \in SolvePlaces(k) : a \in 0 .. trsm_p.m - 1
      BY <1>6, <1>9, BlockPlaces
    <3> QED
      BY <1>6, <1>8, <1>9, <1>10, <3>1, SMT DEF SolvePlaces
  <2> QED
    BY <1>6, <2>1, <2>2, <2>3, SolveShares
<1>26. \A v \in Threads : v # t =>
        /\ Round(v)' = Round(v) /\ trsm_pc'[v] = trsm_pc[v]
        /\ \A a, j : /\ SolveDone(v, a, j, q)' <=> SolveDone(v, a, j, q)
                     /\ UpdateDone(v, a, j, q)' <=> UpdateDone(v, a, j, q)
  BY <1>8, OthersStay DEF OnlyOf
<1>27. \A v \in Threads : \A a, j : SolveDone(v, a, j, q)'
  BY <1>12, <1>14, <1>26
<1>28. ASSUME NEW a \in 0 .. k.i - 1, NEW j \in 0 .. trsm_p.n - 1
       PROVE  trsm_c'[At(trsm_p, a, j)] = Solved(trsm_p, a)
  <2>1. a \in 0 .. trsm_p.m - 1 /\ a # at
    BY <1>6, <1>8, <1>9, <1>10, SMT
  <2> QED
    BY <1>13, <1>23, <1>24, <2>1 DEF ElementsAre
<1>29. ASSUME NEW v \in Threads, NEW a \in SolvePlaces(k),
              NEW j \in Indices(SolveSlab(trsm_p, v))
       PROVE  trsm_c'[At(trsm_p, a, j)] =
                IF SolveDone(v, a, j, q)' THEN Solved(trsm_p, a)
                ELSE Partial(trsm_p, a, k.i)
  <2>1. trsm_c'[At(trsm_p, a, j)] = trsm_c[At(trsm_p, a, j)]
    BY <1>23, <1>24, <1>25
  <2>2. trsm_c[At(trsm_p, a, j)] = Solved(trsm_p, a)
    BY <1>12, <1>13 DEF ElementsAre
  <2> QED
    BY <1>27, <2>1, <2>2
<1>30. ASSUME NEW v \in Threads, NEW a \in UpdatePlaces(trsm_p, v, k),
              NEW j \in Indices(UpdateSlab(trsm_p, v))
       PROVE  trsm_c'[At(trsm_p, a, j)] =
                Partial(trsm_p, a, IF UpdateDone(v, a, j, q)' THEN k.i + k.len ELSE k.i)
  <2>1. trsm_c[At(trsm_p, a, j)] =
            Partial(trsm_p, a, IF UpdateDone(v, a, j, q) THEN k.i + k.len ELSE k.i)
    BY <1>13 DEF ElementsAre
  <2>2. a \in 0 .. trsm_p.m - 1 /\ a \in Nat /\ At(trsm_p, a, j) \in DOMAIN trsm_c
    BY <1>24, <1>25
  <2>3. CASE a = at /\ j = col
    <3>1. v = t
      BY <1>3, <1>6, <1>8, <1>9, <1>10, <2>3, UpdateShares
    <3>2. UpdateDone(t, a, j, q)'
      BY <1>3, <1>8, <1>14, <2>2, <2>3
    <3> QED
      BY <1>17, <1>22, <2>2, <2>3, <3>1, <3>2
  <2>4. CASE a # at \/ j # col
    <3>1. trsm_c'[At(trsm_p, a, j)] = trsm_c[At(trsm_p, a, j)]
      BY <1>23, <2>2, <2>4
    <3>2. UpdateDone(v, a, j, q)' <=> UpdateDone(v, a, j, q)
      BY <1>3, <1>8, <1>14, <1>26, <2>2, <2>4
    <3> QED
      BY <2>1, <3>1, <3>2
  <2> QED
    BY <2>3, <2>4
<1>31. ElementsAre(k, q)'
  BY <1>7, <1>28, <1>29, <1>30 DEF ElementsAre
<1>32. PackedAre(k, q)'
  <2>1. \A v \in Threads : Round(v)' > q \/ trsm_pc'[v] # "pack" =>
                           Round(v) > q \/ trsm_pc[v] # "pack"
    BY <1>7, <1>26
  <2>2. ASSUME NEW v \in Threads, NEW a \in SolvePlaces(k),
               NEW j \in Indices(SolveSlab(trsm_p, v)),
               Round(v)' > q \/ trsm_pc'[v] # "pack"
        PROVE  trsm_bp'[PackedAt(trsm_p, k, a, j)] =
                IF SolveDone(v, a, j, q)' THEN Solved(trsm_p, a)
                ELSE Partial(trsm_p, a, k.i)
    <3>1. trsm_bp[PackedAt(trsm_p, k, a, j)] = Solved(trsm_p, a)
      BY <1>12, <1>13, <2>1, <2>2 DEF PackedAre
    <3> QED
      BY <1>7, <1>27, <3>1
  <2> QED
    BY <1>7, <2>2 DEF PackedAre
<1> QED
  BY <1>1, <1>2, <1>8, <1>31, <1>32, StepKeeps

-----------------------------------------------------------------------------

LEMMA StartOfSolve ==
    ASSUME IrOnce, Solve!Init
    PROVE  TrsmIInv
<1> DEFINE none == [i |-> 0, off |-> 0, len |-> 0]
<1>1. /\ trsm_p \in Solves
      /\ trsm_c = [x \in (0 .. trsm_p.m - 1) \X (0 .. trsm_p.n - 1) |->
                        Solve!Term(x[1], {}, FALSE)]
      /\ DOMAIN trsm_bp = (0 .. trsm_p.kc - 1) \X (0 .. trsm_p.n - 1)
      /\ trsm_pc = [t \in Threads |-> "var3"]
      /\ trsm_calls = [t \in Threads |-> 0]
      /\ trsm_kblk = [t \in Threads |-> none]
      /\ trsm_range = [t \in Threads |-> [start |-> 0, end |-> 0]]
      /\ trsm_i = [t \in Threads |-> 0]
      /\ trsm_blk = [t \in Threads |-> [off |-> 0, len |-> 0]]
      /\ trsm_ker = [t \in Threads |-> [j |-> 0, j_end |-> 0, r |-> 0]]
  BY DEF Solve!Init, Solve!Rows, Solve!Cols, Solve!Threads, Threads, Solve!NoBlock,
         Solve!NoKer
<1>2. trsm_p.m \in Nat
  BY <1>1, TrsmParameters
<1>3. TrsmType
  BY <1>1 DEF TrsmType, TrsmPoints
<1>4. \A t \in Threads : Round(t) = 0
  <2>1. (0 + 2) \div 3 = 0
    <3>1. 0 \in Nat /\ 3 * 0 - 2 <= 0 /\ 0 <= 3 * 0
      BY SMT
    <3> QED
      BY <3>1, RoundNumber
  <2> QED
    BY <1>1, <2>1 DEF Round
<1>5. \A t \in Threads : Counted(t) /\ Together(t) /\ BlockOfRound(t) /\ InLoop(t) /\ AtTile(t)
  <2> SUFFICES ASSUME NEW t \in Threads
               PROVE  Counted(t) /\ Together(t) /\ BlockOfRound(t) /\ InLoop(t) /\ AtTile(t)
    OBVIOUS
  <2>1. Counted(t)
    BY <1>1, <1>4 DEF Counted
  <2>2. Together(t)
    BY <1>1 DEF Together
  <2>3. BlockOfRound(t)
    BY <1>1, <1>4 DEF BlockOfRound
  <2>4. InLoop(t) /\ AtTile(t)
    BY <1>1 DEF InLoop, AtTile, Solving, Updating, InKernel
  <2> QED
    BY <2>1, <2>2, <2>3, <2>4
<1>6. SameBlocks
  BY <1>1, <1>4 DEF SameBlocks
<1>7. SolvePlaces(none) = {}
  BY SMT DEF SolvePlaces
<1>8. ASSUME NEW a \in 0 .. trsm_p.m - 1, NEW j \in 0 .. trsm_p.n - 1
      PROVE  trsm_c[At(trsm_p, a, j)] = Partial(trsm_p, a, 0)
  <2>1. Flip(trsm_p, a) \in 0 .. trsm_p.m - 1
    BY <1>1, Flips
  <2>2. Early(trsm_p, 0) = {}
    <3>1. \A r \in 0 .. trsm_p.m - 1 : Flip(trsm_p, r) \in 0 .. trsm_p.m - 1
      BY <1>1, Flips
    <3>2. \A r \in 0 .. trsm_p.m - 1 : ~(Flip(trsm_p, r) < 0)
      BY <1>2, <3>1, SMT
    <3> QED
      BY <3>2 DEF Early
  <2>3. trsm_c[<<Flip(trsm_p, a), j>>] = Solve!Term(Flip(trsm_p, a), {}, FALSE)
    BY <1>1, <2>1
  <2> QED
    BY <2>2, <2>3, Zenon DEF At, Partial
<1>9. ASSUME NEW u \in Threads
      PROVE  ElementsAre(trsm_kblk[u], Round(u)) /\ PackedAre(trsm_kblk[u], Round(u))
  <2>1. trsm_kblk[u] = none /\ Round(u) = 0
    BY <1>1, <1>4
  <2>2. PackedAre(none, 0)
    BY <1>7 DEF PackedAre
  <2>3. \A t \in Threads : \A a \in UpdatePlaces(trsm_p, t, none),
                              j \in Indices(UpdateSlab(trsm_p, t)) :
            trsm_c[At(trsm_p, a, j)] =
                Partial(trsm_p, a, IF UpdateDone(t, a, j, 0) THEN none.i + none.len ELSE none.i)
    <3>1. none \in [i : Nat, off : Nat, len : Nat] /\ none.i + none.len <= trsm_p.m
      BY <1>2, SMT
    <3>2. /\ \A t \in Threads : Indices(UpdateSlab(trsm_p, t)) \subseteq 0 .. trsm_p.n - 1
          /\ \A t \in Threads : \A a \in UpdatePlaces(trsm_p, t, none) : a \in 0 .. trsm_p.m - 1
      BY <1>1, <3>1, UpdateShares DEF UpdatePlaces
    <3>3. none.i = 0 /\ none.i + none.len = 0
      BY SMT
    <3> HIDE DEF none
    <3> QED
      BY <1>8, <3>2, <3>3
  <2>4. ElementsAre(none, 0)
    <3>1. 0 .. none.i - 1 = {}
      BY SMT
    <3> HIDE DEF none
    <3> QED
      BY <1>7, <2>3, <3>1 DEF ElementsAre
  <2> QED
    BY <2>1, <2>2, <2>4
<1> QED
  BY <1>3, <1>5, <1>6, <1>9 DEF TrsmIInv

LEMMA SolveStutters ==
    ASSUME TrsmIInv, UNCHANGED trsm_vars
    PROVE  TrsmIInv'
<1>1. /\ trsm_p' = trsm_p /\ trsm_c' = trsm_c /\ trsm_bp' = trsm_bp /\ trsm_pc' = trsm_pc
      /\ trsm_calls' = trsm_calls /\ trsm_kblk' = trsm_kblk /\ trsm_range' = trsm_range
      /\ trsm_i' = trsm_i /\ trsm_blk' = trsm_blk /\ trsm_ker' = trsm_ker
  BY DEF trsm_vars
<1>2. \A v \in Threads :
        /\ Round(v)' = Round(v)
        /\ Counted(v)' /\ BlockOfRound(v)' /\ InLoop(v)' /\ AtTile(v)'
        /\ \A a, j, q : /\ SolveDone(v, a, j, q)' <=> SolveDone(v, a, j, q)
                        /\ UpdateDone(v, a, j, q)' <=> UpdateDone(v, a, j, q)
  BY <1>1, OthersStay DEF TrsmIInv
<1>3. TrsmType' /\ \A v \in Threads : Together(v)'
  BY <1>1 DEF TrsmIInv, TrsmType, Together
<1>4. SameBlocks'
  BY <1>1, <1>2 DEF TrsmIInv, SameBlocks
<1>5. ASSUME NEW u \in Threads, Last(u)'
      PROVE  ElementsAre(trsm_kblk[u], Round(u))' /\ PackedAre(trsm_kblk[u], Round(u))'
  <2>1. PICK k : k = trsm_kblk[u]
    OBVIOUS
  <2>2. PICK q : q = Round(u)
    OBVIOUS
  <2>3. Last(u)
    BY <1>2, <1>5 DEF Last
  <2>4. ElementsAre(k, q) /\ PackedAre(k, q)
    BY <2>1, <2>2, <2>3 DEF TrsmIInv
  <2>5. ElementsAre(k, q)'
    BY <1>1, <1>2, <2>4 DEF ElementsAre
  <2>6. PackedAre(k, q)'
    BY <1>1, <1>2, <2>4 DEF PackedAre
  <2>7. trsm_kblk'[u] = k /\ Round(u)' = q
    BY <1>1, <1>2, <2>1, <2>2
  <2> QED
    BY <2>5, <2>6, <2>7
<1> QED
  BY <1>2, <1>3, <1>4, <1>5 DEF TrsmIInv

LEMMA SolveStepKeeps ==
    ASSUME IrOnce, TrsmIInv, NEW t \in Threads, Solve!Step(t)
    PROVE  TrsmIInv'
BY NextKBlockStep, FinishSolveStep, PackStep, BeginSolveStep, NextSolveStep, GemmtrsmStep,
   EndSolveStep, BeginUpdateStep, NextUpdateStep, GemmSolveStep, EndUpdateStep
   DEF Solve!Step

\* An operation that is not run stays so.
LEMMA IdleStays ==
    ASSUME TrsmIdle, NEW t \in Threads
    PROVE  ~Solve!Step(t)
<1>1. trsm_pc[t] = "done"
  BY DEF TrsmIdle
<1> QED
  BY <1>1 DEF Solve!Step, Solve!NextKBlock, Solve!Finish, Solve!Pack, Solve!BeginSolve,
     Solve!NextSolve, Solve!NextUpdate, Solve!NextBlock, Solve!Gemmtrsm, Solve!EndSolve,
     Solve!BeginUpdate, Solve!Gemm, Solve!EndUpdate

\* A thread is done when no block of A's columns is left.
AtEnd ==
    \A t \in Threads : trsm_pc[t] = "done" =>
        trsm_kblk[t].i + trsm_kblk[t].len >= trsm_p.m

LEMMA EndKept ==
    ASSUME TrsmType, AtEnd, NEW t \in Threads, Solve!Step(t)
    PROVE  AtEnd'
<1>1. /\ trsm_pc \in [Threads -> TrsmPoints]
      /\ DOMAIN trsm_kblk = Threads
  BY DEF TrsmType
<1>2. trsm_p' = trsm_p
  BY DEF Solve!Step, Solve!NextKBlock, Solve!Finish, Solve!Pack, Solve!BeginSolve,
         Solve!NextSolve, Solve!NextUpdate, Solve!NextBlock, Solve!Gemmtrsm, Solve!EndSolve,
         Solve!BeginUpdate, Solve!Gemm, Solve!EndUpdate
<1>3. \/ \E point \in TrsmPoints \ {"done"} :
            trsm_pc' = [trsm_pc EXCEPT ![t] = point] /\ trsm_kblk' = trsm_kblk
      \/ trsm_pc' = trsm_pc /\ trsm_kblk' = trsm_kblk
      \/ Solve!NextKBlock(t)
      \/ Solve!Finish(t)
  BY DEF Solve!Step, Solve!Pack, Solve!BeginSolve, Solve!NextSolve, Solve!NextUpdate,
         Solve!NextBlock, Solve!Gemmtrsm, Solve!EndSolve, Solve!BeginUpdate, Solve!Gemm,
         Solve!EndUpdate, Solve!Advance, Solve!Goto, TrsmPoints
<1>4. CASE \E point \in TrsmPoints \ {"done"} :
            trsm_pc' = [trsm_pc EXCEPT ![t] = point] /\ trsm_kblk' = trsm_kblk
  BY <1>1, <1>2, <1>4 DEF AtEnd
<1>5. CASE trsm_pc' = trsm_pc /\ trsm_kblk' = trsm_kblk
  BY <1>2, <1>5 DEF AtEnd
<1>6. CASE Solve!NextKBlock(t)
  <2>1. /\ \E b : trsm_kblk' = [trsm_kblk EXCEPT ![t] = b]
        /\ trsm_pc' = [trsm_pc EXCEPT ![t] = "pack"]
    BY <1>6 DEF Solve!NextKBlock, Solve!Goto
  <2> QED
    BY <1>1, <1>2, <2>1 DEF AtEnd
<1>7. CASE Solve!Finish(t)
  <2>1. /\ trsm_kblk' = trsm_kblk /\ trsm_pc' = [trsm_pc EXCEPT ![t] = "done"]
        /\ trsm_kblk[t].i + trsm_kblk[t].len >= trsm_p.m
    BY <1>7 DEF Solve!Finish, Solve!Goto
  <2> QED
    BY <1>1, <1>2, <2>1 DEF AtEnd
<1> QED
  BY <1>3, <1>4, <1>5, <1>6, <1>7

\* What the invariant says of every element
LEMMA EveryElement ==
    ASSUME IrOnce, TrsmIInv, NEW x \in DOMAIN trsm_c
    PROVE  \E r \in 0 .. trsm_p.m - 1 : \E a, b :
                /\ x[1] = r /\ r = Flip(trsm_p, a) /\ a \in 0 .. trsm_p.m - 1
                /\ \/ trsm_c[x] = Solved(trsm_p, a)
                   \/ trsm_c[x] = Partial(trsm_p, a, b)
                /\ AtEnd /\ Solve!AllDone => trsm_c[x] = Solved(trsm_p, a)
<1>1. TrsmType /\ trsm_p \in Solves /\ trsm_p.m \in Nat /\ NT \in Nat \ {0}
  BY TrsmParameters DEF TrsmIInv, TrsmType
<1>2. PICK u \in Threads : Last(u)
  <2> DEFINE T == {Round(t) : t \in Threads}
  <2>1. 0 \in Threads
    BY <1>1, SMT DEF Threads
  <2>2. T \in SUBSET Nat /\ T # {}
    BY <1>1, <2>1, Rounds
  <2>3. PICK q \in T : \A y \in T : q <= y
    <3> HIDE DEF T
    <3> QED
      BY <2>2, LeastElement
  <2>4. PICK u \in Threads : q = Round(u)
    BY <2>3
  <2>5. \A t \in Threads : Round(t) \in T
    OBVIOUS
  <2> HIDE DEF T
  <2>6. Last(u)
    BY <2>3, <2>4, <2>5 DEF Last
  <2> QED
    BY <2>6
<1>3. PICK k : k = trsm_kblk[u]
  OBVIOUS
<1>4. PICK q : q = Round(u)
  OBVIOUS
<1>5. ElementsAre(k, q)
  BY <1>2, <1>3, <1>4 DEF TrsmIInv
<1>6. k \in [i : Nat, off : Nat, len : Nat] /\ k.i + k.len <= trsm_p.m
  BY <1>3, KBlockFacts
<1>7. PICK r \in 0 .. trsm_p.m - 1, j \in 0 .. trsm_p.n - 1 : x = <<r, j>>
  BY <1>1 DEF TrsmType
<1>8. PICK a : a = Flip(trsm_p, r)
  OBVIOUS
<1>9. a \in 0 .. trsm_p.m - 1 /\ Flip(trsm_p, a) = r /\ x = At(trsm_p, a, j)
  BY <1>1, <1>7, <1>8, Flips DEF At
<1>10. \/ trsm_c[x] = Solved(trsm_p, a)
       \/ \E b : trsm_c[x] = Partial(trsm_p, a, b)
  <2>1. CASE a \in 0 .. k.i - 1
    BY <1>5, <1>9, <2>1 DEF ElementsAre
  <2>2. CASE a \in SolvePlaces(k)
    <3>1. PICK t \in Threads : j \in Indices(SolveSlab(trsm_p, t))
      BY <1>1, SolveShares
    <3>2. trsm_c[x] = IF SolveDone(t, a, j, q) THEN Solved(trsm_p, a)
                      ELSE Partial(trsm_p, a, k.i)
      BY <1>5, <1>9, <2>2, <3>1 DEF ElementsAre
    <3> QED
      BY <3>2
  <2>3. CASE a \in k.i + k.len .. trsm_p.m - 1
    <3>1. PICK t \in Threads :
            a \in UpdatePlaces(trsm_p, t, k) /\ j \in Indices(UpdateSlab(trsm_p, t))
      BY <1>1, <1>6, <2>3, UpdateShares
    <3>2. trsm_c[x] =
            Partial(trsm_p, a, IF UpdateDone(t, a, j, q) THEN k.i + k.len ELSE k.i)
      BY <1>5, <1>9, <3>1 DEF ElementsAre
    <3> QED
      BY <3>2
  <2>4. \/ a \in 0 .. k.i - 1 \/ a \in k.i .. k.i + k.len - 1
        \/ a \in k.i + k.len .. trsm_p.m - 1
    BY <1>1, <1>6, <1>9, SMT
  <2> QED
    BY <2>1, <2>2, <2>3, <2>4 DEF SolvePlaces
<1>11. ASSUME AtEnd, Solve!AllDone PROVE trsm_c[x] = Solved(trsm_p, a)
  <2>1. \A t \in Threads : trsm_pc[t] = "done"
    BY <1>11 DEF Solve!AllDone, Solve!Threads, Threads
  <2>2. k.i + k.len >= trsm_p.m
    BY <1>3, <1>11, <2>1 DEF AtEnd
  <2>3. a \in 0 .. k.i - 1 \/ a \in SolvePlaces(k)
    BY <1>1, <1>6, <1>9, <2>2, SMT DEF SolvePlaces
  <2>4. CASE a \in 0 .. k.i - 1
    BY <1>5, <1>9, <2>4 DEF ElementsAre
  <2>5. CASE a \in SolvePlaces(k)
    <3>1. PICK t \in Threads : j \in Indices(SolveSlab(trsm_p, t))
      BY <1>1, SolveShares
    <3>2. SolveDone(t, a, j, q)
      BY <2>1, DoneAt
    <3> QED
      BY <1>5, <1>9, <2>5, <3>1, <3>2 DEF ElementsAre
  <2> QED
    BY <2>3, <2>4, <2>5
<1> QED
  BY <1>7, <1>9, <1>10, <1>11

LEMMA ElementNotGarbled ==
    ASSUME IrOnce, TrsmIInv, NEW x \in DOMAIN trsm_c
    PROVE  trsm_c[x] # Solve!Garbled
<1>1. trsm_p.m \in Nat
  BY TrsmParameters DEF TrsmIInv, TrsmType
<1>2. PICK r \in 0 .. trsm_p.m - 1 : \E a, b :
        /\ r = Flip(trsm_p, a)
        /\ trsm_c[x] = Solved(trsm_p, a) \/ trsm_c[x] = Partial(trsm_p, a, b)
  BY EveryElement
<1>3. trsm_c[x].row = r
  BY <1>2 DEF Solved, Partial, Solve!Term
<1>4. Solve!Garbled.row = -1
  BY DEF Solve!Garbled, Solve!Term
<1>5. r # -1
  BY <1>1, SMT
<1> QED
  BY <1>3, <1>4, <1>5

LEMMA ElementAtEnd ==
    ASSUME IrOnce, TrsmIInv, AtEnd, Solve!AllDone, NEW x \in DOMAIN trsm_c
    PROVE  trsm_c[x] = Solve!Solution(x[1])
<1>1. trsm_p \in Solves
  BY DEF TrsmIInv, TrsmType
<1>2. PICK r, a : /\ x[1] = r /\ r = Flip(trsm_p, a) /\ a \in 0 .. trsm_p.m - 1
                  /\ trsm_c[x] = Solved(trsm_p, a)
  BY EveryElement
<1>3. Solve!Solution(Flip(trsm_p, a)) = Solved(trsm_p, a)
  BY <1>1, <1>2, SolutionAt
<1> QED
  BY <1>2, <1>3

LEMMA SolveInvariance ==
    ASSUME IrOnce
    PROVE  MCSpec => [](TrsmIdle \/ (TrsmIInv /\ AtEnd))
<1> DEFINE Inv == TrsmIdle \/ (TrsmIInv /\ AtEnd)
<1>1. MCInit => Inv
  <2>1. Solve!Init => AtEnd
    BY DEF Solve!Init, Solve!Threads, Threads, AtEnd
  <2> QED
    BY <2>1, StartOfSolve DEF MCInit
<1>2. Inv /\ [MCNext]_MCvars => Inv'
  <2> SUFFICES ASSUME Inv, [MCNext]_MCvars PROVE Inv'
    OBVIOUS
  <2>1. CASE UNCHANGED trsm_vars
    <3>1. TrsmIdle => TrsmIdle'
      BY <2>1 DEF TrsmIdle, trsm_vars
    <3>2. AtEnd => AtEnd'
      BY <2>1 DEF AtEnd, trsm_vars
    <3> QED
      BY <2>1, <3>1, <3>2, SolveStutters
  <2>2. ASSUME NEW t \in Threads, Solve!Step(t) PROVE Inv'
    <3>1. TrsmIInv /\ AtEnd
      BY <2>2, IdleStays
    <3>2. AtEnd'
      BY <2>2, <3>1, EndKept DEF TrsmIInv
    <3> QED
      BY <2>2, <3>1, <3>2, SolveStepKeeps
  <2>3. UNCHANGED trsm_vars \/ \E t \in Threads : Solve!Step(t)
    BY DEF MCNext, SomeStep, MCStep, MCTerminated, MCvars
  <2> QED
    BY <2>1, <2>2, <2>3
<1> QED
  BY <1>1, <1>2, PTL DEF MCSpec

\* No microtile of a trsm is solved too early, twice, or updated with rows
\* that are not solved: the three barriers of a block of KC and the ways of
\* the loops keep the threads apart (bli_trsm_blk_var1, bli_trsm_blk_var3),
\* whatever the sizes, the blocksizes, the ways of the other loops and the
\* order the threads run in, if the first loop has one way.
THEOREM NoneGarbled ==
    ASSUME IrOnce
    PROVE  MCSpec => []SolvesNeverGarbled
<1>1. TrsmIdle \/ (TrsmIInv /\ AtEnd) => SolvesNeverGarbled
  <2>1. ASSUME TrsmIdle PROVE SolvesNeverGarbled
    <3>1. DOMAIN trsm_c = {}
      BY <2>1 DEF TrsmIdle
    <3> QED
      BY <3>1 DEF SolvesNeverGarbled, Solve!NeverGarbled
  <2>2. ASSUME TrsmIInv PROVE SolvesNeverGarbled
    BY <2>2, ElementNotGarbled DEF SolvesNeverGarbled, Solve!NeverGarbled
  <2> QED
    BY <2>1, <2>2
<1>2. MCSpec => [](TrsmIdle \/ (TrsmIInv /\ AtEnd))
  BY SolveInvariance
<1> QED
  BY <1>1, <1>2, PTL

\* When the threads are done, every element of B is the solution: what
\* bli_trsm_blk_var3 computes does not depend on the sizes, the blocksizes,
\* the ways and the order the threads run in, if the first loop has one way.
THEOREM SolutionAtEnd ==
    ASSUME IrOnce
    PROVE  MCSpec => [](Solve!AllDone =>
                            \A x \in DOMAIN trsm_c : trsm_c[x] = Solve!Solution(x[1]))
<1>1. TrsmIdle \/ (TrsmIInv /\ AtEnd) =>
        (Solve!AllDone => \A x \in DOMAIN trsm_c : trsm_c[x] = Solve!Solution(x[1]))
  <2>1. TrsmIdle => DOMAIN trsm_c = {}
    BY DEF TrsmIdle
  <2> QED
    BY <2>1, ElementAtEnd
<1>2. MCSpec => [](TrsmIdle \/ (TrsmIInv /\ AtEnd))
  BY SolveInvariance
<1> QED
  BY <1>1, <1>2, PTL
=============================================================================
