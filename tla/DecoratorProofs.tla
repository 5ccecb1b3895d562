--------------------------- MODULE DecoratorProofs ---------------------------
(***************************************************************************)
(* Theorems about Decorator, and about the factorization of Rntm that it   *)
(* depends on, for any application: any finite number of threads, any      *)
(* settings and sizes, and any number of operations.                       *)
(***************************************************************************)
EXTENDS Decorator, FiniteSetTheorems, SequenceTheorems, WellFoundedInduction, TLAPS

\* Every nonempty set of natural numbers has a least element.
LEMMA LeastElement ==
    ASSUME NEW T \in SUBSET Nat, T # {}
    PROVE  \E x \in T : \A y \in T : x <= y
<1>1. PICK x \in T : \A y \in T : ~ (<<y, x>> \in OpToRel(<, Nat))
  BY WFMin, NatLessThanWellFounded, Zenon
<1>2. \A y \in T : ~ (y < x)
  BY <1>1, Zenon DEF OpToRel
<1> QED
  BY <1>2, SMT

\* A recursion that goes from each element to a smaller one, unless it stops
\* there, defines a function.
LEMMA RecursionExists ==
    ASSUME NEW S, NEW size \in [S -> Nat], NEW next \in [S -> S], NEW stop \in SUBSET S,
           \A s \in S \ stop : size[next[s]] < size[s]
    PROVE  \E f : f = [s \in S |-> IF s \in stop THEN s ELSE f[next[s]]]
<1> DEFINE Equation(f, s) == f[s] = IF s \in stop THEN s ELSE f[next[s]]
           Good(f, b) == \A s \in S : size[s] < b => Equation(f, s)
<1>1. \A b \in Nat : \E f \in [S -> S] : Good(f, b)
  <2> DEFINE bad == {b \in Nat : \A f \in [S -> S] : ~Good(f, b)}
  <2> SUFFICES ASSUME bad # {} PROVE FALSE
    OBVIOUS
  <2>1. PICK b \in bad : \A c \in bad : b <= c
    <3>1. bad \in SUBSET Nat
      OBVIOUS
    <3> HIDE DEF bad
    <3> QED
      BY <3>1, LeastElement
  <2>2. b # 0
    <3>1. [s \in S |-> s] \in [S -> S]
      OBVIOUS
    <3>2. Good([s \in S |-> s], 0)
      <4>1. ASSUME NEW s \in S PROVE ~(size[s] < 0)
        <5>1. size[s] \in Nat
          OBVIOUS
        <5> QED
          BY <5>1, SMT
      <4> QED
        BY <4>1
    <3> QED
      BY <3>1, <3>2, <2>1
  <2>3. b - 1 \in Nat /\ b - 1 \notin bad
    <3>1. b \in Nat /\ bad \in SUBSET Nat
      BY <2>1
    <3> HIDE DEF bad
    <3> QED
      BY <2>1, <2>2, <3>1, SMT
  <2>4. PICK f \in [S -> S] : Good(f, b - 1)
    BY <2>3
  <2> DEFINE g == [s \in S |-> IF size[s] < b - 1 THEN f[s]
                               ELSE IF s \in stop THEN s ELSE f[next[s]]]
  <2>5. g \in [S -> S]
    BY SMT
  <2>6. ASSUME NEW s \in S, size[s] < b
        PROVE  Equation(g, s)
    <3>1. s \notin stop => next[s] \in S /\ size[next[s]] < size[s]
      OBVIOUS
    <3>2. size[s] \in Nat /\ (s \notin stop => size[next[s]] \in Nat)
      OBVIOUS
    <3>3. s \notin stop => g[next[s]] = f[next[s]]
      BY <2>3, <2>6, <3>1, <3>2, SMT
    <3>4. g[s] = IF s \in stop THEN s ELSE f[next[s]]
      BY <2>4
    <3> QED
      BY <3>3, <3>4
  <2>7. Good(g, b)
    BY <2>6
  <2> QED
    BY <2>1, <2>5, <2>7
<1>2. ASSUME NEW b \in Nat, NEW f \in [S -> S], NEW g \in [S -> S], Good(f, b), Good(g, b),
             NEW s \in S, size[s] < b
      PROVE  f[s] = g[s]
  <2> DEFINE differ == {n \in Nat : n < b /\ \E u \in S : size[u] = n /\ f[u] # g[u]}
  <2>1. CASE differ # {}
    <3>1. PICK n \in differ : \A c \in differ : n <= c
      <4>1. differ \in SUBSET Nat
        OBVIOUS
      <4> HIDE DEF differ
      <4> QED
        BY <2>1, <4>1, LeastElement
    <3>2. PICK u \in S : size[u] = n /\ f[u] # g[u] /\ n < b
      BY <3>1
    <3>3. Equation(f, u) /\ Equation(g, u)
      BY <1>2, <3>2
    <3>4. u \notin stop
      BY <3>2, <3>3
    <3>5. f[next[u]] # g[next[u]] /\ next[u] \in S
      BY <3>2, <3>3, <3>4
    <3>6. size[next[u]] \in Nat /\ size[next[u]] < n
      BY <3>2, <3>4, <3>5
    <3>7. size[next[u]] \in differ
      BY <3>2, <3>5, <3>6, SMT
    <3> QED
      BY <3>1, <3>6, <3>7, SMT
  <2>2. CASE differ = {}
    BY <1>2, <2>2
  <2> QED
    BY <2>1, <2>2
<1> DEFINE of(b) == CHOOSE f \in [S -> S] : Good(f, b)
           F == [s \in S |-> of(size[s] + 1)[s]]
<1>3. ASSUME NEW b \in Nat PROVE of(b) \in [S -> S] /\ Good(of(b), b)
  <2> HIDE DEF Good
  <2> QED
    BY <1>1
<1>4. ASSUME NEW s \in S
      PROVE  F[s] = IF s \in stop THEN s ELSE F[next[s]]
  <2> DEFINE f == of(size[s] + 1)
  <2>1. size[s] \in Nat /\ size[s] + 1 \in Nat /\ size[s] < size[s] + 1
    BY SMT
  <2>2. f \in [S -> S] /\ Good(f, size[s] + 1)
    BY <1>3, <2>1
  <2>3. F[s] = f[s]
    OBVIOUS
  <2>4. Equation(f, s)
    BY <2>1, <2>2
  <2>5. CASE s \in stop
    BY <2>3, <2>4, <2>5
  <2>6. CASE s \notin stop
    <3> DEFINE u == next[s]
               h == of(size[u] + 1)
    <3>1. u \in S /\ size[u] \in Nat /\ size[u] < size[s] /\ size[u] + 1 \in Nat
      BY <2>6, SMT
    <3>2. h \in [S -> S] /\ Good(h, size[u] + 1)
      BY <1>3, <3>1
    <3>3. Good(f, size[u] + 1)
      BY <2>1, <2>2, <3>1, SMT
    <3>4. size[u] < size[u] + 1
      BY <3>1, SMT
    <3>5. f[u] = h[u]
      <4> HIDE DEF f, h, u, of
      <4> QED
        BY <1>2, <2>2, <3>1, <3>2, <3>3, <3>4
    <3>6. F[u] = h[u]
      BY <3>1
    <3> QED
      BY <2>3, <2>4, <2>6, <3>5, <3>6
  <2> QED
    BY <2>5, <2>6
<1>5. F = [s \in S |-> IF s \in stop THEN s ELSE F[next[s]]]
  <2> DEFINE G == [s \in S |-> IF s \in stop THEN s ELSE F[next[s]]]
  <2>1. DOMAIN F = S /\ DOMAIN G = S /\ \A s \in S : F[s] = G[s]
    <3>1. \A s \in S : G[s] = IF s \in stop THEN s ELSE F[next[s]]
      BY Zenon
    <3>2. DOMAIN F = S /\ DOMAIN G = S
      OBVIOUS
    <3> HIDE DEF F, G
    <3> QED
      BY <1>4, <3>1, <3>2
  <2> QED
    BY <2>1, Zenon
<1> QED
  BY <1>5

-----------------------------------------------------------------------------

LEMMA Product ==
    ASSUME NEW x \in Nat \ {0}, NEW y \in Nat \ {0}
    PROVE  x * y \in Nat \ {0}
  BY SMT

\* A factor of a number, and what is left.
LEMMA Exact ==
    ASSUME NEW n \in Nat \ {0}, NEW d \in Nat \ {0}, n % d = 0
    PROVE  /\ n \div d \in Nat \ {0} /\ d * (n \div d) = n
           /\ d > 1 => n \div d < n
<1>1. n \div d \in Nat /\ d * (n \div d) = n
  BY SMT
<1>2. n \div d # 0
  BY <1>1, SMT
<1>3. d > 1 => n \div d < n
  BY <1>1, <1>2, SMT
<1> QED
  BY <1>1, <1>2, <1>3

LEMMA SqrtType == ASSUME NEW n \in Nat PROVE Sqrt(n) \in Nat
<1> DEFINE above == {s \in Nat : n < (s + 1) * (s + 1)}
<1>1. n \in above
  BY SMT
<1>2. PICK s \in above : \A u \in above : s <= u
  <2>1. above \in SUBSET Nat
    OBVIOUS
  <2> HIDE DEF above
  <2> QED
    BY <1>1, <2>1, LeastElement
<1>3. s * s <= n
  <2>1. CASE s = 0
    BY <2>1, SMT
  <2>2. CASE s # 0
    <3>1. s - 1 \in Nat /\ s - 1 \notin above
      BY <1>2, <2>2, SMT
    <3> QED
      BY <3>1, SMT
  <2> QED
    BY <2>1, <2>2
<1>4. s \in 0 .. n
  <2>1. s <= s * s
    BY SMT
  <2> QED
    BY <1>2, <1>3, <2>1, SMT
<1>5. \E u \in 0 .. n : u * u <= n /\ n < (u + 1) * (u + 1)
  BY <1>2, <1>3, <1>4
<1>6. Sqrt(n) \in 0 .. n
  BY <1>5 DEF Sqrt
<1> QED
  BY <1>6

\* bli_next_prime_factor returns a factor, and 1 only if nothing is left.
LEMMA NextPrimeFactorDivides ==
    ASSUME NEW left \in Nat \ {0}, NEW sqrt \in Nat
    PROVE  /\ NextPrimeFactor(left, sqrt) \in Nat \ {0}
           /\ left % NextPrimeFactor(left, sqrt) = 0
           /\ NextPrimeFactor(left, sqrt) = 1 => left = 1
<1> DEFINE divides == {f \in 2 .. sqrt : left % f = 0}
<1>1. CASE divides = {}
  <2>1. NextPrimeFactor(left, sqrt) = left
    BY <1>1 DEF NextPrimeFactor
  <2>2. left % left = 0
    BY SMT
  <2> QED
    BY <2>1, <2>2
<1>2. CASE divides # {}
  <2>1. \E f \in divides : \A g \in divides : f <= g
    <3>1. divides \in SUBSET Nat
      BY SMT
    <3> HIDE DEF divides
    <3> QED
      BY <1>2, <3>1, LeastElement
  <2>2. NextPrimeFactor(left, sqrt) = CHOOSE f \in divides : \A g \in divides : f <= g
    BY <1>2 DEF NextPrimeFactor
  <2>3. NextPrimeFactor(left, sqrt) \in divides
    <3> HIDE DEF divides
    <3> QED
      BY <2>1, <2>2
  <2> QED
    BY <2>3, SMT
<1> QED
  BY <1>1, <1>2

\* A step of the loop keeps the product of what is left and of what the two
\* sides have.
LEMMA AssignFactorKeeps ==
    ASSUME NEW p \in Assignments, NextFactor(p) # 1
    PROVE  /\ AssignFactor(p) \in Assignments /\ AssignFactor(p).left < p.left
           /\ AssignFactor(p).left * (AssignFactor(p).nt1 * AssignFactor(p).nt2)
                 = p.left * (p.nt1 * p.nt2)
<1> DEFINE f == NextFactor(p)
           rest == p.left \div f
<1>1. /\ p.left \in Nat \ {0} /\ p.sqrt \in Nat /\ p.w1 \in Nat /\ p.w2 \in Nat
      /\ p.nt1 \in Nat \ {0} /\ p.nt2 \in Nat \ {0}
  BY DEF Assignments
<1>2. f \in Nat \ {0} /\ f > 1 /\ p.left % f = 0
  <2>1. f \in Nat \ {0} /\ p.left % f = 0
    BY <1>1, NextPrimeFactorDivides DEF NextFactor
  <2>2. f # 1
    OBVIOUS
  <2> HIDE DEF f
  <2> QED
    BY <2>1, <2>2, SMT
<1>3. rest \in Nat \ {0} /\ f * rest = p.left /\ rest < p.left
  BY <1>1, <1>2, Exact
<1>4. /\ p.w1 \div f \in Nat /\ p.w2 \div f \in Nat
      /\ p.nt1 * f \in Nat \ {0} /\ p.nt2 * f \in Nat \ {0}
  <2> HIDE DEF f
  <2>1. p.w1 \div f \in Nat /\ p.w2 \div f \in Nat
    BY <1>1, <1>2, SMT
  <2> QED
    BY <1>1, <1>2, <2>1, Product
<1>5. /\ rest * ((p.nt1 * f) * p.nt2) = (f * rest) * (p.nt1 * p.nt2)
      /\ rest * (p.nt1 * (p.nt2 * f)) = (f * rest) * (p.nt1 * p.nt2)
  <2>1. ASSUME NEW a \in Nat, NEW b \in Nat, NEW c \in Nat, NEW d \in Nat
        PROVE  /\ a * ((b * d) * c) = (d * a) * (b * c)
               /\ a * (b * (c * d)) = (d * a) * (b * c)
    BY SMT
  <2> HIDE DEF f, rest
  <2> QED
    BY <1>1, <1>2, <1>3, <2>1
<1>6. AssignFactor(p) =
        IF p.w1 > p.w2
          THEN [p EXCEPT !.left = rest, !.w1 = p.w1 \div f, !.nt1 = p.nt1 * f]
          ELSE [p EXCEPT !.left = rest, !.w2 = p.w2 \div f, !.nt2 = p.nt2 * f]
  BY DEF AssignFactor
<1> HIDE DEF f, rest
<1> QED
  BY <1>1, <1>3, <1>4, <1>5, <1>6 DEF Assignments

\* The loop ends, and the two sides have multiplied to the number of threads.
LEMMA AssignedRecursion ==
    \A p \in Assignments :
        Assigned[p] = IF NextFactor(p) = 1 THEN p ELSE Assigned[AssignFactor(p)]
<1> DEFINE size == [p \in Assignments |-> p.left]
           stop == {p \in Assignments : NextFactor(p) = 1}
           next == [p \in Assignments |-> IF p \in stop THEN p ELSE AssignFactor(p)]
<1>1. size \in [Assignments -> Nat]
  BY DEF Assignments
<1>2. next \in [Assignments -> Assignments]
  BY AssignFactorKeeps
<1>3. \A p \in Assignments \ stop : size[next[p]] < size[p]
  BY AssignFactorKeeps
<1>4. \E f : f = [p \in Assignments |-> IF p \in stop THEN p ELSE f[next[p]]]
  <2> HIDE DEF size, stop, next
  <2>1. stop \in SUBSET Assignments
    BY DEF stop
  <2> QED
    BY <1>1, <1>2, <1>3, <2>1, RecursionExists
<1>5. PICK f : f = [p \in Assignments |-> IF p \in stop THEN p ELSE f[next[p]]]
  BY <1>4
<1>6. f = [p \in Assignments |-> IF NextFactor(p) = 1 THEN p ELSE f[AssignFactor(p)]]
  <2>1. \A p \in Assignments : (IF p \in stop THEN p ELSE f[next[p]])
                                  = (IF NextFactor(p) = 1 THEN p ELSE f[AssignFactor(p)])
    OBVIOUS
  <2> HIDE DEF next, stop
  <2> QED
    BY <1>5, <2>1
<1>7. Assigned = [p \in Assignments |->
                    IF NextFactor(p) = 1 THEN p ELSE Assigned[AssignFactor(p)]]
  BY <1>6, Zenon DEF Assigned
<1> QED
  BY <1>7, Zenon

LEMMA AssignedMultiplies ==
    ASSUME NEW p \in Assignments
    PROVE  /\ Assigned[p] \in Assignments
           /\ Assigned[p].nt1 * Assigned[p].nt2 = p.left * (p.nt1 * p.nt2)
<1> DEFINE Right(q) == /\ Assigned[q] \in Assignments
                       /\ Assigned[q].nt1 * Assigned[q].nt2 = q.left * (q.nt1 * q.nt2)
           wrong == {n \in Nat : \E q \in Assignments : q.left = n /\ ~Right(q)}
<1>1. CASE wrong # {}
  <2>1. PICK n \in wrong : \A c \in wrong : n <= c
    <3>1. wrong \in SUBSET Nat
      OBVIOUS
    <3> HIDE DEF wrong
    <3> QED
      BY <1>1, <3>1, LeastElement
  <2>2. PICK q \in Assignments : q.left = n /\ ~Right(q)
    BY <2>1
  <2>3. CASE NextFactor(q) = 1
    <3>1. Assigned[q] = q
      BY <2>3, AssignedRecursion
    <3>2. /\ q.left \in Nat \ {0} /\ q.sqrt \in Nat
          /\ q.nt1 \in Nat \ {0} /\ q.nt2 \in Nat \ {0}
      BY DEF Assignments
    <3>3. q.left = 1
      BY <2>3, <3>2, NextPrimeFactorDivides DEF NextFactor
    <3>4. q.nt1 * q.nt2 \in Nat
      BY <3>2, Product
    <3>5. q.nt1 * q.nt2 = q.left * (q.nt1 * q.nt2)
      BY <3>3, <3>4
    <3> QED
      BY <2>2, <3>1, <3>5
  <2>4. CASE NextFactor(q) # 1
    <3> DEFINE r == AssignFactor(q)
    <3>1. /\ r \in Assignments /\ r.left < n
          /\ r.left * (r.nt1 * r.nt2) = q.left * (q.nt1 * q.nt2)
      BY <2>2, <2>4, AssignFactorKeeps
    <3>2. Assigned[q] = Assigned[r]
      BY <2>4, AssignedRecursion
    <3>3. ~Right(r)
      <4> HIDE DEF r
      <4> QED
        BY <2>2, <3>1, <3>2
    <3>4. r.left \in Nat
      BY <3>1 DEF Assignments
    <3>5. r.left \in wrong
      <4> HIDE DEF r
      <4> QED
        BY <3>1, <3>3, <3>4
    <3>6. n \in Nat
      BY <2>1
    <3> HIDE DEF wrong, r
    <3> QED
      BY <2>1, <3>1, <3>4, <3>5, <3>6, SMT
  <2> QED
    BY <2>3, <2>4
<1>2. CASE wrong = {}
  <2>1. p.left \in Nat
    BY DEF Assignments
  <2> QED
    BY <1>2, <2>1
<1> QED
  BY <1>1, <1>2

LEMMA HalfAndDouble ==
    ASSUME NEW x \in Nat \ {0}, NEW y \in Nat \ {0}, y % 2 = 0
    PROVE  /\ x * 2 \in Nat \ {0} /\ y \div 2 \in Nat \ {0}
           /\ (x * 2) * (y \div 2) = x * y /\ (y \div 2) * (x * 2) = y * x
<1>1. y \div 2 \in Nat \ {0} /\ 2 * (y \div 2) = y
  BY Exact
<1>2. ASSUME NEW h \in Nat, 2 * h = y
      PROVE  (x * 2) * h = x * y /\ h * (x * 2) = y * x
  <2>1. (x * 2) * h = x * (2 * h) /\ h * (x * 2) = (2 * h) * x
    BY SMT
  <2> QED
    BY <1>2, <2>1
<1>3. x * 2 \in Nat \ {0}
  BY SMT
<1> QED
  BY <1>1, <1>2, <1>3

\* bli_thread_partition_2x2: the two sides multiply to the number of threads.
LEMMA PartitionMultiplies ==
    ASSUME NEW n \in Nat \ {0}, NEW w1 \in Nat, NEW w2 \in Nat
    PROVE  /\ Partition2x2(n, w1, w2).nt1 \in Nat \ {0}
           /\ Partition2x2(n, w1, w2).nt2 \in Nat \ {0}
           /\ Partition2x2(n, w1, w2).nt1 * Partition2x2(n, w1, w2).nt2 = n
<1>1. CASE n < 4
  <2>1. Partition2x2(n, w1, w2)
          = [w1 |-> w1, w2 |-> w2, nt1 |-> IF w1 >= w2 THEN n ELSE 1,
             nt2 |-> IF w1 < w2 THEN n ELSE 1]
    BY <1>1 DEF Partition2x2
  <2>2. w1 >= w2 <=> ~(w1 < w2)
    OBVIOUS
  <2> QED
    BY <2>1, <2>2
<1>2. CASE ~(n < 4)
  <2> DEFINE p == AssignFactors(n, w1, w2)
  <2>1. p \in Assignments /\ p.nt1 * p.nt2 = n
    <3> DEFINE q == [left |-> n, sqrt |-> Sqrt(n), w1 |-> w1, w2 |-> w2, nt1 |-> 1, nt2 |-> 1]
    <3>1. q \in Assignments /\ q.left * (q.nt1 * q.nt2) = n
      BY SqrtType DEF Assignments
    <3>2. p = Assigned[q]
      BY DEF AssignFactors
    <3> HIDE DEF p, q
    <3> QED
      BY <3>1, <3>2, AssignedMultiplies
  <2>2. Partition2x2(n, w1, w2) = Rebalanced(p)
    BY <1>2 DEF Partition2x2
  <2>3. p.nt1 \in Nat \ {0} /\ p.nt2 \in Nat \ {0}
    BY <2>1 DEF Assignments
  <2> HIDE DEF p
  <2> DEFINE q == Rebalanced(p)
  <2>4. \/ q = p
        \/ p.nt2 % 2 = 0 /\ q = [p EXCEPT !.nt1 = p.nt1 * 2, !.nt2 = p.nt2 \div 2]
        \/ p.nt1 % 2 = 0 /\ q = [p EXCEPT !.nt1 = p.nt1 \div 2, !.nt2 = p.nt2 * 2]
    BY DEF Rebalanced
  <2>5. \/ q.nt1 = p.nt1 /\ q.nt2 = p.nt2
        \/ p.nt2 % 2 = 0 /\ q.nt1 = p.nt1 * 2 /\ q.nt2 = p.nt2 \div 2
        \/ p.nt1 % 2 = 0 /\ q.nt1 = p.nt1 \div 2 /\ q.nt2 = p.nt2 * 2
    BY <2>1, <2>4 DEF Assignments
  <2> HIDE DEF q
  <2>6. CASE q.nt1 = p.nt1 /\ q.nt2 = p.nt2
    BY <2>1, <2>2, <2>3, <2>6 DEF q
  <2>7. CASE p.nt2 % 2 = 0 /\ q.nt1 = p.nt1 * 2 /\ q.nt2 = p.nt2 \div 2
    BY <2>1, <2>2, <2>3, <2>7, HalfAndDouble DEF q
  <2>8. CASE p.nt1 % 2 = 0 /\ q.nt1 = p.nt1 \div 2 /\ q.nt2 = p.nt2 * 2
    BY <2>1, <2>2, <2>3, <2>8, HalfAndDouble DEF q
  <2> QED
    BY <2>5, <2>6, <2>7, <2>8
<1> QED
  BY <1>1, <1>2

LEMMA LargestDivisorDivides ==
    ASSUME NEW n \in Nat \ {0}, NEW max \in Nat \ {0}
    PROVE  LargestDivisor(n, max) \in Nat \ {0} /\ n % LargestDivisor(n, max) = 0
<1> DEFINE over == {o \in Nat : o < max /\ n % (max - o) = 0}
<1>1. max - 1 \in over
  BY SMT
<1>2. PICK o \in over : \A c \in over : o <= c
  <2>1. over \in SUBSET Nat
    OBVIOUS
  <2> HIDE DEF over
  <2> QED
    BY <1>1, <2>1, LeastElement
<1>3. o \in Nat /\ o < max /\ n % (max - o) = 0 /\ max - o \in 1 .. max
  BY <1>2, SMT
<1>4. ASSUME NEW e \in max - o + 1 .. max PROVE n % e # 0
  <2>1. max - e \in Nat /\ max - e < max /\ max - e < o /\ max - (max - e) = e
    BY <1>3, SMT
  <2>2. max - e \notin over
    <3>1. \A c \in over : o <= c
      BY <1>2
    <3> HIDE DEF over
    <3> QED
      BY <1>3, <2>1, <3>1, SMT
  <2> QED
    BY <2>1, <2>2
<1>5. \E d \in 1 .. max : n % d = 0 /\ \A e \in d + 1 .. max : n % e # 0
  BY <1>3, <1>4
<1>6. LargestDivisor(n, max) \in 1 .. max /\ n % LargestDivisor(n, max) = 0
  BY <1>5 DEF LargestDivisor
<1> QED
  BY <1>6

-----------------------------------------------------------------------------

Positive(r) ==
    /\ r \in RntmType
    /\ r.nt \in Nat \ {0} /\ r.jc \in Nat \ {0} /\ r.ic \in Nat \ {0}
    /\ r.jr \in Nat \ {0} /\ r.ir \in Nat \ {0}

\* A rntm_t that is ready to be factored: without auto-factorization the ways
\* multiply to the number of threads.
Requested(r) == Positive(r) /\ (~r.af => CalcNumThreads(r) = r.nt)

\* A rntm_t that has been factored.
Settled(r) == Positive(r) /\ CalcNumThreads(r) = r.nt

LEMMA CalcType ==
    ASSUME NEW r, Positive(r)
    PROVE  CalcNumThreads(r) \in Nat \ {0}
<1>1. r.jc * r.ic \in Nat \ {0}
  BY Product DEF Positive
<1>2. r.jc * r.ic * r.jr \in Nat \ {0}
  BY <1>1, Product DEF Positive
<1>3. r.jc * r.ic * r.jr * r.ir \in Nat \ {0}
  BY <1>2, Product DEF Positive
<1> QED
  BY <1>3 DEF CalcNumThreads

LEMMA WithWaysType ==
    ASSUME NEW r \in RntmType,
           NEW jc \in Int, NEW ic \in Int, NEW jr \in Int, NEW ir \in Int
    PROVE  /\ WithWays(r, jc, ic, jr, ir) \in RntmType
           /\ WithWays(r, jc, ic, jr, ir).jc = jc /\ WithWays(r, jc, ic, jr, ir).ic = ic
           /\ WithWays(r, jc, ic, jr, ir).jr = jr /\ WithWays(r, jc, ic, jr, ir).ir = ir
           /\ WithWays(r, jc, ic, jr, ir).ti = r.ti
<1>1. WithWays(r, jc, ic, jr, ir) \in RntmType
  BY DEF WithWays, RntmType
<1>2. /\ WithWays(r, jc, ic, jr, ir).jc = jc /\ WithWays(r, jc, ic, jr, ir).ic = ic
      /\ WithWays(r, jc, ic, jr, ir).jr = jr /\ WithWays(r, jc, ic, jr, ir).ir = ir
      /\ WithWays(r, jc, ic, jr, ir).ti = r.ti
  BY DEF WithWays, RntmType
<1> QED
  BY <1>1, <1>2

LEMMA WithNtType ==
    ASSUME NEW r \in RntmType, NEW nt \in Int
    PROVE  /\ [r EXCEPT !.nt = nt] \in RntmType /\ [r EXCEPT !.nt = nt].nt = nt
           /\ [r EXCEPT !.nt = nt].ti = r.ti
           /\ [r EXCEPT !.nt = nt].jc = r.jc /\ [r EXCEPT !.nt = nt].ic = r.ic
           /\ [r EXCEPT !.nt = nt].jr = r.jr /\ [r EXCEPT !.nt = nt].ir = r.ir
<1>1. [r EXCEPT !.nt = nt] \in RntmType
  BY DEF RntmType
<1>2. /\ [r EXCEPT !.nt = nt].nt = nt /\ [r EXCEPT !.nt = nt].ti = r.ti
      /\ [r EXCEPT !.nt = nt].jc = r.jc /\ [r EXCEPT !.nt = nt].ic = r.ic
      /\ [r EXCEPT !.nt = nt].jr = r.jr /\ [r EXCEPT !.nt = nt].ir = r.ir
  BY DEF RntmType
<1> QED
  BY <1>1, <1>2

LEMMA WithAfType ==
    ASSUME NEW r \in RntmType, NEW nt \in Int, NEW s,
           s \in {[r EXCEPT !.nt = nt, !.af = TRUE], [r EXCEPT !.nt = nt, !.af = FALSE]}
    PROVE  /\ s \in RntmType /\ s.nt = nt
           /\ s.jc = r.jc /\ s.ic = r.ic /\ s.jr = r.jr /\ s.ir = r.ir
           /\ s = [r EXCEPT !.nt = nt, !.af = TRUE] => s.af
<1>1. s \in RntmType
  BY DEF RntmType
<1>2. s.nt = nt /\ (s = [r EXCEPT !.nt = nt, !.af = TRUE] => s.af)
  BY DEF RntmType
<1>3. s.jc = r.jc /\ s.ic = r.ic /\ s.jr = r.jr /\ s.ir = r.ir
  BY DEF RntmType
<1> QED
  BY <1>1, <1>2, <1>3

LEMMA Single ==
    ASSUME NEW r \in RntmType
    PROVE  /\ Settled([ClearWays(r) EXCEPT !.nt = 1])
           /\ [ClearWays(r) EXCEPT !.nt = 1].ti = r.ti
           /\ [ClearWays(r) EXCEPT !.nt = 1].nt = 1
<1> DEFINE s == [ClearWays(r) EXCEPT !.nt = 1]
<1>1. /\ s \in RntmType /\ s.nt = 1 /\ s.jc = 1 /\ s.ic = 1 /\ s.jr = 1 /\ s.ir = 1
      /\ s.ti = r.ti
  BY WithWaysType, WithNtType DEF ClearWays
<1> HIDE DEF s
<1>2. Settled(s)
  BY <1>1 DEF Settled, Positive, CalcNumThreads
<1> QED
  BY <1>1, <1>2 DEF s

\* bli_rntm_sanitize makes any request one that can be factored.
LEMMA SanitizeRequests ==
    ASSUME NEW r \in RntmType
    PROVE  Requested(Sanitize(r))
<1>1. CASE r.ti = "single"
  <2> DEFINE s == [ClearWays(r) EXCEPT !.nt = 1, !.af = FALSE]
  <2>1. Sanitize(r) = s
    BY <1>1 DEF Sanitize
  <2>2. /\ s \in RntmType /\ s.nt = 1 /\ s.jc = 1 /\ s.ic = 1 /\ s.jr = 1 /\ s.ir = 1
    <3> DEFINE w == ClearWays(r)
    <3>1. w \in RntmType /\ w.jc = 1 /\ w.ic = 1 /\ w.jr = 1 /\ w.ir = 1
      BY WithWaysType DEF ClearWays
    <3>2. 1 \in Int /\ s = [w EXCEPT !.nt = 1, !.af = FALSE]
      OBVIOUS
    <3> HIDE DEF w, s
    <3>3. /\ s \in RntmType /\ s.nt = 1
          /\ s.jc = w.jc /\ s.ic = w.ic /\ s.jr = w.jr /\ s.ir = w.ir
      BY <3>1, <3>2, WithAfType
    <3> QED
      BY <3>1, <3>3
  <2> HIDE DEF s
  <2> QED
    BY <2>1, <2>2 DEF Requested, Positive, CalcNumThreads
<1>2. CASE r.ti # "single"
  <2> DEFINE w == WithWays(r, AtLeast1(r.jc), AtLeast1(r.ic), AtLeast1(r.jr), AtLeast1(r.ir))
             nt == AtLeast1(r.nt)
             threads == CalcNumThreads(w)
             s == [w EXCEPT !.nt = IF threads > 1 THEN threads ELSE nt,
                            !.af = ~(threads > 1) /\ nt > 1]
  <2>1. Sanitize(r) = s
    BY <1>2 DEF Sanitize
  <2>2. /\ AtLeast1(r.jc) \in Nat \ {0} /\ AtLeast1(r.ic) \in Nat \ {0}
        /\ AtLeast1(r.jr) \in Nat \ {0} /\ AtLeast1(r.ir) \in Nat \ {0}
        /\ nt \in Nat \ {0}
    BY DEF AtLeast1, RntmType
  <2>3. w \in RntmType
    BY <2>2, WithWaysType
  <2>4. /\ w.jc \in Nat \ {0} /\ w.ic \in Nat \ {0} /\ w.jr \in Nat \ {0} /\ w.ir \in Nat \ {0}
    BY <2>2, WithWaysType
  <2> HIDE DEF w, nt
  <2>5. threads \in Nat \ {0}
    <3>1. Positive([w EXCEPT !.nt = nt])
      BY <2>2, <2>3, <2>4, WithNtType DEF Positive
    <3>2. CalcNumThreads([w EXCEPT !.nt = nt]) = threads
      BY <2>2, <2>3, WithNtType DEF CalcNumThreads
    <3> QED
      BY <3>1, <3>2, CalcType
  <2> HIDE DEF threads
  <2>6. /\ s \in RntmType /\ s.nt = (IF threads > 1 THEN threads ELSE nt)
        /\ threads = 1 /\ nt > 1 => s.af
        /\ s.jc = w.jc /\ s.ic = w.ic /\ s.jr = w.jr /\ s.ir = w.ir
    <3> DEFINE number == IF threads > 1 THEN threads ELSE nt
               auto == ~(threads > 1) /\ nt > 1
    <3>1. number \in Int
      BY <2>2, <2>5
    <3>4. s = [w EXCEPT !.nt = number, !.af = auto]
      OBVIOUS
    <3>2. CASE threads = 1 /\ nt > 1
      <4>1. s = [w EXCEPT !.nt = number, !.af = TRUE]
        <5>1. auto = TRUE
          BY <3>2
        <5> HIDE DEF number, auto, s
        <5> QED
          BY <3>4, <5>1
      <4> HIDE DEF number, s
      <4>2. /\ s \in RntmType /\ s.nt = number /\ s.af
            /\ s.jc = w.jc /\ s.ic = w.ic /\ s.jr = w.jr /\ s.ir = w.ir
        BY <2>3, <3>1, <4>1, WithAfType
      <4> QED
        BY <4>2 DEF number
    <3>3. CASE ~(threads = 1 /\ nt > 1)
      <4>1. s = [w EXCEPT !.nt = number, !.af = FALSE]
        <5>1. auto = FALSE
          BY <2>5, <3>3
        <5> HIDE DEF number, auto, s
        <5> QED
          BY <3>4, <5>1
      <4> HIDE DEF number, s
      <4>2. /\ s \in RntmType /\ s.nt = number
            /\ s.jc = w.jc /\ s.ic = w.ic /\ s.jr = w.jr /\ s.ir = w.ir
        BY <2>3, <3>1, <4>1, WithAfType
      <4> QED
        BY <3>3, <4>2 DEF number
    <3> QED
      BY <3>2, <3>3
  <2>7. CalcNumThreads(s) = threads
    BY <2>6 DEF CalcNumThreads, threads
  <2> HIDE DEF s
  <2>8. Positive(s)
    <3>1. s.nt = (IF threads > 1 THEN threads ELSE nt)
      BY <2>6
    <3>2. s.nt \in Nat \ {0}
      BY <2>2, <2>5, <3>1
    <3> QED
      BY <2>4, <2>6, <3>2 DEF Positive
  <2>9. ~s.af => threads = s.nt
    BY <2>2, <2>5, <2>6
  <2> QED
    BY <2>1, <2>7, <2>8, <2>9 DEF Requested
<1> QED
  BY <1>1, <1>2

LEMMA ReducedType ==
    ASSUME NEW nt \in Nat \ {0}
    PROVE  Reduced(nt) \in Nat \ {0}
  BY RntmAssumption DEF Reduced

\* bli_rntm_factorize and bli_rntm_factorize_sup: the ways multiply to the
\* number of threads.
LEMMA FactorizeSettles ==
    ASSUME NEW r, Requested(r), NEW m \in Nat \ {0}, NEW n \in Nat \ {0},
           NEW f \in {Factorize(m, n, r), FactorizeSup(m, n, r)}
    PROVE  Settled(f) /\ f.ti = r.ti
<1>1. CASE ~r.af
  <2>1. f = r
    BY <1>1 DEF Factorize, FactorizeSup
  <2> QED
    BY <1>1, <2>1 DEF Requested, Settled
<1>2. CASE r.af
  <2> DEFINE nt == Reduced(r.nt)
  <2>1. nt \in Nat \ {0} /\ r \in RntmType /\ m > 0 /\ n > 0
    BY ReducedType DEF Requested, Positive
  <2>2. ASSUME NEW jc \in Nat \ {0}, NEW ic \in Nat \ {0}, NEW jr \in Nat \ {0},
               NEW ir \in Nat \ {0}, jc * ic * jr * ir = nt,
               f = [WithWays(r, jc, ic, jr, ir) EXCEPT !.nt = nt]
        PROVE  Settled(f) /\ f.ti = r.ti
    <3> HIDE DEF nt
    <3>1. /\ f \in RntmType /\ f.nt = nt /\ f.jc = jc /\ f.ic = ic /\ f.jr = jr /\ f.ir = ir
          /\ f.ti = r.ti
      <4> DEFINE w == WithWays(r, jc, ic, jr, ir)
      <4>1. /\ w \in RntmType /\ w.jc = jc /\ w.ic = ic /\ w.jr = jr /\ w.ir = ir
            /\ w.ti = r.ti
        BY <2>1, WithWaysType
      <4>2. f = [w EXCEPT !.nt = nt]
        BY <2>2
      <4> HIDE DEF w
      <4> QED
        BY <2>1, <4>1, <4>2, WithNtType
    <3> QED
      BY <2>1, <2>2, <3>1 DEF Settled, Positive, CalcNumThreads
  <2>3. CASE f = Factorize(m, n, r)
    <3> DEFINE p == Partition2x2(nt, m * RatioM, n * RatioN)
               ir == LargestDivisor(p.nt1, MaxIR)
               jr == LargestDivisor(p.nt2, MaxJR)
               jc == p.nt2 \div jr
               ic == p.nt1 \div ir
    <3>1. f = [WithWays(r, jc, ic, jr, ir) EXCEPT !.nt = nt]
      BY <1>2, <2>1, <2>3 DEF Factorize
    <3>2. m * RatioM \in Nat /\ n * RatioN \in Nat
      BY RntmAssumption, Product
    <3>3. p.nt1 \in Nat \ {0} /\ p.nt2 \in Nat \ {0} /\ p.nt1 * p.nt2 = nt
      <4> HIDE DEF nt
      <4> QED
        BY <2>1, <3>2, PartitionMultiplies
    <3> HIDE DEF p, nt
    <3>4. /\ ir \in Nat \ {0} /\ p.nt1 % ir = 0 /\ jr \in Nat \ {0} /\ p.nt2 % jr = 0
      BY <3>3, LargestDivisorDivides, RntmAssumption
    <3> HIDE DEF ir, jr
    <3>5. /\ ic \in Nat \ {0} /\ ir * ic = p.nt1
          /\ jc \in Nat \ {0} /\ jr * jc = p.nt2
      BY <3>3, <3>4, Exact
    <3> HIDE DEF ic, jc
    <3>6. jc * ic * jr * ir = (ir * ic) * (jr * jc)
      BY <3>4, <3>5, SMT
    <3> QED
      BY <2>2, <3>1, <3>3, <3>4, <3>5, <3>6
  <2>4. CASE f = FactorizeSup(m, n, r)
    <3> DEFINE p == Partition2x2(nt, m, n)
    <3>1. f = [WithWays(r, p.nt2, p.nt1, 1, 1) EXCEPT !.nt = nt]
      BY <1>2, <2>1, <2>4 DEF FactorizeSup
    <3>2. p.nt1 \in Nat \ {0} /\ p.nt2 \in Nat \ {0} /\ p.nt1 * p.nt2 = nt
      <4> HIDE DEF nt
      <4> QED
        BY <2>1, PartitionMultiplies
    <3> HIDE DEF p, nt
    <3>3. p.nt2 * p.nt1 * 1 * 1 = nt
      BY <3>2, SMT
    <3> QED
      BY <2>2, <3>1, <3>2, <3>3
  <2> QED
    BY <2>3, <2>4
<1> QED
  BY <1>1, <1>2

\* What a setter does to a rntm_t leaves one that can be factored.
LEMMA SettersRequest ==
    ASSUME NEW r, Requested(r)
    PROVE  /\ \A nt \in Int : /\ Requested(SetNumThreads(nt, r))
                              /\ Requested(GlobalSetNumThreads(nt, r))
           /\ \A jc, ic, jr, ir \in Int : /\ Requested(SetWays(jc, ic, jr, ir, r))
                                          /\ Requested(GlobalSetWays(jc, ic, jr, ir, r))
           /\ \A ti \in Impls : Requested(SetThreadImpl(ti, r))
<1>1. r \in RntmType
  BY DEF Requested, Positive
<1>2. ASSUME NEW nt \in Int
      PROVE  Requested(SetNumThreads(nt, r)) /\ Requested(GlobalSetNumThreads(nt, r))
  <2>1. ClearWays([r EXCEPT !.nt = nt]) \in RntmType /\ [r EXCEPT !.nt = nt] \in RntmType
    BY <1>1, WithWaysType, WithNtType DEF ClearWays
  <2> QED
    BY <2>1, SanitizeRequests DEF SetNumThreads, GlobalSetNumThreads
<1>3. ASSUME NEW jc \in Int, NEW ic \in Int, NEW jr \in Int, NEW ir \in Int
      PROVE  /\ Requested(SetWays(jc, ic, jr, ir, r))
             /\ Requested(GlobalSetWays(jc, ic, jr, ir, r))
  <2>1. /\ [WithWays(r, jc, ic, jr, ir) EXCEPT !.nt = 1] \in RntmType
        /\ WithWays(r, jc, ic, jr, ir) \in RntmType
    <3> DEFINE w == WithWays(r, jc, ic, jr, ir)
    <3>1. w \in RntmType
      BY <1>1, WithWaysType
    <3> HIDE DEF w
    <3>2. [w EXCEPT !.nt = 1] \in RntmType
      BY <3>1, WithNtType
    <3> QED
      BY <3>1, <3>2 DEF w
  <2> QED
    BY <2>1, SanitizeRequests DEF SetWays, GlobalSetWays
<1>4. ASSUME NEW ti \in Impls
      PROVE  Requested(SetThreadImpl(ti, r))
  <2> DEFINE s == SetThreadImpl(ti, r)
  <2>1. /\ s \in RntmType /\ s.nt = r.nt /\ s.jc = r.jc /\ s.ic = r.ic /\ s.jr = r.jr
        /\ s.ir = r.ir /\ s.af = r.af
    BY <1>1 DEF SetThreadImpl, RntmType
  <2> HIDE DEF s
  <2>2. Requested(s)
    BY <2>1 DEF Requested, Positive, CalcNumThreads
  <2> QED
    BY <2>2 DEF s
<1> QED
  BY <1>2, <1>3, <1>4

-----------------------------------------------------------------------------
(***************************************************************************)
(* The inductive invariant.                                                *)
(***************************************************************************)
Cells == IF tls THEN Apps ELSE {"shared"}
Points == {"idle", "checkout", "resize", "launch", "run", "checkin"}
States == {"started", "in", "done"}

In == top_index .. num_blocks - 1
Out == {a \in Apps : array[a] # NoArray}

Typed ==
    /\ tls \in BOOLEAN
    /\ ended \in {"no", "finalized", "unavailable", "mismatch"}
    /\ pc \in [Apps -> Points]
    /\ rntm_l \in [Apps -> RntmType]
    /\ array \in [Apps -> Nat]
    /\ n_threads \in [Apps -> Nat]
    /\ state = [a \in Apps |-> state[a]]

\* What is asked for can be factored.
RequestInv ==
    /\ global_rntm \in [Cells -> RntmType] /\ \A c \in Cells : Requested(global_rntm[c])
    /\ user_rntm \in [Apps -> RntmType] /\ \A a \in Apps : Requested(user_rntm[a])

\* The small block allocator, before it is finalized
SbaType ==
    /\ num_blocks \in Nat /\ top_index \in 0 .. num_blocks
    /\ num_elem \in Seq(Nat \ {0}) /\ Len(num_elem) = num_blocks
    /\ elems \in Seq(SUBSET Nat) /\ Len(elems) = num_blocks
    /\ \E len \in Nat \ {0} : num_blocks <= len /\ block_ptrs \in [0 .. len - 1 -> Nat]

\* Every array is in the pool or out, never twice in the pool, with two
\* operations, or both; and the stack is as high as the number of those in it.
AccountInv ==
    /\ \A x \in Arrays : (\E i \in In : block_ptrs[i] = x) \/ (\E a \in Out : array[a] = x)
    /\ \A i \in In : block_ptrs[i] \in Arrays
    /\ \A a \in Out : array[a] \in Arrays
    /\ \A i, j \in In : block_ptrs[i] = block_ptrs[j] => i = j
    /\ \A a, b \in Out : array[a] = array[b] => a = b
    /\ \A i \in In, a \in Out : block_ptrs[i] # array[a]
    /\ Cardinality(Out) = top_index

\* Each element of an array that is not NULL has one pool, the first.
PoolInv ==
    /\ \A p \in pools : p[1] \in Arrays /\ p[2] \in elems[p[1]] /\ p = <<p[1], p[2], 0>>
    /\ \A x \in Arrays : \A t \in elems[x] : <<x, t, 0>> \in pools

SbaInv ==
    IF ended = "finalized" THEN num_blocks = 0 /\ top_index = 0 /\ Out = {} /\ pools = {}
    ELSE SbaType /\ AccountInv /\ PoolInv

\* An operation: from the checkout to the checkin it has an array, as long
\* as it needs it from the resize on; and its ways, its number of threads and
\* its communicator agree, with the threads as soon as one has entered.
OpOf(a) ==
    /\ array[a] # NoArray <=> pc[a] \in {"resize", "launch", "run", "checkin"}
    /\ pc[a] \in {"checkout", "resize", "launch", "run"} =>
          Settled(rntm_l[a]) /\ (rntm_l[a].ti = "single" => rntm_l[a].nt = 1)
    /\ pc[a] \in {"launch", "run"} => rntm_l[a].nt <= num_elem[array[a]]
    /\ IF pc[a] = "run"
         THEN \E real \in Nat \ {0} :
                /\ state[a] \in [0 .. real - 1 -> States]
                /\ real <= num_elem[array[a]]
                /\ n_threads[a] = rntm_l[a].nt
                /\ Entered(a) # {} => n_threads[a] = real
         ELSE Team(a) = {}

OpInv == \A a \in Apps : OpOf(a)

IInv == Typed /\ RequestInv /\ SbaInv /\ OpInv

LEMMA InitIInv == Init => IInv
<1> SUFFICES ASSUME Init PROVE IInv
  OBVIOUS
<1>1. /\ Initializer \in RntmType /\ Requested(Initializer)
      /\ AtInit \in RntmType /\ Requested(AtInit)
  <2>1. Initializer \in RntmType
    BY DEF Initializer, RntmType, Impls
  <2>2. Requested(Initializer)
    BY <2>1 DEF Initializer, Requested, Positive, CalcNumThreads
  <2>3. AtInit \in RntmType /\ Requested(AtInit)
    BY SanitizeRequests, DecoratorAssumption
  <2> QED
    BY <2>1, <2>2, <2>3
<1>2. Typed
  BY <1>1 DEF Init, Typed, Points, NoArray
<1>3. RequestInv
  BY <1>1 DEF Init, RequestInv, Cells
<1>4. Out = {}
  BY DEF Init, Out
<1>5. SbaType
  <2>1. num_blocks = 0 /\ top_index = 0 /\ num_elem = <<>> /\ elems = <<>>
    BY DEF Init
  <2>2. BlockPtrsLen \in Nat \ {0} /\ block_ptrs \in [0 .. BlockPtrsLen - 1 -> Nat]
    BY DecoratorAssumption DEF Init, NoArray
  <2> QED
    BY <2>1, <2>2 DEF SbaType
<1>6. AccountInv
  BY <1>4, FS_EmptySet DEF Init, AccountInv, In, Arrays
<1>7. PoolInv
  BY DEF Init, PoolInv, Arrays
<1>8. SbaInv
  BY <1>5, <1>6, <1>7 DEF Init, SbaInv
<1>9. OpInv
  BY DEF Init, OpInv, OpOf, Team, NoArray
<1> QED
  BY <1>2, <1>3, <1>8, <1>9 DEF IInv

\* As long as the library is not finalized
LEMMA NotFinalized ==
    ASSUME IInv, ended = "no"
    PROVE  SbaType /\ AccountInv /\ PoolInv
  BY DEF IInv, SbaInv

\* A step that leaves the small block allocator alone
LEMMA SbaStays ==
    ASSUME SbaInv, ended # "finalized", ended' # "finalized", UNCHANGED <<sba, array>>
    PROVE  SbaInv'
<1>1. /\ UNCHANGED <<block_ptrs, num_blocks, top_index, num_elem, elems, pools, array>>
  BY DEF sba
<1>2. SbaType'
  BY <1>1 DEF SbaInv, SbaType
<1>3. AccountInv'
  BY <1>1 DEF SbaInv, AccountInv, In, Out, Arrays
<1>4. PoolInv'
  BY <1>1 DEF SbaInv, PoolInv, Arrays
<1> QED
  BY <1>2, <1>3, <1>4 DEF SbaInv

\* What the application sets
LEMMA SetStep ==
    ASSUME IInv, NEW a \in Apps, SetGlobal(a) \/ SetLocal(a)
    PROVE  IInv'
<1>1. /\ ended = "no" /\ UNCHANGED <<tls, sba, pc, rntm_l, array, n_threads, state, ended>>
  BY DEF SetGlobal, SetLocal, Sets, running
<1>2. Typed' /\ OpInv'
  BY <1>1 DEF IInv, Typed, OpInv, OpOf, Team, Entered, sba
<1>3. SbaInv'
  BY <1>1, SbaStays DEF IInv
<1>4. Cell(a) \in Cells /\ Requested(Global(a)) /\ Global(a) \in RntmType
  BY DEF IInv, RequestInv, Cells, Cell, Global
<1>5. \A w \in WaysSet : w[1] \in Int /\ w[2] \in Int /\ w[3] \in Int /\ w[4] \in Int
  BY DecoratorAssumption
<1>6. \A nt \in Numbers : nt \in Int
  BY DecoratorAssumption
<1>7. \A r : Requested(r) => r \in RntmType
  BY DEF Requested, Positive
<1>8. CASE SetGlobal(a)
  <2>1. PICK r \in {GlobalSetNumThreads(nt, Global(a)) : nt \in Numbers}
           \cup {GlobalSetWays(w[1], w[2], w[3], w[4], Global(a)) : w \in WaysSet}
           \cup {SetThreadImpl(ti, Global(a)) : ti \in Impls}
           \cup {AtInit} :
          global_rntm' = [global_rntm EXCEPT ![Cell(a)] = r]
    BY <1>8 DEF SetGlobal
  <2>2. UNCHANGED user_rntm
    BY <1>8 DEF SetGlobal
  <2>3. Requested(r)
    <3>1. Requested(AtInit)
      BY SanitizeRequests, DecoratorAssumption
    <3>2. CASE r \in {GlobalSetNumThreads(nt, Global(a)) : nt \in Numbers}
      BY <3>2, <1>4, <1>6, SettersRequest
    <3>3. CASE r \in {GlobalSetWays(w[1], w[2], w[3], w[4], Global(a)) : w \in WaysSet}
      BY <3>3, <1>4, <1>5, SettersRequest
    <3>4. CASE r \in {SetThreadImpl(ti, Global(a)) : ti \in Impls}
      BY <3>4, <1>4, SettersRequest
    <3> QED
      BY <2>1, <3>1, <3>2, <3>3, <3>4
  <2>4. RequestInv'
    BY <1>1, <1>7, <2>1, <2>2, <2>3 DEF IInv, RequestInv, Cells
  <2> QED
    BY <1>2, <1>3, <2>4 DEF IInv
<1>9. CASE SetLocal(a)
  <2>1. UNCHANGED global_rntm
    BY <1>9 DEF SetLocal
  <2>2. Requested(user_rntm[a])
    BY DEF IInv, RequestInv
  <2>3. \E r : Requested(r) /\ user_rntm' = [user_rntm EXCEPT ![a] = r]
    <3>1. CASE \E nt \in Numbers : user_rntm' = [user_rntm EXCEPT ![a] = SetNumThreads(nt, @)]
      BY <3>1, <1>6, <2>2, SettersRequest
    <3>2. ASSUME NEW r \in {SetWays(w[1], w[2], w[3], w[4], user_rntm[a]) : w \in WaysSet}
                       \cup {SetThreadImpl(ti, user_rntm[a]) : ti \in Impls}
                       \cup {Global(a)},
                 user_rntm' = [user_rntm EXCEPT ![a] = r]
          PROVE  Requested(r)
      <4>1. CASE r \in {SetWays(w[1], w[2], w[3], w[4], user_rntm[a]) : w \in WaysSet}
        BY <4>1, <1>5, <2>2, SettersRequest
      <4>2. CASE r \in {SetThreadImpl(ti, user_rntm[a]) : ti \in Impls}
        BY <4>2, <2>2, SettersRequest
      <4> QED
        BY <3>2, <4>1, <4>2, <1>4
    <3> QED
      BY <1>9, <3>1, <3>2 DEF SetLocal
  <2>4. RequestInv'
    BY <1>1, <1>7, <2>1, <2>3 DEF IInv, RequestInv, Cells
  <2> QED
    BY <1>2, <1>3, <2>4 DEF IInv
<1> QED
  BY <1>8, <1>9

\* A conflicting request is resolved for one thread.
LEMMA ResolvedSettles ==
    ASSUME NEW r, Settled(r)
    PROVE  /\ Settled(Resolved(r)) /\ Resolved(r).ti = r.ti
           /\ Resolved(r).ti = "single" => Resolved(r).nt = 1
<1>1. r \in RntmType /\ r.nt \in Nat \ {0}
  BY DEF Settled, Positive
<1>2. CASE r.nt > 1 /\ r.ti = "single"
  BY <1>1, <1>2, Single DEF Resolved
<1>3. CASE ~(r.nt > 1 /\ r.ti = "single")
  <2>1. Resolved(r) = r
    BY <1>3 DEF Resolved
  <2> QED
    BY <1>1, <1>3, <2>1
<1> QED
  BY <1>2, <1>3

LEMMA BeginStep ==
    ASSUME IInv, NEW a \in Apps, Begin(a)
    PROVE  IInv'
<1>1. /\ ended = "no" /\ pc[a] = "idle"
      /\ UNCHANGED <<tls, global_rntm, user_rntm, sba, array, n_threads, state>>
  BY DEF Begin, rntms
<1>2. PICK own \in BOOLEAN, s \in Sizes :
          LET r == IF own THEN user_rntm[a] ELSE Global(a)
          IN /\ \E f \in {Factorize(s[1], s[2], r), FactorizeSup(s[1], s[2], r)} :
                   rntm_l' = [rntm_l EXCEPT ![a] = Resolved(f)]
             /\ IF r.ti \in Available
                  THEN Goto(a, "checkout") /\ UNCHANGED ended
                  ELSE ended' = "unavailable" /\ UNCHANGED pc
  BY DEF Begin
<1> DEFINE r == IF own THEN user_rntm[a] ELSE Global(a)
<1>3. Requested(r)
  BY DEF IInv, RequestInv, Cells, Cell, Global
<1>4. s[1] \in Nat \ {0} /\ s[2] \in Nat \ {0}
  BY DecoratorAssumption
<1>5. PICK f \in {Factorize(s[1], s[2], r), FactorizeSup(s[1], s[2], r)} :
            rntm_l' = [rntm_l EXCEPT ![a] = Resolved(f)]
  BY <1>2
<1>6. Settled(f)
  <2> HIDE DEF r
  <2> QED
    BY <1>3, <1>4, FactorizeSettles
<1>7. /\ Settled(Resolved(f)) /\ (Resolved(f).ti = "single" => Resolved(f).nt = 1)
      /\ Resolved(f) \in RntmType
  BY <1>6, ResolvedSettles DEF Settled, Positive
<1>8. \/ pc' = [pc EXCEPT ![a] = "checkout"] /\ ended' = ended
      \/ pc' = pc /\ ended' = "unavailable"
  BY <1>2 DEF Goto
<1> HIDE DEF r
<1>9. Typed'
  BY <1>1, <1>5, <1>7, <1>8 DEF IInv, Typed, Points
<1>10. RequestInv'
  BY <1>1 DEF IInv, RequestInv, Cells
<1>11. SbaInv'
  BY <1>1, <1>8, SbaStays DEF IInv
<1>12. OpInv'
  <2> SUFFICES ASSUME NEW b \in Apps PROVE OpOf(b)'
    BY <1>1 DEF OpInv
  <2>1. CASE b # a
    <3>1. pc'[b] = pc[b] /\ rntm_l'[b] = rntm_l[b]
      BY <1>5, <1>8, <2>1 DEF IInv, Typed
    <3> QED
      BY <1>1, <3>1 DEF IInv, OpInv, OpOf, Entered, Team, sba
  <2>2. CASE b = a
    <3>1. pc'[b] \in {"idle", "checkout"} /\ rntm_l'[b] = Resolved(f)
      BY <1>1, <1>5, <1>8, <2>2 DEF IInv, Typed
    <3> QED
      BY <1>1, <1>7, <2>2, <3>1 DEF IInv, OpInv, OpOf, Team, sba
  <2> QED
    BY <2>1, <2>2
<1> QED
  BY <1>9, <1>10, <1>11, <1>12 DEF IInv

-----------------------------------------------------------------------------

\* A step does not disturb the operation of another application thread, if
\* it leaves that operation alone and shortens no array.
LEMMA OpStays ==
    ASSUME NEW b \in Apps, OpOf(b),
           pc'[b] = pc[b], rntm_l'[b] = rntm_l[b], array'[b] = array[b],
           n_threads'[b] = n_threads[b], state'[b] = state[b],
           b \in Out => /\ num_elem[array[b]] \in Int /\ num_elem'[array[b]] \in Int
                        /\ num_elem[array[b]] <= num_elem'[array[b]],
           rntm_l[b] \in RntmType
    PROVE  OpOf(b)'
<1>1. pc[b] \in {"launch", "run"} =>
        /\ num_elem[array[b]] \in Int /\ num_elem'[array[b]] \in Int
        /\ num_elem[array[b]] <= num_elem'[array[b]]
  BY DEF OpOf, Out
<1>2. rntm_l[b].nt \in Int
  BY DEF RntmType
<1>3. pc'[b] \in {"launch", "run"} => rntm_l'[b].nt <= num_elem'[array'[b]]
  BY <1>1, <1>2 DEF OpOf
<1>4. Entered(b)' = Entered(b) /\ Team(b)' = Team(b)
  BY DEF Entered, Team
<1>5. CASE pc[b] = "run"
  <2>1. PICK real \in Nat \ {0} :
            /\ state[b] \in [0 .. real - 1 -> States]
            /\ real <= num_elem[array[b]]
            /\ n_threads[b] = rntm_l[b].nt
            /\ Entered(b) # {} => n_threads[b] = real
    BY <1>5 DEF OpOf
  <2>2. real <= num_elem'[array'[b]]
    BY <1>1, <1>5, <2>1
  <2> QED
    BY <1>3, <1>4, <1>5, <2>1, <2>2 DEF OpOf
<1>6. CASE pc[b] # "run"
  BY <1>3, <1>4, <1>6 DEF OpOf
<1> QED
  BY <1>5, <1>6

\* The array of an operation
LEMMA ArrayOf ==
    ASSUME IInv, ended = "no", NEW a \in Apps,
           pc[a] \in {"resize", "launch", "run", "checkin"}
    PROVE  /\ a \in Out /\ array[a] \in 1 .. Len(num_elem) /\ array[a] \in 1 .. Len(elems)
           /\ array[a] # NoArray
           /\ num_elem[array[a]] \in Nat \ {0} /\ elems[array[a]] \in SUBSET Nat
<1>1. SbaType /\ AccountInv
  BY NotFinalized
<1>2. a \in Out /\ array[a] # NoArray
  BY DEF IInv, OpInv, OpOf, Out
<1>3. array[a] \in 1 .. num_blocks
  BY <1>1, <1>2 DEF AccountInv, Arrays
<1> QED
  BY <1>1, <1>2, <1>3 DEF SbaType

\* Lengths are positive numbers, of the arrays that are out too.
LEMMA Lengths ==
    ASSUME IInv, ended = "no", NEW b \in Out
    PROVE  array[b] \in 1 .. Len(num_elem) /\ num_elem[array[b]] \in Nat \ {0}
<1>1. SbaType /\ AccountInv
  BY NotFinalized
<1>2. array[b] \in 1 .. num_blocks
  BY <1>1 DEF AccountInv, Arrays
<1> QED
  BY <1>1, <1>2 DEF SbaType

LEMMA ResizeStep ==
    ASSUME IInv, NEW a \in Apps, Resize(a)
    PROVE  IInv'
<1> DEFINE x == array[a]
<1>1. /\ ended = "no" /\ pc[a] = "resize" /\ pc' = [pc EXCEPT ![a] = "launch"]
      /\ num_elem' = [num_elem EXCEPT ![x] = NewLength(a)]
      /\ elems' = [elems EXCEPT ![x] = elems[x]]
      /\ UNCHANGED <<tls, global_rntm, user_rntm, block_ptrs, num_blocks, top_index, pools,
                     rntm_l, array, n_threads, state, ended>>
  BY DEF Resize, Goto, KeptElems, rntms, running
<1>2. SbaType /\ AccountInv /\ PoolInv
  BY <1>1, NotFinalized
<1>3. /\ a \in Out /\ x \in 1 .. Len(num_elem) /\ x \in 1 .. Len(elems)
      /\ num_elem[x] \in Nat \ {0} /\ elems[x] \in SUBSET Nat
  BY <1>1, ArrayOf
<1>4. /\ OpOf(a) /\ Settled(rntm_l[a]) /\ (rntm_l[a].ti = "single" => rntm_l[a].nt = 1)
      /\ Team(a) = {} /\ rntm_l[a].nt \in Nat \ {0}
  BY <1>1 DEF IInv, OpInv, OpOf, Settled, Positive
<1>5. NewLength(a) \in Nat \ {0} /\ num_elem[x] <= NewLength(a) /\ rntm_l[a].nt <= NewLength(a)
  BY <1>3, <1>4 DEF NewLength
<1>6. /\ num_elem' \in Seq(Nat \ {0}) /\ Len(num_elem') = Len(num_elem)
      /\ \A y \in 1 .. Len(num_elem) : num_elem'[y] = IF y = x THEN NewLength(a) ELSE num_elem[y]
  <2>1. num_elem \in Seq(Nat \ {0})
    BY <1>2 DEF SbaType
  <2> DEFINE positive == Nat \ {0}
             length == NewLength(a)
  <2>2. num_elem \in Seq(positive) /\ x \in 1 .. Len(num_elem) /\ length \in positive
    BY <1>3, <1>5, <2>1
  <2>3. num_elem' = [num_elem EXCEPT ![x] = length]
    BY <1>1
  <2> HIDE DEF x, positive, length
  <2>4. /\ num_elem' \in Seq(positive) /\ Len(num_elem') = Len(num_elem)
        /\ \A y \in 1 .. Len(num_elem) : num_elem'[y] = IF y = x THEN length ELSE num_elem[y]
    BY <2>2, <2>3, ExceptSeq
  <2> QED
    BY <2>4 DEF positive, length
<1>7. elems' = elems
  BY <1>1, <1>2 DEF SbaType
<1>8. Typed'
  BY <1>1 DEF IInv, Typed, Points
<1>9. RequestInv'
  BY <1>1 DEF IInv, RequestInv, Cells
<1>10. SbaInv'
  <2>1. SbaType'
    BY <1>1, <1>2, <1>6, <1>7 DEF SbaType
  <2>2. AccountInv'
    BY <1>1, <1>2 DEF AccountInv, In, Out, Arrays
  <2>3. PoolInv'
    BY <1>1, <1>2, <1>7 DEF PoolInv, Arrays
  <2> QED
    BY <1>1, <2>1, <2>2, <2>3 DEF SbaInv
<1>11. ASSUME NEW b \in Apps PROVE OpOf(b)'
  <2>1. CASE b # a
    <3>1. b \in Out => /\ num_elem[array[b]] \in Int /\ num_elem'[array[b]] \in Int
                       /\ num_elem[array[b]] <= num_elem'[array[b]]
      BY <1>1, <1>5, <1>6, Lengths
    <3> QED
      BY <1>1, <2>1, <3>1, OpStays DEF IInv, OpInv, Typed
  <2>2. CASE b = a
    <3>1. /\ pc'[a] = "launch" /\ array'[a] # NoArray /\ Team(a)' = {}
          /\ rntm_l'[a].nt <= num_elem'[array'[a]]
      BY <1>1, <1>3, <1>4, <1>5, <1>6 DEF IInv, Typed, Team, Out
    <3> QED
      BY <1>1, <1>4, <2>2, <3>1 DEF OpOf
  <2> QED
    BY <2>1, <2>2
<1> QED
  BY <1>8, <1>9, <1>10, <1>11 DEF IInv, OpInv

LEMMA LaunchStep ==
    ASSUME IInv, NEW a \in Apps, Launch(a)
    PROVE  IInv'
<1> DEFINE nt == rntm_l[a].nt
<1>1. /\ ended = "no" /\ pc[a] = "launch" /\ pc' = [pc EXCEPT ![a] = "run"]
      /\ n_threads' = [n_threads EXCEPT ![a] = IF rntm_l[a].ti = "single" THEN 1 ELSE nt]
      /\ UNCHANGED <<tls, global_rntm, user_rntm, sba, rntm_l, array, ended>>
  BY DEF Launch, Goto, rntms
<1>2. PICK real \in 1 .. nt : state' = [state EXCEPT ![a] = [t \in 0 .. real - 1 |-> "started"]]
  BY DEF Launch
<1>3. /\ a \in Out /\ array[a] # NoArray /\ num_elem[array[a]] \in Nat \ {0}
  BY <1>1, ArrayOf
<1>4. /\ OpOf(a) /\ Settled(rntm_l[a]) /\ (rntm_l[a].ti = "single" => nt = 1)
      /\ nt <= num_elem[array[a]] /\ nt \in Nat \ {0}
  BY <1>1 DEF IInv, OpInv, OpOf, Settled, Positive
<1>5. n_threads' = [n_threads EXCEPT ![a] = nt]
  BY <1>1, <1>4
<1>6. Typed'
  <2>1. n_threads' \in [Apps -> Nat] /\ pc' \in [Apps -> Points]
    BY <1>1, <1>4, <1>5 DEF IInv, Typed, Points
  <2>2. state' = [b \in Apps |-> state'[b]]
    BY <1>2 DEF IInv, Typed
  <2> QED
    BY <1>1, <2>1, <2>2 DEF IInv, Typed
<1>7. RequestInv'
  BY <1>1 DEF IInv, RequestInv, Cells
<1>8. SbaInv'
  BY <1>1, SbaStays DEF IInv
<1>9. ASSUME NEW b \in Apps PROVE OpOf(b)'
  <2>1. CASE b # a
    <3>1. b \in Out => /\ num_elem[array[b]] \in Int /\ num_elem'[array[b]] \in Int
                       /\ num_elem[array[b]] <= num_elem'[array[b]]
      BY <1>1, Lengths DEF sba
    <3>2. pc'[b] = pc[b] /\ n_threads'[b] = n_threads[b] /\ state'[b] = state[b]
      BY <1>1, <1>2, <2>1 DEF IInv, Typed
    <3> QED
      BY <1>1, <3>1, <3>2, OpStays DEF IInv, OpInv, Typed
  <2>2. CASE b = a
    <3>1. pc'[a] = "run" /\ n_threads'[a] = nt /\ state'[a] = [t \in 0 .. real - 1 |-> "started"]
      BY <1>1, <1>2, <1>5 DEF IInv, Typed
    <3>2. Entered(a)' = {}
      BY <3>1 DEF Entered, Team
    <3>3. state'[a] \in [0 .. real - 1 -> States]
      BY <3>1 DEF States
    <3>4. real \in Nat \ {0} /\ real <= num_elem[array[a]]
      BY <1>3, <1>4
    <3> QED
      BY <1>1, <1>3, <1>4, <2>2, <3>1, <3>2, <3>3, <3>4 DEF OpOf, sba
  <2> QED
    BY <2>1, <2>2
<1> QED
  BY <1>6, <1>7, <1>8, <1>9 DEF IInv, OpInv

LEMMA JoinStep ==
    ASSUME IInv, NEW a \in Apps, Join(a)
    PROVE  IInv'
<1>1. /\ ended = "no" /\ pc[a] = "run" /\ pc' = [pc EXCEPT ![a] = "checkin"]
      /\ n_threads' = [n_threads EXCEPT ![a] = 0] /\ state' = [state EXCEPT ![a] = <<>>]
      /\ UNCHANGED <<tls, global_rntm, user_rntm, sba, rntm_l, array, ended>>
  BY DEF Join, Goto, rntms
<1>2. array[a] # NoArray
  BY <1>1, ArrayOf
<1>3. Typed'
  BY <1>1 DEF IInv, Typed, Points
<1>4. RequestInv'
  BY <1>1 DEF IInv, RequestInv, Cells
<1>5. SbaInv'
  BY <1>1, SbaStays DEF IInv
<1>6. ASSUME NEW b \in Apps PROVE OpOf(b)'
  <2>1. CASE b # a
    <3>1. b \in Out => /\ num_elem[array[b]] \in Int /\ num_elem'[array[b]] \in Int
                       /\ num_elem[array[b]] <= num_elem'[array[b]]
      BY <1>1, Lengths DEF sba
    <3>2. pc'[b] = pc[b] /\ n_threads'[b] = n_threads[b] /\ state'[b] = state[b]
      BY <1>1, <2>1 DEF IInv, Typed
    <3> QED
      BY <1>1, <3>1, <3>2, OpStays DEF IInv, OpInv, Typed
  <2>2. CASE b = a
    <3>1. pc'[a] = "checkin" /\ Team(a)' = {}
      BY <1>1 DEF IInv, Typed, Team
    <3> QED
      BY <1>1, <1>2, <2>2, <3>1 DEF OpOf
  <2> QED
    BY <2>1, <2>2
<1> QED
  BY <1>3, <1>4, <1>5, <1>6 DEF IInv, OpInv

\* The number of threads of an operation
LEMMA TeamOf ==
    ASSUME IInv, NEW a \in Apps, pc[a] = "run"
    PROVE  \E real \in Nat \ {0} :
              /\ state[a] \in [0 .. real - 1 -> States] /\ Team(a) = 0 .. real - 1
              /\ Cardinality(Team(a)) = real
              /\ real <= num_elem[array[a]]
              /\ n_threads[a] = rntm_l[a].nt
              /\ Entered(a) # {} => n_threads[a] = real
<1>1. PICK real \in Nat \ {0} :
          /\ state[a] \in [0 .. real - 1 -> States]
          /\ real <= num_elem[array[a]]
          /\ n_threads[a] = rntm_l[a].nt
          /\ Entered(a) # {} => n_threads[a] = real
  BY DEF IInv, OpInv, OpOf
<1>2. Team(a) = 0 .. real - 1
  BY <1>1 DEF Team
<1>3. Cardinality(0 .. real - 1) = real
  BY FS_Interval
<1> QED
  BY <1>1, <1>2, <1>3

LEMMA LeaveStep ==
    ASSUME IInv, NEW a \in Apps, NEW t \in Team(a), Leave(a, t)
    PROVE  IInv'
<1>1. /\ ended = "no" /\ pc[a] = "run" /\ state[a][t] = "in"
      /\ state' = [state EXCEPT ![a] = [state[a] EXCEPT ![t] = "done"]]
      /\ UNCHANGED <<tls, global_rntm, user_rntm, sba, pc, rntm_l, array, n_threads, ended>>
  BY DEF Leave, rntms
<1>2. PICK real \in Nat \ {0} :
          /\ state[a] \in [0 .. real - 1 -> States] /\ Team(a) = 0 .. real - 1
          /\ real <= num_elem[array[a]]
          /\ n_threads[a] = rntm_l[a].nt
          /\ Entered(a) # {} => n_threads[a] = real
  BY <1>1, TeamOf
<1>3. state'[a] \in [0 .. real - 1 -> States]
  BY <1>1, <1>2 DEF IInv, Typed, States
<1>4. t \in Entered(a)
  BY <1>1 DEF Entered
<1>5. Typed'
  BY <1>1 DEF IInv, Typed
<1>6. RequestInv'
  BY <1>1 DEF IInv, RequestInv, Cells
<1>7. SbaInv'
  BY <1>1, SbaStays DEF IInv
<1>8. ASSUME NEW b \in Apps PROVE OpOf(b)'
  <2>1. CASE b # a
    <3>1. b \in Out => /\ num_elem[array[b]] \in Int /\ num_elem'[array[b]] \in Int
                       /\ num_elem[array[b]] <= num_elem'[array[b]]
      BY <1>1, Lengths DEF sba
    <3>2. state'[b] = state[b]
      BY <1>1, <2>1 DEF IInv, Typed
    <3> QED
      BY <1>1, <3>1, <3>2, OpStays DEF IInv, OpInv, Typed
  <2>2. CASE b = a
    BY <1>1, <1>2, <1>3, <1>4, <2>2 DEF IInv, OpInv, OpOf, sba
  <2> QED
    BY <2>1, <2>2
<1> QED
  BY <1>5, <1>6, <1>7, <1>8 DEF IInv, OpInv

\* A thread that finds its number of threads wrong stops the program or goes
\* on alone.
LEMMA CheckedAgrees ==
    ASSUME IInv, NEW a \in Apps, pc[a] = "run", Checked(a),
           NEW real \in Nat \ {0}, Cardinality(Team(a)) = real,
           n_threads[a] = real \/ real = 1, n_threads[a] = rntm_l[a].nt
    PROVE  /\ n_threads' \in [Apps -> Nat] /\ rntm_l' \in [Apps -> RntmType]
           /\ \A b \in Apps : b # a => n_threads'[b] = n_threads[b] /\ rntm_l'[b] = rntm_l[b]
           /\ n_threads'[a] = real /\ rntm_l'[a].nt = real
           /\ Settled(rntm_l'[a]) /\ (rntm_l'[a].ti = "single" => rntm_l'[a].nt = 1)
<1>1. /\ n_threads \in [Apps -> Nat] /\ rntm_l \in [Apps -> RntmType]
      /\ Settled(rntm_l[a]) /\ (rntm_l[a].ti = "single" => rntm_l[a].nt = 1)
  BY DEF IInv, Typed, OpInv, OpOf
<1>2. CASE n_threads[a] = real
  BY <1>1, <1>2 DEF Checked
<1>3. CASE n_threads[a] # real
  <2> DEFINE s == [ClearWays(rntm_l[a]) EXCEPT !.nt = 1]
  <2>1. Settled(s) /\ s.nt = 1 /\ s \in RntmType
    BY <1>1, Single DEF Settled, Positive
  <2>2. n_threads' = [n_threads EXCEPT ![a] = 1] /\ rntm_l' = [rntm_l EXCEPT ![a] = s]
    BY <1>3 DEF Checked
  <2> HIDE DEF s
  <2>3. rntm_l'[a] = s /\ n_threads'[a] = 1
    BY <1>1, <2>2
  <2> QED
    BY <1>1, <1>3, <2>1, <2>2, <2>3
<1> QED
  BY <1>2, <1>3

\* One element of a sequence of sets is replaced.
LEMMA ElemsUpdate ==
    ASSUME NEW s \in Seq(SUBSET Nat), NEW x \in 1 .. Len(s), NEW more \in SUBSET Nat
    PROVE  /\ [s EXCEPT ![x] = more] \in Seq(SUBSET Nat)
           /\ Len([s EXCEPT ![x] = more]) = Len(s)
           /\ \A y \in 1 .. Len(s) :
                 [s EXCEPT ![x] = more][y] = IF y = x THEN more ELSE s[y]
<1> DEFINE S == SUBSET Nat
<1>1. s \in Seq(S) /\ more \in S
  OBVIOUS
<1> HIDE DEF S
<1>2. /\ [s EXCEPT ![x] = more] \in Seq(S)
      /\ Len([s EXCEPT ![x] = more]) = Len(s)
      /\ \A y \in 1 .. Len(s) :
            [s EXCEPT ![x] = more][y] = IF y = x THEN more ELSE s[y]
  BY <1>1, ExceptSeq
<1> QED
  BY <1>2 DEF S

\* The thread's pool is there, and is the only one, when it has entered.
LEMMA EnterPools ==
    ASSUME SbaType, PoolInv, NEW x \in Arrays, NEW t \in Nat,
           UNCHANGED <<block_ptrs, num_blocks, top_index, num_elem>>,
           elems' = [elems EXCEPT ![x] = @ \cup {t}],
           pools' = IF t \in elems[x] THEN pools ELSE pools \cup {NewPool(x, t)}
    PROVE  SbaType' /\ PoolInv'
<1>1. x \in 1 .. Len(elems) /\ elems \in Seq(SUBSET Nat) /\ elems[x] \cup {t} \in SUBSET Nat
  BY DEF SbaType, Arrays
<1>2. /\ elems' \in Seq(SUBSET Nat) /\ Len(elems') = Len(elems)
      /\ \A y \in 1 .. Len(elems) : elems'[y] = IF y = x THEN elems[x] \cup {t} ELSE elems[y]
  BY <1>1, ElemsUpdate
<1>3. SbaType'
  BY <1>2 DEF SbaType
<1>4. \A y \in Arrays : elems'[y] = IF y = x THEN elems[x] \cup {t} ELSE elems[y]
  BY <1>2 DEF SbaType, Arrays
<1>5. pools' = pools \cup {<<x, t, 0>>}
  <2>1. CASE t \in elems[x]
    BY <2>1 DEF PoolInv
  <2>2. CASE t \notin elems[x]
    <3>1. PoolsOf(x, t) = {}
      BY <2>2 DEF PoolsOf, PoolInv
    <3> QED
      BY <2>2, <3>1, FS_EmptySet DEF NewPool
  <2> QED
    BY <2>1, <2>2
<1>6. Arrays' = Arrays
  BY DEF Arrays
<1>7. ASSUME NEW p \in pools'
      PROVE  p[1] \in Arrays /\ p[2] \in elems'[p[1]] /\ p = <<p[1], p[2], 0>>
  <2>1. CASE p \in pools
    BY <1>4, <2>1 DEF PoolInv
  <2>2. CASE p = <<x, t, 0>>
    BY <1>4, <2>2
  <2> QED
    BY <1>5, <2>1, <2>2
<1>8. ASSUME NEW y \in Arrays, NEW u \in elems'[y]
      PROVE  <<y, u, 0>> \in pools'
  BY <1>4, <1>5 DEF PoolInv
<1> QED
  BY <1>3, <1>6, <1>7, <1>8 DEF PoolInv

LEMMA EnterStep ==
    ASSUME IInv, NEW a \in Apps, NEW t \in Team(a), Enter(a, t)
    PROVE  IInv'
<1> DEFINE x == array[a]
<1>1. /\ ended = "no" /\ pc[a] = "run" /\ state[a][t] = "started"
      /\ UNCHANGED <<tls, global_rntm, user_rntm, block_ptrs, num_blocks, top_index, num_elem,
                     pc, array>>
  BY DEF Enter, rntms
<1>2. PICK real \in Nat \ {0} :
          /\ state[a] \in [0 .. real - 1 -> States] /\ Team(a) = 0 .. real - 1
          /\ Cardinality(Team(a)) = real
          /\ real <= num_elem[x]
          /\ n_threads[a] = rntm_l[a].nt
          /\ Entered(a) # {} => n_threads[a] = real
  BY <1>1, TeamOf
<1>3. /\ a \in Out /\ x # NoArray /\ num_elem[x] \in Nat \ {0}
  BY <1>1, ArrayOf
<1>4. SbaType /\ AccountInv /\ PoolInv
  BY <1>1, NotFinalized
<1>5. x \in Arrays /\ t \in Nat /\ t < num_elem[x]
  BY <1>2, <1>3, <1>4 DEF AccountInv
<1>6. RequestInv'
  BY <1>1 DEF IInv, RequestInv, Cells
<1>7. n_threads[a] \in Nat
  BY DEF IInv, Typed
<1>8. CASE n_threads[a] # real /\ real # 1
  <2>1. ended' = "mismatch" /\ UNCHANGED <<n_threads, rntm_l, elems, pools, state>>
    BY <1>2, <1>8 DEF Enter
  <2>2. Typed' /\ OpInv'
    BY <1>1, <2>1 DEF IInv, Typed, OpInv, OpOf, Team, Entered
  <2>3. SbaInv'
    BY <1>1, <2>1, SbaStays DEF IInv, sba
  <2> QED
    BY <1>6, <2>2, <2>3 DEF IInv
<1>9. CASE n_threads[a] = real \/ real = 1
  <2>1. /\ Checked(a)
        /\ elems' = [elems EXCEPT ![x] = @ \cup {t}]
        /\ pools' = IF t \in elems[x] THEN pools ELSE pools \cup {NewPool(x, t)}
        /\ state' = [state EXCEPT ![a] = [state[a] EXCEPT ![t] = "in"]]
        /\ UNCHANGED ended
    BY <1>2, <1>5, <1>9 DEF Enter
  <2>2. /\ n_threads' \in [Apps -> Nat] /\ rntm_l' \in [Apps -> RntmType]
        /\ \A b \in Apps : b # a => n_threads'[b] = n_threads[b] /\ rntm_l'[b] = rntm_l[b]
        /\ n_threads'[a] = real /\ rntm_l'[a].nt = real
        /\ Settled(rntm_l'[a]) /\ (rntm_l'[a].ti = "single" => rntm_l'[a].nt = 1)
    BY <1>1, <1>2, <1>9, <2>1, CheckedAgrees
  <2>3. Typed'
    <3>1. state' = [b \in Apps |-> state'[b]]
      BY <2>1 DEF IInv, Typed
    <3> QED
      BY <1>1, <2>1, <2>2, <3>1 DEF IInv, Typed
  <2>4. SbaInv'
    <3>1. SbaType' /\ PoolInv'
      <4> HIDE DEF x
      <4> QED
        BY <1>1, <1>4, <1>5, <2>1, EnterPools
    <3>2. AccountInv'
      BY <1>1, <1>4 DEF AccountInv, In, Out, Arrays
    <3> QED
      BY <1>1, <2>1, <3>1, <3>2 DEF SbaInv
  <2>5. ASSUME NEW b \in Apps PROVE OpOf(b)'
    <3>1. CASE b # a
      <4>1. b \in Out => /\ num_elem[array[b]] \in Int /\ num_elem'[array[b]] \in Int
                         /\ num_elem[array[b]] <= num_elem'[array[b]]
        BY <1>1, Lengths
      <4>2. state'[b] = state[b] /\ n_threads'[b] = n_threads[b] /\ rntm_l'[b] = rntm_l[b]
        BY <2>1, <2>2, <3>1 DEF IInv, Typed
      <4> QED
        BY <1>1, <4>1, <4>2, OpStays DEF IInv, OpInv, Typed
    <3>2. CASE b = a
      <4>1. state'[a] \in [0 .. real - 1 -> States]
        BY <1>2, <2>1 DEF IInv, Typed, States
      <4>2. rntm_l'[a].nt <= num_elem'[array'[a]] /\ array'[a] # NoArray /\ pc'[a] = "run"
        BY <1>1, <1>2, <1>3, <2>2
      <4> QED
        BY <1>1, <1>2, <2>2, <3>2, <4>1, <4>2 DEF OpOf
    <3> QED
      BY <3>1, <3>2
  <2> QED
    BY <1>6, <2>3, <2>4, <2>5 DEF IInv, OpInv
<1> QED
  BY <1>7, <1>8, <1>9

-----------------------------------------------------------------------------

\* The number of arrays that are out
LEMMA OutFinite ==
    /\ IsFiniteSet(Out)
    /\ \A a \in Apps : /\ IsFiniteSet(Out \cup {a}) /\ IsFiniteSet(Out \ {a})
                       /\ Cardinality(Out \cup {a}) =
                             IF a \in Out THEN Cardinality(Out) ELSE Cardinality(Out) + 1
                       /\ Cardinality(Out \ {a}) =
                             IF a \in Out THEN Cardinality(Out) - 1 ELSE Cardinality(Out)
<1>1. IsFiniteSet(Apps) /\ Out \in SUBSET Apps
  BY DecoratorAssumption DEF Out
<1>2. IsFiniteSet(Out)
  BY <1>1, FS_Subset
<1> QED
  BY <1>2, FS_AddElement, FS_RemoveElement

\* An array is taken from the pool.
LEMMA TakeAccount ==
    ASSUME Typed, SbaType, AccountInv, NEW a \in Apps, a \notin Out, top_index < num_blocks,
           UNCHANGED <<block_ptrs, num_blocks>>,
           array' = [array EXCEPT ![a] = block_ptrs[top_index]], top_index' = top_index + 1
    PROVE  AccountInv' /\ Out' = Out \cup {a}
<1> DEFINE x == block_ptrs[top_index]
<1>1. /\ top_index \in Nat /\ num_blocks \in Nat /\ top_index \in In
      /\ array \in [Apps -> Nat] /\ x \in 1 .. num_blocks
  BY DEF Typed, SbaType, AccountInv, In, Arrays
<1>2. In' = In \ {top_index} /\ Arrays' = Arrays
  BY <1>1 DEF In, Arrays
<1>3. array'[a] = x /\ \A b \in Apps : b # a => array'[b] = array[b]
  BY <1>1
<1>4. Out' = Out \cup {a}
  BY <1>1, <1>3 DEF Out, NoArray
<1>5. Cardinality(Out') = top_index'
  BY <1>1, <1>4, OutFinite DEF AccountInv
<1> HIDE DEF x
<1>6. \A y \in Arrays : (\E i \in In' : block_ptrs[i] = y) \/ (\E b \in Out' : array'[b] = y)
  <2> SUFFICES ASSUME NEW y \in Arrays, ~ \E i \in In' : block_ptrs[i] = y
               PROVE  \E b \in Out' : array'[b] = y
    OBVIOUS
  <2>1. CASE \E i \in In : block_ptrs[i] = y
    BY <1>2, <1>3, <1>4, <2>1 DEF x
  <2>2. CASE \E b \in Out : array[b] = y
    BY <1>3, <1>4, <2>2 DEF Out
  <2> QED
    BY <2>1, <2>2 DEF AccountInv
<1>7. \A i \in In' : block_ptrs[i] \in Arrays
  BY <1>2 DEF AccountInv
<1>8. \A b \in Out' : array'[b] \in Arrays
  BY <1>1, <1>3, <1>4 DEF AccountInv, Arrays, Out
<1>9. \A i, j \in In' : block_ptrs[i] = block_ptrs[j] => i = j
  BY <1>2 DEF AccountInv
<1>10. \A b, c \in Out' : array'[b] = array'[c] => b = c
  BY <1>1, <1>3, <1>4 DEF AccountInv, Out, x
<1>11. \A i \in In', b \in Out' : block_ptrs[i] # array'[b]
  BY <1>1, <1>2, <1>3, <1>4 DEF AccountInv, Out, x
<1>12. block_ptrs' = block_ptrs
  OBVIOUS
<1>13. AccountInv'
  BY <1>2, <1>5, <1>6, <1>7, <1>8, <1>9, <1>10, <1>11, <1>12 DEF AccountInv
<1> QED
  BY <1>4, <1>13

\* An array is made: all that there are, are out.
LEMMA GrowAccount ==
    ASSUME Typed, SbaType, AccountInv, NEW a \in Apps, a \notin Out, top_index = num_blocks,
           num_blocks' = num_blocks + 1,
           array' = [array EXCEPT ![a] = num_blocks + 1], top_index' = top_index + 1
    PROVE  AccountInv' /\ Out' = Out \cup {a}
<1>1. top_index \in Nat /\ num_blocks \in Nat /\ array \in [Apps -> Nat]
  BY DEF Typed, SbaType
<1>2. In = {} /\ In' = {}
  BY <1>1 DEF In
<1>3. Arrays' = Arrays \cup {num_blocks + 1} /\ num_blocks + 1 \notin Arrays
  BY <1>1 DEF Arrays
<1>4. array'[a] = num_blocks + 1 /\ \A b \in Apps : b # a => array'[b] = array[b]
  BY <1>1
<1>5. Out' = Out \cup {a}
  BY <1>1, <1>4 DEF Out, NoArray
<1>6. Cardinality(Out') = top_index'
  BY <1>1, <1>5, OutFinite DEF AccountInv
<1>7. \A y \in Arrays' : \E b \in Out' : array'[b] = y
  <2> SUFFICES ASSUME NEW y \in Arrays' PROVE \E b \in Out' : array'[b] = y
    OBVIOUS
  <2>1. CASE y = num_blocks + 1
    BY <1>4, <1>5, <2>1
  <2>2. CASE y \in Arrays
    <3>1. PICK b \in Out : array[b] = y
      BY <1>2, <2>2 DEF AccountInv
    <3> QED
      BY <1>4, <1>5, <3>1 DEF Out
  <2> QED
    BY <1>3, <2>1, <2>2
<1>8. \A b \in Out' : array'[b] \in Arrays'
  BY <1>3, <1>4, <1>5 DEF AccountInv, Out
<1>9. \A b, c \in Out' : array'[b] = array'[c] => b = c
  BY <1>3, <1>4, <1>5 DEF AccountInv, Out
<1>10. AccountInv'
  BY <1>2, <1>6, <1>7, <1>8, <1>9 DEF AccountInv
<1> QED
  BY <1>5, <1>10

\* The new array has one element, which is NULL.
LEMMA GrowPools ==
    ASSUME SbaType, PoolInv, top_index = num_blocks,
           block_ptrs' = GrownPtrs, num_blocks' = num_blocks + 1, top_index' = top_index + 1,
           num_elem' = Append(num_elem, def_array_len), elems' = Append(elems, {}),
           UNCHANGED pools
    PROVE  /\ SbaType' /\ PoolInv'
           /\ \A x \in 1 .. Len(num_elem) : num_elem'[x] = num_elem[x]
<1>1. PICK len \in Nat \ {0} : num_blocks <= len /\ block_ptrs \in [0 .. len - 1 -> Nat]
  BY DEF SbaType
<1>2. num_blocks \in Nat /\ top_index \in Nat
  BY DEF SbaType
<1>3. Cardinality(DOMAIN block_ptrs) = len
  <2>1. Cardinality(0 .. len - 1) = len
    BY FS_Interval
  <2> QED
    BY <1>1, <2>1
<1>4. \E l \in Nat \ {0} : num_blocks' <= l /\ block_ptrs' \in [0 .. l - 1 -> Nat]
  <2>1. CASE num_blocks < len
    <3>1. block_ptrs' = [block_ptrs EXCEPT ![num_blocks] = num_blocks + 1]
      BY <1>3, <2>1 DEF GrownPtrs
    <3>2. block_ptrs' \in [0 .. len - 1 -> Nat]
      BY <1>1, <1>2, <2>1, <3>1
    <3>3. num_blocks' <= len
      BY <1>1, <1>2, <2>1
    <3> QED
      BY <3>2, <3>3
  <2>2. CASE num_blocks >= len
    <3>1. block_ptrs' = [i \in 0 .. 2 * len - 1 |->
                           IF i = num_blocks THEN num_blocks + 1
                           ELSE IF i \in top_index .. num_blocks - 1 THEN block_ptrs[i]
                           ELSE NoArray]
      BY <1>1, <1>2, <1>3, <2>2 DEF GrownPtrs
    <3>2. top_index .. num_blocks - 1 = {}
      BY <1>2
    <3>3. block_ptrs' \in [0 .. (2 * len) - 1 -> Nat]
      BY <1>2, <3>1, <3>2 DEF NoArray
    <3>4. num_blocks' <= 2 * len /\ 2 * len \in Nat \ {0}
      BY <1>1, <1>2
    <3> QED
      BY <3>3, <3>4
  <2>3. num_blocks < len \/ num_blocks >= len
    BY <1>1, <1>2
  <2> QED
    BY <2>1, <2>2, <2>3
<1>5. /\ num_elem' \in Seq(Nat \ {0}) /\ Len(num_elem') = num_blocks'
      /\ \A x \in 1 .. Len(num_elem) : num_elem'[x] = num_elem[x]
  BY AppendProperties DEF SbaType, def_array_len
<1>6. elems' \in Seq(SUBSET Nat) /\ Len(elems') = num_blocks'
  <2> DEFINE S == SUBSET Nat
  <2>1. elems \in Seq(S) /\ {} \in S
    BY DEF SbaType
  <2> HIDE DEF S
  <2>2. Append(elems, {}) \in Seq(S) /\ Len(Append(elems, {})) = Len(elems) + 1
    BY <2>1, AppendProperties
  <2> QED
    BY <2>2 DEF SbaType, S
<1>7. /\ \A x \in 1 .. num_blocks : elems'[x] = elems[x]
      /\ elems'[num_blocks + 1] = {}
  BY DEF SbaType
<1>8. SbaType'
  <2>1. num_blocks' \in Nat /\ top_index' \in 0 .. num_blocks'
    BY <1>2
  <2> QED
    BY <1>4, <1>5, <1>6, <2>1 DEF SbaType
<1>9. Arrays' = Arrays \cup {num_blocks + 1}
  BY <1>2 DEF Arrays
<1>10. PoolInv'
  <2>1. ASSUME NEW p \in pools
        PROVE  p[1] \in Arrays' /\ p[2] \in elems'[p[1]] /\ p = <<p[1], p[2], 0>>
    BY <1>7, <1>9 DEF PoolInv, Arrays
  <2>2. ASSUME NEW x \in Arrays', NEW t \in elems'[x] PROVE <<x, t, 0>> \in pools
    BY <1>7, <1>9 DEF PoolInv, Arrays
  <2> QED
    BY <2>1, <2>2 DEF PoolInv
<1> QED
  BY <1>5, <1>8, <1>10

LEMMA CheckoutStep ==
    ASSUME IInv, NEW a \in Apps, Checkout(a)
    PROVE  IInv'
<1>1. /\ ended = "no" /\ pc[a] = "checkout" /\ pc' = [pc EXCEPT ![a] = "resize"]
      /\ top_index' = top_index + 1
      /\ UNCHANGED <<tls, global_rntm, user_rntm, pools, rntm_l, n_threads, state, ended>>
  BY DEF Checkout, Goto, rntms
<1>2. Typed /\ SbaType /\ AccountInv /\ PoolInv
  BY <1>1, NotFinalized DEF IInv
<1>3. /\ a \notin Out /\ Settled(rntm_l[a]) /\ (rntm_l[a].ti = "single" => rntm_l[a].nt = 1)
      /\ Team(a) = {}
  BY <1>1 DEF IInv, OpInv, OpOf, Out
<1>4. RequestInv'
  BY <1>1 DEF IInv, RequestInv, Cells
<1>5. /\ SbaType' /\ PoolInv' /\ AccountInv' /\ Out' = Out \cup {a}
      /\ \A x \in 1 .. Len(num_elem) : num_elem'[x] = num_elem[x]
      /\ array' \in [Apps -> Nat] /\ \A b \in Apps : b # a => array'[b] = array[b]
  <2>1. CASE top_index < num_blocks
    <3>1. /\ array' = [array EXCEPT ![a] = block_ptrs[top_index]]
          /\ UNCHANGED <<block_ptrs, num_blocks, num_elem, elems>>
      BY <2>1 DEF Checkout
    <3>2. AccountInv' /\ Out' = Out \cup {a}
      BY <1>1, <1>2, <1>3, <2>1, <3>1, TakeAccount
    <3>3. SbaType' /\ PoolInv'
      BY <1>1, <1>2, <2>1, <3>1 DEF SbaType, PoolInv, Arrays
    <3>4. block_ptrs[top_index] \in Nat
      BY <1>2, <2>1 DEF SbaType
    <3> QED
      BY <1>2, <3>1, <3>2, <3>3, <3>4 DEF Typed
  <2>2. CASE ~(top_index < num_blocks)
    <3>1. /\ block_ptrs' = GrownPtrs /\ num_blocks' = num_blocks + 1
          /\ num_elem' = Append(num_elem, def_array_len) /\ elems' = Append(elems, {})
          /\ array' = [array EXCEPT ![a] = num_blocks + 1]
      BY <2>2 DEF Checkout
    <3>2. top_index = num_blocks /\ num_blocks + 1 \in Nat
      BY <1>2, <2>2 DEF SbaType
    <3>3. AccountInv' /\ Out' = Out \cup {a}
      BY <1>1, <1>2, <1>3, <3>1, <3>2, GrowAccount
    <3>4. SbaType' /\ PoolInv' /\ \A x \in 1 .. Len(num_elem) : num_elem'[x] = num_elem[x]
      BY <1>1, <1>2, <3>1, <3>2, GrowPools
    <3> QED
      BY <1>2, <3>1, <3>2, <3>3, <3>4 DEF Typed
  <2> QED
    BY <2>1, <2>2
<1>6. Typed'
  BY <1>1, <1>2, <1>5 DEF Typed, Points
<1>7. SbaInv'
  BY <1>1, <1>5 DEF SbaInv
<1>8. ASSUME NEW b \in Apps PROVE OpOf(b)'
  <2>1. CASE b # a
    <3>1. b \in Out => /\ num_elem[array[b]] \in Int /\ num_elem'[array[b]] \in Int
                       /\ num_elem[array[b]] <= num_elem'[array[b]]
      BY <1>1, <1>5, Lengths
    <3>2. pc'[b] = pc[b] /\ array'[b] = array[b]
      BY <1>1, <1>5, <2>1 DEF IInv, Typed
    <3> QED
      BY <1>1, <3>1, <3>2, OpStays DEF IInv, OpInv, Typed
  <2>2. CASE b = a
    <3>1. pc'[a] = "resize" /\ array'[a] # NoArray /\ Team(a)' = {}
      BY <1>1, <1>3, <1>5 DEF IInv, Typed, Team, Out
    <3> QED
      BY <1>1, <1>3, <2>2, <3>1 DEF OpOf
  <2> QED
    BY <2>1, <2>2
<1> QED
  BY <1>4, <1>6, <1>7, <1>8 DEF IInv, OpInv

LEMMA CheckinStep ==
    ASSUME IInv, NEW a \in Apps, Checkin(a)
    PROVE  IInv'
<1> DEFINE x == array[a]
           top == top_index - 1
<1>1. /\ ended = "no" /\ pc[a] = "checkin" /\ pc' = [pc EXCEPT ![a] = "idle"]
      /\ block_ptrs' = [block_ptrs EXCEPT ![top] = x] /\ top_index' = top
      /\ array' = [array EXCEPT ![a] = NoArray]
      /\ rntm_l' = [rntm_l EXCEPT ![a] = Initializer]
      /\ UNCHANGED <<tls, global_rntm, user_rntm, num_blocks, num_elem, elems, pools,
                     n_threads, state, ended>>
  BY DEF Checkin, Push, Goto, rntms
<1>2. Typed /\ SbaType /\ AccountInv /\ PoolInv
  BY <1>1, NotFinalized DEF IInv
<1>3. a \in Out /\ Team(a) = {} /\ x \in Arrays
  BY <1>1, <1>2 DEF IInv, OpInv, OpOf, Out, AccountInv
<1>4. /\ Out # {} /\ IsFiniteSet(Out) /\ Cardinality(Out \ {a}) = Cardinality(Out) - 1
  BY <1>3, OutFinite
<1>5. top_index # 0
  BY <1>2, <1>4, FS_EmptySet DEF AccountInv
<1>6. top \in Nat /\ top < num_blocks /\ num_blocks \in Nat /\ top_index = top + 1
  BY <1>2, <1>5 DEF SbaType
<1>7. PICK len \in Nat \ {0} : num_blocks <= len /\ block_ptrs \in [0 .. len - 1 -> Nat]
  BY <1>2 DEF SbaType
<1>8. x \in Nat /\ x # NoArray
  BY <1>3 DEF Out, Arrays
<1>9. /\ array'[a] = NoArray /\ \A b \in Apps : b # a => array'[b] = array[b]
      /\ array' \in [Apps -> Nat]
  BY <1>1, <1>2 DEF Typed, NoArray
<1>10. Initializer \in RntmType
  BY DEF Initializer, RntmType, Impls
<1> HIDE DEF x, top
<1>11. /\ block_ptrs' \in [0 .. len - 1 -> Nat] /\ block_ptrs'[top] = x
       /\ \A i \in In : block_ptrs'[i] = block_ptrs[i]
  BY <1>1, <1>6, <1>7, <1>8 DEF In
<1>12. SbaType'
  <2>1. top_index' \in 0 .. num_blocks
    BY <1>1, <1>6
  <2>2. \E l \in Nat \ {0} : num_blocks <= l /\ block_ptrs' \in [0 .. l - 1 -> Nat]
    BY <1>7, <1>11
  <2> QED
    BY <1>1, <1>2, <2>1, <2>2 DEF SbaType
<1>13. AccountInv'
  <2>1. In' = In \cup {top} /\ top \notin In /\ Arrays' = Arrays
    BY <1>1, <1>6 DEF In, Arrays
  <2>2. Out' = Out \ {a}
    BY <1>9 DEF Out
  <2>3. Cardinality(Out') = top_index'
    BY <1>1, <1>2, <1>4, <1>6, <2>2 DEF AccountInv
  <2>4. \A y \in Arrays : (\E i \in In' : block_ptrs'[i] = y) \/ (\E b \in Out' : array'[b] = y)
    <3> SUFFICES ASSUME NEW y \in Arrays, ~ \E b \in Out' : array'[b] = y
                 PROVE  \E i \in In' : block_ptrs'[i] = y
      OBVIOUS
    <3>1. CASE \E i \in In : block_ptrs[i] = y
      BY <1>11, <2>1, <3>1
    <3>2. CASE \E b \in Out : array[b] = y
      <4>1. PICK b \in Out : array[b] = y
        BY <3>2
      <4>2. b = a
        BY <1>9, <2>2, <4>1 DEF Out
      <4>3. y = x
        BY <4>1, <4>2 DEF x
      <4> QED
        BY <1>11, <2>1, <4>3
    <3> QED
      BY <1>2, <3>1, <3>2 DEF AccountInv
  <2>5. \A i \in In' : block_ptrs'[i] \in Arrays
    BY <1>2, <1>3, <1>11, <2>1 DEF AccountInv
  <2>6. \A b \in Out' : array'[b] \in Arrays
    BY <1>2, <1>9, <2>2 DEF AccountInv, Out
  <2>7. \A i \in In : block_ptrs[i] # x
    BY <1>2, <1>3 DEF AccountInv, x
  <2>8. \A i, j \in In' : block_ptrs'[i] = block_ptrs'[j] => i = j
    BY <1>2, <1>11, <2>1, <2>7 DEF AccountInv
  <2>9. \A b, c \in Out' : array'[b] = array'[c] => b = c
    BY <1>2, <1>9, <2>2 DEF AccountInv, Out
  <2>10. \A i \in In', b \in Out' : block_ptrs'[i] # array'[b]
    <3> SUFFICES ASSUME NEW i \in In', NEW b \in Out' PROVE block_ptrs'[i] # array'[b]
      OBVIOUS
    <3>1. b \in Out /\ b # a /\ array'[b] = array[b]
      BY <1>9, <2>2 DEF Out
    <3>2. array[b] # x
      BY <1>2, <1>3, <3>1 DEF AccountInv, x
    <3> QED
      BY <1>2, <1>11, <2>1, <3>1, <3>2 DEF AccountInv
  <2> QED
    BY <2>1, <2>3, <2>4, <2>5, <2>6, <2>8, <2>9, <2>10 DEF AccountInv
<1>14. PoolInv'
  BY <1>1, <1>2 DEF PoolInv, Arrays
<1>15. Typed'
  BY <1>1, <1>2, <1>9, <1>10 DEF Typed, Points
<1>16. RequestInv'
  BY <1>1 DEF IInv, RequestInv, Cells
<1>17. SbaInv'
  BY <1>1, <1>12, <1>13, <1>14 DEF SbaInv
<1>18. ASSUME NEW b \in Apps PROVE OpOf(b)'
  <2>1. CASE b # a
    <3>1. b \in Out => /\ num_elem[array[b]] \in Int /\ num_elem'[array[b]] \in Int
                       /\ num_elem[array[b]] <= num_elem'[array[b]]
      BY <1>1, Lengths
    <3>2. pc'[b] = pc[b] /\ array'[b] = array[b] /\ rntm_l'[b] = rntm_l[b]
      BY <1>1, <1>9, <2>1 DEF IInv, Typed
    <3> QED
      BY <1>1, <3>1, <3>2, OpStays DEF IInv, OpInv, Typed
  <2>2. CASE b = a
    <3>1. pc'[a] = "idle" /\ array'[a] = NoArray /\ Team(a)' = {}
      BY <1>1, <1>2, <1>3, <1>9 DEF Typed, Team
    <3> QED
      BY <2>2, <3>1 DEF OpOf
  <2> QED
    BY <2>1, <2>2
<1> QED
  BY <1>15, <1>16, <1>17, <1>18 DEF IInv, OpInv

\* The library is finalized when all arrays are in, and frees every pool.
LEMMA FinalizeStep ==
    ASSUME IInv, Finalize
    PROVE  IInv'
<1>1. /\ ended = "no" /\ \A a \in Apps : pc[a] = "idle"
      /\ UNCHANGED <<tls, global_rntm, user_rntm, pc, rntm_l, array, n_threads, state>>
  BY DEF Finalize, rntms, running
<1>2. SbaType /\ AccountInv /\ PoolInv
  BY <1>1, NotFinalized
<1>3. Out = {} /\ Out' = {}
  BY <1>1 DEF IInv, OpInv, OpOf, Out
<1>4. top_index = 0
  BY <1>2, <1>3, FS_EmptySet DEF AccountInv
<1>5. /\ ended' = "finalized" /\ num_blocks' = 0 /\ top_index' = 0
      /\ pools' = {p \in pools : ~ \E i \in 0 .. num_blocks - 1 :
                                     p[1] = block_ptrs[i] /\ p[2] \in elems[p[1]]}
  BY <1>4 DEF Finalize
<1>6. pools' = {}
  <2>1. ASSUME NEW p \in pools
        PROVE  \E i \in 0 .. num_blocks - 1 : p[1] = block_ptrs[i] /\ p[2] \in elems[p[1]]
    <3>1. p[1] \in Arrays /\ p[2] \in elems[p[1]]
      BY <1>2 DEF PoolInv
    <3>2. \E i \in In : block_ptrs[i] = p[1]
      BY <1>2, <1>3, <3>1 DEF AccountInv
    <3> QED
      BY <1>4, <3>1, <3>2 DEF In
  <2> QED
    BY <1>5, <2>1
<1>7. SbaInv'
  BY <1>3, <1>5, <1>6 DEF SbaInv
<1>8. Typed' /\ RequestInv'
  BY <1>1, <1>5 DEF IInv, Typed, RequestInv, Cells
<1>9. OpInv'
  BY <1>1 DEF IInv, OpInv, OpOf, Team
<1> QED
  BY <1>7, <1>8, <1>9 DEF IInv

LEMMA StutterStep ==
    ASSUME IInv, UNCHANGED vars
    PROVE  IInv'
<1>1. UNCHANGED <<tls, global_rntm, user_rntm, block_ptrs, num_blocks, top_index, num_elem,
                  elems, pools, pc, rntm_l, array, n_threads, state, ended>>
  BY DEF vars, rntms, sba, running
<1>2. Typed' /\ RequestInv'
  BY <1>1 DEF IInv, Typed, RequestInv, Cells
<1>3. SbaInv'
  <2>1. SbaType' = SbaType /\ AccountInv' = AccountInv /\ PoolInv' = PoolInv /\ Out' = Out
    BY <1>1 DEF SbaType, AccountInv, PoolInv, In, Out, Arrays
  <2> QED
    BY <1>1, <2>1 DEF IInv, SbaInv
<1>4. OpInv'
  BY <1>1 DEF IInv, OpInv, OpOf, Team, Entered
<1> QED
  BY <1>2, <1>3, <1>4 DEF IInv

LEMMA StepIInv ==
    ASSUME IInv, [Next]_vars
    PROVE  IInv'
<1>1. ASSUME NEW a \in Apps, SetGlobal(a) \/ SetLocal(a)
      PROVE  IInv'
  BY <1>1, SetStep
<1>2. ASSUME NEW a \in Apps, Begin(a)
      PROVE  IInv'
  BY <1>2, BeginStep
<1>3. ASSUME NEW a \in Apps, Step(a)
      PROVE  IInv'
  <2>1. CASE Checkout(a)
    BY <2>1, CheckoutStep
  <2>2. CASE Resize(a)
    BY <2>2, ResizeStep
  <2>3. CASE Launch(a)
    BY <2>3, LaunchStep
  <2>4. CASE Join(a)
    BY <2>4, JoinStep
  <2>5. CASE Checkin(a)
    BY <2>5, CheckinStep
  <2>6. ASSUME NEW t \in Team(a), Enter(a, t)
        PROVE  IInv'
    BY <2>6, EnterStep
  <2>7. ASSUME NEW t \in Team(a), Leave(a, t)
        PROVE  IInv'
    BY <2>7, LeaveStep
  <2> QED
    BY <1>3, <2>1, <2>2, <2>3, <2>4, <2>5, <2>6, <2>7 DEF Step
<1>4. CASE Finalize
  BY <1>4, FinalizeStep
<1>5. CASE Terminated \/ UNCHANGED vars
  BY <1>5, StutterStep DEF Terminated
<1> QED
  BY <1>1, <1>2, <1>3, <1>4, <1>5 DEF Next

\* The invariant holds in every state of every application: what is asked
\* for, the allocator and the operations are always as IInv says
\* (bli_l3_decor.c, bli_rntm.c, bli_apool.c, bli_array.c).
THEOREM Invariance == Spec => []IInv
<1>1. Init => IInv
  BY InitIInv
<1>2. IInv /\ [Next]_vars => IInv'
  BY StepIInv
<1> QED
  BY <1>1, <1>2, PTL DEF Spec

\* A thread that has entered an operation finds that the ways multiply to the
\* number of threads that there are, and that its communicator and its
\* runtime object say the same (bli_l3_thread_decorator_thread_check).
THEOREM WaysAgree == Spec => []TeamIsWays
<1>1. IInv => TeamIsWays
  <2> SUFFICES ASSUME IInv, NEW a \in Apps, Entered(a) # {}
               PROVE  /\ n_threads[a] = Cardinality(Team(a))
                      /\ rntm_l[a].nt = n_threads[a]
                      /\ CalcNumThreads(rntm_l[a]) = n_threads[a]
    BY DEF TeamIsWays
  <2>1. pc[a] = "run"
    BY DEF IInv, OpInv, OpOf, Entered
  <2>2. n_threads[a] = Cardinality(Team(a)) /\ rntm_l[a].nt = n_threads[a]
    BY <2>1, TeamOf
  <2>3. CalcNumThreads(rntm_l[a]) = rntm_l[a].nt
    BY <2>1 DEF IInv, OpInv, OpOf, Settled
  <2> QED
    BY <2>2, <2>3
<1> QED
  BY <1>1, Invariance, PTL

\* Arrays are never lost, shared or checked in twice, and bli_apool_finalize
\* finds all of them in the pool.
THEOREM NoArrayIsLost == Spec => []ArraysAccounted
<1>1. IInv => ArraysAccounted
  <2> SUFFICES ASSUME IInv PROVE ArraysAccounted
    OBVIOUS
  <2>1. ended # "finalize" /\ Out \subseteq Apps
    BY DEF IInv, Typed, Out
  <2>2. CASE ended = "finalized"
    <3>1. num_blocks = 0 /\ top_index = 0 /\ Out = {}
      BY <2>2 DEF IInv, SbaInv
    <3>2. top_index .. num_blocks - 1 = {} /\ Arrays = {}
      BY <3>1 DEF Arrays
    <3> QED
      BY <2>1, <3>1, <3>2, FS_EmptySet DEF ArraysAccounted, Out
  <2>3. CASE ended # "finalized"
    <3>1. SbaType /\ AccountInv
      BY <2>3 DEF IInv, SbaInv
    <3>2. top_index \in Nat /\ num_blocks \in Nat /\ top_index <= num_blocks
      BY <3>1 DEF SbaType
    <3>3. Cardinality(In) = num_blocks - top_index
      <4> DEFINE last == num_blocks - 1
      <4>1. top_index \in Int /\ last \in Int /\ num_blocks = last + 1
        BY <3>2
      <4> HIDE DEF last
      <4>2. Cardinality(top_index .. last) =
              IF top_index > last THEN 0 ELSE last - top_index + 1
        BY <4>1, FS_Interval
      <4>3. Cardinality(top_index .. last) = num_blocks - top_index
        BY <3>2, <4>1, <4>2
      <4> QED
        BY <4>3 DEF In, last
    <3>4. Cardinality(In) + Cardinality(Out) = num_blocks
      BY <3>1, <3>2, <3>3 DEF AccountInv
    <3>5. {block_ptrs[i] : i \in In} \cup {array[a] : a \in Out} = Arrays
      BY <3>1 DEF AccountInv
    <3> QED
      BY <2>1, <3>4, <3>5 DEF ArraysAccounted, In, Out
  <2> QED
    BY <2>2, <2>3
<1> QED
  BY <1>1, Invariance, PTL

\* No pool of a thread is lost when its array is resized, and none is left
\* when the allocator has been finalized (bli_array_resize,
\* bli_apool_array_elem, bli_apool_finalize).
THEOREM NoPoolIsLost == Spec => []PoolsKept
<1>1. IInv => PoolsKept
  <2> SUFFICES ASSUME IInv PROVE PoolsKept
    OBVIOUS
  <2>1. CASE ended = "finalized"
    <3>1. pools = {} /\ Arrays = {}
      BY <2>1 DEF IInv, SbaInv, Arrays
    <3> QED
      BY <3>1 DEF PoolsKept
  <2>2. CASE ended # "finalized"
    <3>1. PoolInv
      BY <2>2 DEF IInv, SbaInv
    <3>2. ASSUME NEW x \in Arrays, NEW t \in elems[x]
          PROVE  Cardinality(PoolsOf(x, t)) = 1
      <4>1. PoolsOf(x, t) = {<<x, t, 0>>}
        BY <3>1 DEF PoolInv, PoolsOf
      <4> QED
        BY <4>1, FS_Singleton
    <3> QED
      BY <3>1, <3>2 DEF PoolsKept, PoolInv
  <2> QED
    BY <2>1, <2>2
<1> QED
  BY <1>1, Invariance, PTL

\* Whatever is asked for, in ways or in a number of threads, both
\* factorizations make ways that multiply to the number of threads
\* (bli_rntm_factorize, bli_rntm_factorize_sup).
THEOREM FactorizationsMultiply ==
    ASSUME NEW r \in RntmType, NEW m \in Nat \ {0}, NEW n \in Nat \ {0}
    PROVE  /\ CalcNumThreads(Factorize(m, n, Sanitize(r))) = Factorize(m, n, Sanitize(r)).nt
           /\ CalcNumThreads(FactorizeSup(m, n, Sanitize(r)))
                = FactorizeSup(m, n, Sanitize(r)).nt
<1>1. Requested(Sanitize(r))
  BY SanitizeRequests
<1> QED
  BY <1>1, FactorizeSettles DEF Settled
=============================================================================
