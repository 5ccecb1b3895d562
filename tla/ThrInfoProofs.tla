---------------------------- MODULE ThrInfoProofs ----------------------------
(***************************************************************************)
(* Theorems about ThrInfo, for any number of threads and any operations:   *)
(* trees of any shape, rebuilt any number of times.                        *)
(***************************************************************************)
EXTENDS ThrInfo, FiniteSetTheorems, WellFoundedInduction, TLAPS

-----------------------------------------------------------------------------
(***************************************************************************)
(* What an operation o determines: the nodes of its e-th tree, and the     *)
(* barriers that its threads come to.                                      *)
(***************************************************************************)

NodesOf(o, e) == 1 .. Len(o.trees[e]) + 1
Par(o, e, i) == o.trees[e][i - 1].par
Way(o, e, i) == o.trees[e][i - 1].way
SizeOf(o, e, i) == TeamSize(o.trees[e])[i]

\* The first thread of t's team, when teams have n threads
Base(t, n) == t - (t % n)

\* The node for which the communicator of each node was made
Origins(tree) ==
    LET origin[i \in 1 .. Len(tree) + 1] ==
            IF i = 1 THEN 1
            ELSE IF tree[i - 1].way = 1 THEN origin[tree[i - 1].par] ELSE i
    IN  origin
Origin(o, e, i) == Origins(o.trees[e])[i]

\* Communicators are created for the node.
Made(o, e, i) == i # 1 /\ Way(o, e, i) # 1 /\ SizeOf(o, e, i) # 1

CommOf(o, e, i, t) ==
    LET j == Origin(o, e, i)
    IN IF j = 1 THEN GL_COMM
       ELSE IF SizeOf(o, e, i) = 1 THEN SINGLE_COMM
       ELSE <<e, j, Base(t, SizeOf(o, e, i))>>

NodeOf(o, e, i, t) ==
    Node(CommOf(o, e, i, t), SizeOf(o, e, i), t % SizeOf(o, e, i),
         IF i = 1 THEN 1 ELSE Way(o, e, i),
         IF i = 1 THEN 0 ELSE (t % SizeOf(o, e, Par(o, e, i))) \div SizeOf(o, e, i),
         Made(o, e, i))

\* Those of which t is the chief
ChiefOf(o, e, t) == {i \in NodesOf(o, e) : Made(o, e, i) /\ t % SizeOf(o, e, i) = 0}

\* A place in the program of a thread: <<epoch, number of nodes, stage>>.
\* Barriers are between the stages: 0 is after the barrier of an attachment, 1 to 3
\* are after those of a split that makes communicators, 4 is the end of a tree,
\* followed by the synchronisations of the work and the closing barrier.
StageOf(o, point, w) ==
    IF point \in {"grow", "drop"} THEN 0 ELSE IF point = "receive" THEN 1
    ELSE IF point = "fill" THEN 2 ELSE IF point = "attach" THEN 3
    ELSE IF point = "update" THEN 4 ELSE IF point = "work" THEN 4 + w
    ELSE 5 + Len(o.work)

Before(a, b) ==
    \/ a[1] < b[1]
    \/ a[1] = b[1] /\ a[2] < b[2]
    \/ a[1] = b[1] /\ a[2] = b[2] /\ a[3] < b[3]

\* The node at whose communicator the barrier before a place is
NodeAt(o, b) ==
    IF b[3] = 0 THEN Par(o, b[1], b[2])
    ELSE IF b[3] \in 1 .. 3 THEN Par(o, b[1], b[2] + 1)
    ELSE IF b[3] \in 5 .. 4 + Len(o.work) THEN o.work[b[3] - 4] ELSE 1

Places(o) == (1 .. Len(o.trees)) \X (Nat \ {0}) \X Nat

\* Those with a barrier in which threads wait
BarrierAt(o, b) ==
    /\ b \in Places(o) /\ b[2] \in NodesOf(o, b[1])
    /\ \/ b[3] = 0 /\ b[2] # 1
       \/ b[3] \in 1 .. 3 /\ b[2] + 1 \in NodesOf(o, b[1]) /\ Made(o, b[1], b[2] + 1)
       \/ /\ b[1] = Len(o.trees) /\ b[2] = Len(o.trees[b[1]]) + 1
          /\ b[3] \in 5 .. 5 + Len(o.work)
    /\ SizeOf(o, b[1], NodeAt(o, b)) # 1

SizeAt(o, b) == SizeOf(o, b[1], NodeAt(o, b))
CommAt(o, b, t) == CommOf(o, b[1], NodeAt(o, b), t)

-----------------------------------------------------------------------------
(***************************************************************************)
(* The inductive invariant                                                 *)
(***************************************************************************)

InBarrier(t) == pc[t] \in {"arrive", "spin"}
\* Where the thread is, or goes to from the barrier
Point(t) == IF InBarrier(t) THEN ret[t] ELSE pc[t]
Place(t) == <<epoch[t], Len(nodes[t]), StageOf(op, Point(t), worked[t])>>

\* t has come to the barrier before place b, and is through.
Arrived(t, b) == Before(b, Place(t)) \/ (b = Place(t) /\ pc[t] # "arrive")
Past(t, b) == Before(b, Place(t)) \/ (b = Place(t) /\ ~InBarrier(t))

\* t waits for threads that have not come yet.
Waits(t) == pc[t] = "spin" /\ comms[at[t]].sense = orig_sense[t]
Waiting(c) == {t \in Threads : Waits(t) /\ at[t] = c}

Points == {"grow", "receive", "fill", "attach", "drop", "update", "work", "free", "done"}

CommType == [live : BOOLEAN, n_threads : Nat, arrived : Nat, sense : {0, 1},
             sent_object : (Nat \X Nat \X Nat) \cup {NULL}]
ArrayType == [live : BOOLEAN, elem : [Threads -> (Nat \X Nat \X Nat) \cup {NULL}]]

Typed ==
    /\ op \in Operations
    /\ \A c \in DOMAIN comms : comms[c] \in CommType
    /\ \A a \in DOMAIN arrays : arrays[a] \in ArrayType
    /\ pc \in [Threads -> Points \cup {"arrive", "spin"}]
    /\ ret \in [Threads -> Points]
    /\ at \in [Threads -> Nat \X Nat \X Nat]
    /\ orig_sense \in [Threads -> {0, 1}]
    /\ epoch \in [Threads -> 1 .. Len(op.trees)]
    /\ DOMAIN nodes = Threads /\ DOMAIN gone = Threads
    /\ new_comms \in [Threads -> (Nat \X Nat \X Nat) \cup {NULL}]
    /\ worked \in [Threads -> Nat]

\* The nodes of a thread are those of the tree it is at.
NodesOk(t) ==
    /\ Len(nodes[t]) \in NodesOf(op, epoch[t])
    /\ nodes[t] = [i \in 1 .. Len(nodes[t]) |-> NodeOf(op, epoch[t], i, t)]

\* The point of a thread fits its tree.
PointOk(t) ==
    LET o == op
        e == epoch[t]
        n == Len(nodes[t])
    IN /\ Point(t) \in {"receive", "fill", "attach"} =>
            n + 1 \in NodesOf(o, e) /\ Made(o, e, n + 1)
       /\ Point(t) = "drop" => Made(o, e, n)
       /\ Point(t) = "grow" /\ InBarrier(t) => ~ Made(o, e, n)
       /\ Point(t) \in {"update", "work", "free", "done"} => n = Len(o.trees[e]) + 1
       /\ Point(t) = "update" => e < Len(o.trees)
       /\ Point(t) \in {"work", "free", "done"} => e = Len(o.trees)
       /\ Point(t) \notin {"work", "free", "done"} => worked[t] = 0
       /\ worked[t] <= Len(o.work)
       /\ InBarrier(t) =>
            /\ BarrierAt(o, Place(t)) /\ Point(t) # "done"
            /\ at[t] = CommAt(o, Place(t), t)

FreedOk(t) ==
    /\ gone[t] \subseteq ChiefOf(op, epoch[t], t)
    /\ Point(t) \notin {"update", "free", "done"} => gone[t] = {}
    /\ InBarrier(t) => gone[t] = {}
    /\ pc[t] = "done" => gone[t] = ChiefOf(op, epoch[t], t)

\* The array that a thread has received is that of its parent's chief.
ArrayOf(t, i) == <<epoch[t], i, Base(t, SizeOf(op, epoch[t], Par(op, epoch[t], i)))>>

ReceivedOk(t) ==
    LET n == Len(nodes[t])
    IN /\ Point(t) \in {"fill", "attach"} => new_comms[t] = ArrayOf(t, n + 1)
       /\ Point(t) = "drop" => new_comms[t] = ArrayOf(t, n)

\* The chief's object stays from the broadcast to the end of the split.
SentOk(t) ==
    LET n == Len(nodes[t])
        i == Par(op, epoch[t], n + 1)
    IN Point(t) \in {"receive", "fill", "attach"} /\ t % SizeOf(op, epoch[t], i) = 0 =>
            comms[CommOf(op, epoch[t], i, t)].sent_object = <<epoch[t], n + 1, t>>

ThreadInv ==
    \A t \in Threads :
        NodesOk(t) /\ PointOk(t) /\ FreedOk(t) /\ ReceivedOk(t) /\ SentOk(t)

\* The communicators that have been made, and not freed
Filled(e, i, t) == ~ Before(Place(t), <<e, i - 1, 3>>)
MadeComms ==
    {c \in (1 .. Len(op.trees)) \X Nat \X Threads :
        c[2] \in ChiefOf(op, c[1], c[3]) /\ Filled(c[1], c[2], c[3])}

CommsInv ==
    /\ DOMAIN comms = {GL_COMM, SINGLE_COMM} \cup MadeComms
    /\ comms[GL_COMM].n_threads = NT
    /\ comms[SINGLE_COMM].n_threads = 1 /\ comms[SINGLE_COMM].live
    /\ comms[GL_COMM].live \/ \A t \in Threads : pc[t] = "done"
    /\ \A c \in MadeComms :
        /\ comms[c].n_threads = SizeOf(op, c[1], c[2])
        /\ comms[c].live <=> epoch[c[3]] = c[1] /\ c[2] \notin gone[c[3]]

\* The arrays that have been made, and not dropped, and what is in them
Offered(e, i, t) == ~ Before(Place(t), <<e, i - 1, 1>>)
MadeArrays ==
    {a \in (1 .. Len(op.trees)) \X Nat \X Threads :
        /\ a[2] \in NodesOf(op, a[1]) /\ Made(op, a[1], a[2])
        /\ a[3] % SizeOf(op, a[1], Par(op, a[1], a[2])) = 0
        /\ Offered(a[1], a[2], a[3])}
Kept(e, i, t) ==
    /\ epoch[t] = e
    /\ Len(nodes[t]) = i - 1 \/ (Len(nodes[t]) = i /\ Point(t) = "drop")

ArraysInv ==
    /\ DOMAIN arrays = MadeArrays
    /\ \A a \in MadeArrays :
        /\ arrays[a].live <=> Kept(a[1], a[2], a[3])
        /\ \A u \in Threads :
            LET parent == SizeOf(op, a[1], Par(op, a[1], a[2]))
                size == SizeOf(op, a[1], a[2])
            IN Base(u, parent) = a[3] /\ u % size = 0 /\ Filled(a[1], a[2], u) =>
                    arrays[a].elem[(u % parent) \div size] = <<a[1], a[2], u>>

\* Barriers: who is through, or may go, has been joined by the whole team; where
\* threads wait, the others have not come.
Peers(t, u, b) == BarrierAt(op, b) /\ Base(t, SizeAt(op, b)) = Base(u, SizeAt(op, b))
Synced(t, u, b) ==
    /\ Past(t, b) => Arrived(u, b)
    /\ b = Place(t) /\ pc[t] = "spin" /\ ~Waits(t) => Arrived(u, b)
    /\ b = Place(t) /\ Waits(t) /\ Arrived(u, b) => Place(u) = b /\ Waits(u)

SyncInv ==
    /\ \A t, u \in Threads : \A b \in Places(op) : Peers(t, u, b) => Synced(t, u, b)
    /\ \A c \in DOMAIN comms : comms[c].arrived = Cardinality(Waiting(c))

IInv == Typed /\ ThreadInv /\ CommsInv /\ ArraysInv /\ SyncInv

-----------------------------------------------------------------------------
(***************************************************************************)
(* Numbers                                                                 *)
(***************************************************************************)

\* Division, as the solver is to know it.
LEMMA DivMod ==
    ASSUME NEW a \in Nat, NEW b \in Nat \ {0}
    PROVE  /\ a \div b \in Nat
           /\ a % b \in 0 .. b - 1
           /\ a = b * (a \div b) + (a % b)
BY SMT

\* Products of natural numbers, as the solver is to know them.
LEMMA Product == \A a, b \in Nat : a * b \in Nat
BY SMT

LEMMA ProductMonotone ==
    ASSUME NEW a \in Nat, NEW b \in Nat, NEW k \in Nat, a <= b
    PROVE  k * a <= k * b
BY SMT

LEMMA Associative == \A a, b, c \in Nat : (a * b) * c = a * (b * c)
BY SMT

LEMMA Distributive == \A a, b, c \in Nat : a * (b + c) = a * b + a * c
BY SMT

LEMMA OneMore ==
    ASSUME NEW a \in Nat, NEW k \in Nat
    PROVE  k * (a + 1) = (k * a) + k
BY SMT

\* The quotient is where the number lies between two multiples.
LEMMA Quotient ==
    ASSUME NEW b \in Nat \ {0}, NEW q \in Nat, NEW a \in Nat,
           b * q <= a, a < (b * q) + b
    PROVE  a \div b = q /\ a % b = a - b * q
<1> DEFINE d == a \div b
           e == a % b
<1>1. d \in Nat /\ e \in 0 .. b - 1 /\ a = (b * d) + e
  BY DivMod
<1>2. b * d \in Nat /\ b * q \in Nat
  BY <1>1, Product
<1> HIDE DEF d, e
<1>3. b * (d + 1) = (b * d) + b /\ b * (q + 1) = (b * q) + b
  BY <1>1, OneMore
<1>4. ~ (d < q)
  <2> SUFFICES ASSUME d < q PROVE FALSE
    OBVIOUS
  <2>1. d + 1 \in Nat /\ d + 1 <= q
    BY <1>1
  <2>2. b * (d + 1) <= b * q
    BY <2>1, ProductMonotone
  <2> QED
    BY <1>1, <1>2, <1>3, <2>2
<1>5. ~ (q < d)
  <2> SUFFICES ASSUME q < d PROVE FALSE
    OBVIOUS
  <2>1. q + 1 \in Nat /\ q + 1 <= d
    BY <1>1
  <2>2. b * (q + 1) <= b * d
    BY <1>1, <2>1, ProductMonotone
  <2> QED
    BY <1>1, <1>2, <1>3, <2>2
<1>6. d = q
  BY <1>1, <1>4, <1>5
<1>7. e = a - b * q
  BY <1>1, <1>2, <1>6
<1> QED
  BY <1>6, <1>7 DEF d, e

\* The first of a team of n is a multiple of n.
LEMMA BaseFacts ==
    ASSUME NEW t \in Nat, NEW n \in Nat \ {0}
    PROVE  /\ Base(t, n) \in Nat /\ t % n \in 0 .. n - 1
           /\ t = Base(t, n) + (t % n)
           /\ Base(t, n) = n * (t \div n)
           /\ Base(t, n) % n = 0 /\ Base(Base(t, n), n) = Base(t, n)
<1> DEFINE q == t \div n
           r == t % n
           p == n * q
<1>1. q \in Nat /\ r \in 0 .. n - 1 /\ t = p + r
  BY DivMod
<1>2. p \in Nat
  BY <1>1, Product
<1>3. p % n = 0
  <2>1. p % n = p - n * q
    <3> HIDE DEF q, r
    <3>1. n * q <= p /\ p < (n * q) + n
      BY <1>2
    <3> HIDE DEF p
    <3> QED
      BY <1>1, <1>2, <3>1, Quotient
  <2> QED
    BY <1>2, <2>1
<1>4. Base(t, n) = p
  <2>1. Base(t, n) = t - r
    BY DEF Base
  <2> HIDE DEF p, r, q
  <2> QED
    BY <1>1, <1>2, <2>1
<1>5. Base(p, n) = p
  <2>1. Base(p, n) = p - (p % n)
    BY DEF Base
  <2> HIDE DEF p, r, q
  <2> QED
    BY <1>2, <1>3, <2>1
<1> QED
  BY <1>1, <1>2, <1>3, <1>4, <1>5

Divides(n, m) == \E k \in Nat \ {0} : m = n * k

\* Teams of n within teams of m
LEMMA TeamsNest ==
    ASSUME NEW t \in Nat, NEW n \in Nat \ {0}, NEW m \in Nat \ {0}, Divides(n, m)
    PROVE  /\ (t % m) % n = t % n
           /\ Base(Base(t, n), m) = Base(t, m)
           /\ (t % m) \div n \in 0 .. m - 1
           /\ Base(t, n) = Base(t, m) + n * ((t % m) \div n)
           /\ Base(t, n) % m = n * ((t % m) \div n)
<1>0. PICK k \in Nat \ {0} : m = n * k
  BY DEF Divides
<1> DEFINE Q == t \div m
           R == t % m
           w == R \div n
           r == R % n
<1>1. Q \in Nat /\ R \in 0 .. m - 1 /\ t = m * Q + R
  BY <1>0, DivMod
<1>2. w \in Nat /\ r \in 0 .. n - 1 /\ R = n * w + r
  <2>1. R \in Nat
    BY <1>1
  <2> HIDE DEF R
  <2> QED
    BY <2>1, DivMod
<1>3. n * w \in Nat /\ m * Q \in Nat /\ k * Q \in Nat
  BY <1>1, <1>2, Product
<1>4. m * Q = n * (k * Q)
  <2> HIDE DEF Q
  <2> QED
    BY <1>0, <1>1, Associative
<1>5. n * ((k * Q) + w) = m * Q + n * w
  <2> HIDE DEF Q, w
  <2>1. n * ((k * Q) + w) = n * (k * Q) + n * w
    BY <1>2, <1>3, Distributive
  <2> QED
    BY <1>4, <2>1
<1>6. t % n = r /\ t \div n = (k * Q) + w
  <2> DEFINE x == (k * Q) + w
  <2>1. x \in Nat /\ t = n * x + r /\ n * x \in Nat
    BY <1>1, <1>2, <1>3, <1>5
  <2>2. n * x <= t /\ t < (n * x) + n
    <3> HIDE DEF x
    <3> QED
      BY <2>1, <1>2
  <2>3. t \div n = x /\ t % n = t - n * x
    <3> HIDE DEF x
    <3> QED
      BY <2>1, <2>2, Quotient
  <2>4. t - n * x = r
    <3> HIDE DEF x, r
    <3> QED
      BY <2>1, <1>2
  <2> QED
    BY <2>3, <2>4
<1>7. Base(t, n) = m * Q + n * w /\ Base(t, m) = m * Q
  <2>1. Base(t, n) = n * (t \div n) /\ Base(t, m) = m * (t \div m)
    BY <1>0, BaseFacts
  <2> QED
    BY <1>5, <1>6, <2>1
<1>8. n * w < m /\ n * w >= w
  <2>1. n * w <= R
    BY <1>1, <1>2, <1>3
  <2>2. n * w >= w
    BY <1>2
  <2> HIDE DEF w, R
  <2> QED
    BY <1>1, <1>3, <2>1, <2>2
<1>9. Base(t, n) % m = n * w
  <2> DEFINE b == Base(t, n)
             p == n * w
             s == m * Q
  <2>1. b = s + p /\ p \in Nat /\ s \in Nat /\ p < m
    BY <1>3, <1>7, <1>8
  <2> HIDE DEF b, p, w
  <2>2. b \in Nat /\ m * Q <= b /\ b < (m * Q) + m
    BY <2>1, <1>0
  <2>3. b % m = b - m * Q
    BY <2>2, <1>0, <1>1, Quotient
  <2>4. b % m = p
    BY <2>1, <2>3
  <2> QED
    BY <2>4 DEF b, p
<1>10. Base(Base(t, n), m) = m * Q
  <2> DEFINE p == n * w
             s == m * Q
             b == Base(t, n)
  <2>1. b = s + p /\ p \in Nat /\ s \in Nat /\ b % m = p
    BY <1>3, <1>7, <1>9
  <2>2. Base(b, m) = b - p
    BY <2>1 DEF Base
  <2> HIDE DEF b, p, w, s
  <2>3. b - p = s
    BY <2>1
  <2> QED
    BY <2>2, <2>3 DEF b, s
<1>11. w \in 0 .. m - 1
  <2> DEFINE p == n * w
  <2>1. p \in Nat /\ p < m /\ p >= w
    BY <1>3, <1>8
  <2> HIDE DEF w, p
  <2> QED
    BY <1>2, <2>1, <1>0
<1> QED
  BY <1>6, <1>7, <1>9, <1>10, <1>11

\* The threads of a team: there are n, if n divides the number of threads.
LEMMA TeamMembers ==
    ASSUME NEW n \in Nat \ {0}, NEW k \in Nat, NT = n * k, NEW t \in Threads
    PROVE  /\ Base(t, n) \in Threads
           /\ {u \in Threads : Base(u, n) = Base(t, n)} = Base(t, n) .. Base(t, n) + n - 1
           /\ IsFiniteSet({u \in Threads : Base(u, n) = Base(t, n)})
           /\ Cardinality({u \in Threads : Base(u, n) = Base(t, n)}) = n
<1> DEFINE b == Base(t, n)
           team == {u \in Threads : Base(u, n) = b}
<1>0. NT \in Nat /\ t \in Nat /\ t < NT
  BY Product DEF Threads
<1>1. b \in Nat /\ b = n * (t \div n) /\ t \div n \in Nat /\ b <= t
      /\ t = b + (t % n) /\ t % n \in 0 .. n - 1
  <2>1. /\ b \in Nat /\ b = n * (t \div n) /\ t \div n \in Nat
        /\ t = b + (t % n) /\ t % n \in 0 .. n - 1
    BY <1>0, BaseFacts, DivMod
  <2> HIDE DEF b
  <2> QED
    BY <2>1, <1>0
<1>11. b \in Nat
  BY <1>1
<1>12. t \div n \in Nat
  BY <1>1
<1>13. b = n * (t \div n)
  BY <1>1
<1>2. b + n <= NT
  <2> DEFINE q == t \div n
  <2>1. q + 1 \in Nat /\ q \in Nat
    <3>1. q \in Nat
      BY <1>12
    <3> HIDE DEF q
    <3> QED
      BY <3>1
  <2>2. b + n = n * (q + 1)
    <3> HIDE DEF q
    <3> QED
      BY <1>1, <2>1, OneMore DEF q
  <2>3. q + 1 <= k
    <3> SUFFICES ASSUME k <= q PROVE FALSE
      <4> HIDE DEF q
      <4> QED
        BY <2>1
    <3>1. n * k <= n * q
      <4> HIDE DEF q
      <4> QED
        BY <2>1, ProductMonotone
    <3>2. NT <= b
      BY <1>1, <3>1
    <3> HIDE DEF b
    <3> QED
      BY <1>0, <1>1, <3>2
  <2>4. n * (q + 1) <= n * k
    <3> HIDE DEF q
    <3> QED
      BY <2>1, <2>3, ProductMonotone
  <2> QED
    BY <2>2, <2>4
<1>3. ASSUME NEW u \in Threads
      PROVE  Base(u, n) = b <=> u \in b .. b + n - 1
  <2>1. u \in Nat /\ u % n \in 0 .. n - 1 /\ u = Base(u, n) + (u % n) /\ Base(u, n) \in Nat
    BY BaseFacts DEF Threads
  <2>2. CASE Base(u, n) = b
    <3> HIDE DEF b
    <3> QED
      BY <2>1, <2>2
  <2>3. CASE u \in b .. b + n - 1
    <3> DEFINE q == t \div n
    <3>1. n * q <= u /\ u < (n * q) + n /\ q \in Nat
      <4> HIDE DEF b
      <4> QED
        BY <1>1, <2>1, <2>3
    <3>2. u \div n = q
      <4> HIDE DEF q
      <4> QED
        BY <3>1, <2>1, Quotient
    <3>3. Base(u, n) = n * q
      BY <3>2, <2>1, BaseFacts
    <3> HIDE DEF b
    <3> QED
      BY <2>3, <3>3, <1>13
  <2> QED
    BY <2>2, <2>3
<1>4. team = b .. b + n - 1
  <2>1. b .. b + n - 1 \subseteq Threads
    <3> HIDE DEF b
    <3> QED
      BY <1>0, <1>1, <1>2 DEF Threads
  <2> QED
    BY <1>3, <2>1
<1>5. b \in Threads
  <2> HIDE DEF b
  <2> QED
    BY <1>0, <1>1, <1>2 DEF Threads
<1>6. IsFiniteSet(b .. b + n - 1) /\ Cardinality(b .. b + n - 1) = n
  <2> HIDE DEF b
  <2>1. b \in Int /\ b + n - 1 \in Int
    BY <1>1
  <2>2. Cardinality(b .. b + n - 1) = IF b > b + n - 1 THEN 0 ELSE (b + n - 1) - b + 1
    BY <2>1, FS_Interval
  <2>3. IsFiniteSet(b .. b + n - 1)
    BY <2>1, FS_Interval
  <2>4. ~ (b > b + n - 1) /\ (b + n - 1) - b + 1 = n
    BY <1>11
  <2> QED
    BY <2>2, <2>3, <2>4
<1> QED
  BY <1>4, <1>5, <1>6

-----------------------------------------------------------------------------
(***************************************************************************)
(* Trees.  A recursion that goes from each node to its parent defines a    *)
(* function.                                                               *)
(***************************************************************************)

\* Every nonempty set of natural numbers has a least element.
LEMMA LeastElement ==
    ASSUME NEW T \in SUBSET Nat, T # {}
    PROVE  \E x \in T : \A y \in T : x <= y
<1>1. PICK x \in T : \A y \in T : ~ (<<y, x>> \in OpToRel(<, Nat))
  BY WFMin, NatLessThanWellFounded, Zenon
<1>2. \A y \in T : ~ (y < x)
  BY <1>1, Zenon DEF OpToRel
<1> QED
  BY <1>2, SMT

Decreasing(parent, n) == \A i \in 2 .. n : parent[i] \in 1 .. i - 1

\* f has the value v at 1, and h gives the others from those of their parents.
Recursive(f, n, v, parent, h) ==
    \A i \in 1 .. n : f[i] = IF i = 1 THEN v ELSE h[<<i, f[parent[i]]>>]

\* A function that is defined by recursion on the parents of nodes exists.
LEMMA RecursionExists ==
    ASSUME NEW n \in Nat, NEW V, NEW v \in V,
           NEW parent \in [2 .. n -> Nat], NEW h \in [(2 .. n) \X V -> V],
           Decreasing(parent, n)
    PROVE  \E f \in [1 .. n -> V] : Recursive(f, n, v, parent, h)
<1> USE DEF Decreasing, Recursive
<1> DEFINE Good(f, b) ==
        \A i \in 1 .. n : i <= b => f[i] = IF i = 1 THEN v ELSE h[<<i, f[parent[i]]>>]
           bad == {b \in Nat : \A f \in [1 .. n -> V] : ~Good(f, b)}
<1>1. CASE bad # {}
  <2>1. PICK b \in bad : \A c \in bad : b <= c
    <3>1. bad \in SUBSET Nat
      OBVIOUS
    <3> HIDE DEF bad
    <3> QED
      BY <1>1, <3>1, LeastElement
  <2>2. b \in Nat
    OBVIOUS
  <2>3. b # 0
    <3>1. [i \in 1 .. n |-> v] \in [1 .. n -> V]
      OBVIOUS
    <3>2. Good([i \in 1 .. n |-> v], 0)
      OBVIOUS
    <3> QED
      BY <3>1, <3>2
  <2>4. b - 1 \in Nat /\ b - 1 \notin bad
    <3> HIDE DEF bad
    <3> QED
      BY <2>1, <2>2, <2>3
  <2>5. PICK f \in [1 .. n -> V] : Good(f, b - 1)
    BY <2>4
  <2> DEFINE y == IF b = 1 THEN v ELSE h[<<b, f[parent[b]]>>]
             g == [f EXCEPT ![b] = y]
  <2>6. CASE b \in 1 .. n
    <3>1. b # 1 => parent[b] \in 1 .. b - 1 /\ parent[b] \in 1 .. n
      <4>1. b # 1 => parent[b] \in 1 .. b - 1
        BY <2>6
      <4> QED
        BY <4>1, <2>6
    <3>2. y \in V
      BY <2>6, <3>1
    <3>3. g \in [1 .. n -> V] /\ g[b] = y /\ \A i \in 1 .. n : i # b => g[i] = f[i]
      BY <2>6, <3>2
    <3>4. ASSUME NEW i \in 1 .. n, i <= b
          PROVE  g[i] = IF i = 1 THEN v ELSE h[<<i, g[parent[i]]>>]
      <4>1. i # 1 => parent[i] \in 1 .. i - 1
        BY <3>4
      <4>2. i # 1 => parent[i] \in 1 .. n /\ parent[i] # b
        BY <4>1, <3>4, <2>2
      <4>3. i # 1 => g[parent[i]] = f[parent[i]]
        BY <4>2, <3>3
      <4>4. CASE i = b
        BY <4>3, <4>4, <3>3
      <4>5. CASE i # b
        <5>1. i <= b - 1
          BY <3>4, <4>5, <2>2
        <5>2. f[i] = IF i = 1 THEN v ELSE h[<<i, f[parent[i]]>>]
          BY <5>1, <2>5
        <5> QED
          BY <4>3, <4>5, <5>2, <3>3
      <4> QED
        BY <4>4, <4>5
    <3>5. Good(g, b)
      BY <3>4
    <3>6. \A x \in [1 .. n -> V] : ~Good(x, b)
      BY <2>1
    <3> HIDE DEF g, Good
    <3> QED
      BY <3>3, <3>5, <3>6
  <2>7. CASE b \notin 1 .. n
    <3>1. \A i \in 1 .. n : i <= b => i <= b - 1
      BY <2>2, <2>7
    <3>2. Good(f, b)
      BY <2>5, <3>1
    <3> QED
      BY <3>2, <2>1
  <2> QED
    BY <2>6, <2>7
<1>2. CASE bad = {}
  <2>1. PICK f \in [1 .. n -> V] : Good(f, n)
    BY <1>2
  <2>2. \A i \in 1 .. n : i <= n
    OBVIOUS
  <2> QED
    BY <2>1, <2>2
<1> QED
  BY <1>1, <1>2

\* What the trees of an operation are made of
LEMMA TreeFacts ==
    ASSUME NEW o \in Operations, NEW e \in 1 .. Len(o.trees)
    PROVE  /\ Len(o.trees) \in Nat \ {0} /\ DOMAIN o.trees = 1 .. Len(o.trees)
           /\ Len(o.trees[e]) \in Nat /\ DOMAIN o.trees[e] = 1 .. Len(o.trees[e])
           /\ \A i \in NodesOf(o, e) : i # 1 =>
                /\ i - 1 \in DOMAIN o.trees[e]
                /\ Par(o, e, i) \in 1 .. i - 1 /\ Par(o, e, i) \in NodesOf(o, e)
                /\ Way(o, e, i) \in 1 .. NT
                /\ SizeOf(o, e, Par(o, e, i)) % Way(o, e, i) = 0
           /\ Len(o.work) \in Nat
           /\ \A k \in 1 .. Len(o.work) : o.work[k] \in NodesOf(o, Len(o.trees))
<1>1. /\ o.trees \in Seq(Seq([par : Nat, way : Nat])) /\ o.trees # <<>>
      /\ o.work \in Seq(1 .. Len(o.trees[Len(o.trees)]) + 1)
      /\ \A d \in DOMAIN o.trees : \A i \in DOMAIN o.trees[d] :
            /\ o.trees[d][i].par \in 1 .. i
            /\ o.trees[d][i].way \in 1 .. NT
            /\ TeamSize(o.trees[d])[o.trees[d][i].par] % o.trees[d][i].way = 0
  BY TreesAssumption
<1>2. Len(o.trees) \in Nat \ {0} /\ DOMAIN o.trees = 1 .. Len(o.trees)
  BY <1>1
<1>3. o.trees[e] \in Seq([par : Nat, way : Nat])
  BY <1>1, <1>2
<1>4. Len(o.trees[e]) \in Nat /\ DOMAIN o.trees[e] = 1 .. Len(o.trees[e])
  BY <1>3
<1>5. ASSUME NEW i \in NodesOf(o, e), i # 1
      PROVE  /\ i - 1 \in DOMAIN o.trees[e]
             /\ Par(o, e, i) \in 1 .. i - 1 /\ Par(o, e, i) \in NodesOf(o, e)
             /\ Way(o, e, i) \in 1 .. NT
             /\ SizeOf(o, e, Par(o, e, i)) % Way(o, e, i) = 0
  <2>1. i - 1 \in DOMAIN o.trees[e]
    BY <1>4, <1>5 DEF NodesOf
  <2>2. /\ o.trees[e][i - 1].par \in 1 .. i - 1
        /\ o.trees[e][i - 1].way \in 1 .. NT
        /\ TeamSize(o.trees[e])[o.trees[e][i - 1].par] % o.trees[e][i - 1].way = 0
    BY <1>1, <1>2, <2>1
  <2>3. Par(o, e, i) \in NodesOf(o, e)
    BY <1>4, <2>2 DEF Par, NodesOf
  <2> QED
    BY <2>1, <2>2, <2>3 DEF Par, Way, SizeOf
<1>6. Len(o.work) \in Nat /\ \A k \in 1 .. Len(o.work) : o.work[k] \in NodesOf(o, Len(o.trees))
  <2> DEFINE S == 1 .. Len(o.trees[Len(o.trees)]) + 1
  <2>1. o.work \in Seq(S)
    BY <1>1
  <2> HIDE DEF S
  <2>2. Len(o.work) \in Nat /\ \A k \in 1 .. Len(o.work) : o.work[k] \in S
    BY <2>1
  <2> QED
    BY <2>2 DEF NodesOf, S
<1> QED
  BY <1>2, <1>4, <1>5, <1>6

\* TeamSize is what its recursion says.
LEMMA SizeRecursion ==
    ASSUME NEW o \in Operations, NEW e \in 1 .. Len(o.trees), NEW i \in NodesOf(o, e)
    PROVE  SizeOf(o, e, i) =
               IF i = 1 THEN NT ELSE SizeOf(o, e, Par(o, e, i)) \div Way(o, e, i)
<1> DEFINE tree == o.trees[e]
           n == Len(tree) + 1
           parent == [k \in 2 .. n |-> tree[k - 1].par]
           h == [p \in (2 .. n) \X Nat |-> p[2] \div tree[p[1] - 1].way]
<1>1. n \in Nat /\ NT \in Nat \ {0}
  BY TreeFacts, TreesAssumption
<1>2. \A k \in 2 .. n : k \in NodesOf(o, e) /\ k # 1
  BY <1>1 DEF NodesOf
<1>3. \A k \in 2 .. n : tree[k - 1].par \in 1 .. k - 1 /\ tree[k - 1].way \in Nat \ {0}
  <2>1. \A k \in 2 .. n : Par(o, e, k) \in 1 .. k - 1 /\ Way(o, e, k) \in 1 .. NT
    BY <1>2, TreeFacts
  <2> QED
    BY <2>1, <1>1 DEF Par, Way
<1>4. \A k \in 2 .. n : parent[k] \in 1 .. k - 1
  BY <1>3
<1>41. Decreasing(parent, n)
  BY <1>4 DEF Decreasing
<1>5. \A k \in 2 .. n : \A x \in Nat : h[<<k, x>>] = x \div tree[k - 1].way
  OBVIOUS
<1>6. \A k \in 2 .. n : \A x \in Nat : h[<<k, x>>] \in Nat
  <2> TAKE k \in 2 .. n, x \in Nat
  <2>1. tree[k - 1].way \in Nat \ {0}
    BY <1>3
  <2>2. x \div tree[k - 1].way \in Nat
    <3> DEFINE w == tree[k - 1].way
    <3>1. w \in Nat \ {0}
      BY <2>1
    <3> HIDE DEF w
    <3>2. x \div w \in Nat
      BY <3>1, DivMod
    <3> QED
      BY <3>2 DEF w
  <2> QED
    BY <2>2, <1>5
<1>7. PICK f \in [1 .. n -> Nat] : Recursive(f, n, NT, parent, h)
  <2> HIDE DEF h, parent, n
  <2>1. NT \in Nat
    BY <1>1
  <2>2. parent \in [2 .. n -> Nat]
    BY <1>3 DEF parent
  <2>3. h \in [(2 .. n) \X Nat -> Nat]
    <3>1. \A p \in (2 .. n) \X Nat : h[p] \in Nat
      BY <1>6
    <3> QED
      BY <3>1 DEF h
  <2> QED
    BY <1>1, <1>41, <2>1, <2>2, <2>3, RecursionExists
<1>8. ASSUME NEW k \in 1 .. n
      PROVE  f[k] = IF k = 1 THEN NT ELSE f[tree[k - 1].par] \div tree[k - 1].way
  <2>1. CASE k = 1
    BY <1>7, <2>1 DEF Recursive
  <2>2. CASE k # 1
    <3>1. k \in 2 .. n
      BY <1>1, <2>2
    <3>2. parent[k] = tree[k - 1].par /\ parent[k] \in 1 .. n
      <4>1. parent[k] = tree[k - 1].par /\ parent[k] \in 1 .. k - 1
        BY <3>1, <1>4
      <4> HIDE DEF parent
      <4> QED
        BY <3>1, <4>1, <1>1
    <3>3. f[parent[k]] \in Nat
      BY <3>2
    <3>4. h[<<k, f[parent[k]]>>] = f[parent[k]] \div tree[k - 1].way
      <4> HIDE DEF parent, h
      <4> QED
        BY <3>1, <3>3, <1>5
    <3>5. f[k] = h[<<k, f[parent[k]]>>]
      BY <1>7, <2>2 DEF Recursive
    <3> QED
      BY <2>2, <3>2, <3>4, <3>5
  <2> QED
    BY <2>1, <2>2
<1>9. f = [k \in 1 .. Len(tree) + 1 |->
              IF k = 1 THEN NT ELSE f[tree[k - 1].par] \div tree[k - 1].way]
  <2>1. f = [k \in 1 .. n |-> f[k]]
    OBVIOUS
  <2>2. [k \in 1 .. n |-> f[k]]
          = [k \in 1 .. n |-> IF k = 1 THEN NT ELSE f[tree[k - 1].par] \div tree[k - 1].way]
    BY <1>8
  <2> QED
    BY <2>1, <2>2
<1>10. TeamSize(tree) = [k \in 1 .. Len(tree) + 1 |->
              IF k = 1 THEN NT ELSE TeamSize(tree)[tree[k - 1].par] \div tree[k - 1].way]
  BY <1>9, Zenon DEF TeamSize
<1>11. i \in 1 .. Len(tree) + 1
  BY DEF NodesOf
<1>12. TeamSize(tree)[i] =
          IF i = 1 THEN NT ELSE TeamSize(tree)[tree[i - 1].par] \div tree[i - 1].way
  BY <1>10, <1>11, Zenon
<1> QED
  BY <1>12, Zenon DEF SizeOf, Par, Way

\* And so is Origins,
LEMMA OriginRecursion ==
    ASSUME NEW o \in Operations, NEW e \in 1 .. Len(o.trees), NEW i \in NodesOf(o, e)
    PROVE  Origin(o, e, i) =
               IF i = 1 THEN 1
               ELSE IF Way(o, e, i) = 1 THEN Origin(o, e, Par(o, e, i)) ELSE i
<1> DEFINE tree == o.trees[e]
           n == Len(tree) + 1
           parent == [k \in 2 .. n |-> tree[k - 1].par]
           h == [p \in (2 .. n) \X Nat |-> IF tree[p[1] - 1].way = 1 THEN p[2] ELSE p[1]]
<1>1. n \in Nat
  BY TreeFacts
<1>2. \A k \in 2 .. n : k \in NodesOf(o, e) /\ k # 1
  BY <1>1 DEF NodesOf
<1>3. \A k \in 2 .. n : tree[k - 1].par \in 1 .. k - 1
  <2>1. \A k \in 2 .. n : Par(o, e, k) \in 1 .. k - 1
    BY <1>2, TreeFacts
  <2> QED
    BY <2>1 DEF Par
<1>4. parent \in [2 .. n -> Nat] /\ Decreasing(parent, n)
  BY <1>3 DEF Decreasing
<1>5. h \in [(2 .. n) \X Nat -> Nat]
  OBVIOUS
<1>6. PICK f \in [1 .. n -> Nat] : Recursive(f, n, 1, parent, h)
  <2> HIDE DEF h, parent, n
  <2> QED
    BY <1>1, <1>4, <1>5, RecursionExists
<1>7. ASSUME NEW k \in 1 .. n
      PROVE  f[k] = IF k = 1 THEN 1 ELSE IF tree[k - 1].way = 1 THEN f[tree[k - 1].par] ELSE k
  <2>1. CASE k = 1
    BY <1>6, <2>1 DEF Recursive
  <2>2. CASE k # 1
    <3>1. k \in 2 .. n /\ parent[k] = tree[k - 1].par
      BY <1>1, <2>2
    <3>2. f[parent[k]] \in Nat
      <4> HIDE DEF parent, n
      <4>0. parent[k] \in 1 .. k - 1
        BY <3>1, <1>4 DEF Decreasing
      <4>1. parent[k] \in 1 .. n
        BY <3>1, <1>1, <4>0
      <4> QED
        BY <4>1
    <3>3. h[<<k, f[parent[k]]>>] = IF tree[k - 1].way = 1 THEN f[parent[k]] ELSE k
      <4> HIDE DEF parent
      <4> QED
        BY <3>1, <3>2
    <3>4. f[k] = h[<<k, f[parent[k]]>>]
      BY <1>6, <2>2 DEF Recursive
    <3> QED
      BY <2>2, <3>1, <3>3, <3>4
  <2> QED
    BY <2>1, <2>2
<1>8. f = [k \in 1 .. Len(tree) + 1 |->
              IF k = 1 THEN 1 ELSE IF tree[k - 1].way = 1 THEN f[tree[k - 1].par] ELSE k]
  <2>1. f = [k \in 1 .. n |-> f[k]]
    OBVIOUS
  <2>2. [k \in 1 .. n |-> f[k]]
          = [k \in 1 .. n |->
              IF k = 1 THEN 1 ELSE IF tree[k - 1].way = 1 THEN f[tree[k - 1].par] ELSE k]
    BY <1>7
  <2> QED
    BY <2>1, <2>2
<1>9. Origins(tree) = [k \in 1 .. Len(tree) + 1 |->
          IF k = 1 THEN 1
          ELSE IF tree[k - 1].way = 1 THEN Origins(tree)[tree[k - 1].par] ELSE k]
  BY <1>8, Zenon DEF Origins
<1>10. i \in 1 .. Len(tree) + 1
  BY DEF NodesOf
<1>11. Origins(tree)[i] =
          IF i = 1 THEN 1
          ELSE IF tree[i - 1].way = 1 THEN Origins(tree)[tree[i - 1].par] ELSE i
  BY <1>9, <1>10, Zenon
<1> QED
  BY <1>11, Zenon DEF Origin, Par, Way

\* and Below: a node below another has a larger number.
LEMMA BelowIsLater ==
    ASSUME NEW o \in Operations, NEW e \in 1 .. Len(o.trees),
           NEW i \in NodesOf(o, e), NEW j \in NodesOf(o, e), Below(o.trees[e], i, j)
    PROVE  i <= j
<1> DEFINE tree == o.trees[e]
           n == Len(tree) + 1
           parent == [k \in 2 .. n |-> tree[k - 1].par]
           h == [p \in (2 .. n) \X BOOLEAN |-> p[1] = i \/ (p[1] > i /\ p[2])]
<1>1. n \in Nat /\ i \in Nat \ {0}
  BY TreeFacts DEF NodesOf
<1>2. \A k \in 2 .. n : k \in NodesOf(o, e) /\ k # 1
  BY <1>1 DEF NodesOf
<1>3. \A k \in 2 .. n : tree[k - 1].par \in 1 .. k - 1
  <2>1. \A k \in 2 .. n : Par(o, e, k) \in 1 .. k - 1
    BY <1>2, TreeFacts
  <2> QED
    BY <2>1 DEF Par
<1>4. parent \in [2 .. n -> Nat] /\ Decreasing(parent, n)
  BY <1>3 DEF Decreasing
<1>5. h \in [(2 .. n) \X BOOLEAN -> BOOLEAN] /\ (1 = i) \in BOOLEAN
  OBVIOUS
<1>6. PICK f \in [1 .. n -> BOOLEAN] : Recursive(f, n, 1 = i, parent, h)
  <2> HIDE DEF h, parent, n
  <2> QED
    BY <1>1, <1>4, <1>5, RecursionExists
<1>7. ASSUME NEW k \in 1 .. n
      PROVE  f[k] = (k = i \/ (k > i /\ f[tree[k - 1].par]))
  <2>1. CASE k = 1
    <3>0. 1 \in 1 .. n
      BY <1>1
    <3>1. f[1] = (1 = i)
      BY <3>0, <1>6, Zenon DEF Recursive
    <3>2. ~ (1 > i)
      BY <1>1
    <3>3. CASE i = 1
      BY <2>1, <3>1, <3>3
    <3>4. CASE i # 1
      <4>1. f[1] = FALSE
        BY <3>1, <3>4
      <4> QED
        BY <2>1, <3>2, <3>4, <4>1
    <3> QED
      BY <3>3, <3>4
  <2>2. CASE k # 1
    <3>1. k \in 2 .. n /\ parent[k] = tree[k - 1].par
      BY <1>1, <2>2
    <3>2. f[parent[k]] \in BOOLEAN
      <4> HIDE DEF parent, n
      <4>0. parent[k] \in 1 .. k - 1
        BY <3>1, <1>4 DEF Decreasing
      <4>1. parent[k] \in 1 .. n
        BY <3>1, <1>1, <4>0
      <4> QED
        BY <4>1
    <3>3. h[<<k, f[parent[k]]>>] = (k = i \/ (k > i /\ f[parent[k]]))
      <4> HIDE DEF parent
      <4> QED
        BY <3>1, <3>2
    <3>4. f[k] = h[<<k, f[parent[k]]>>]
      BY <1>6, <2>2 DEF Recursive
    <3> QED
      BY <2>2, <3>1, <3>3, <3>4
  <2> QED
    BY <2>1, <2>2
<1>8. f = [k \in 1 .. Len(tree) + 1 |-> k = i \/ (k > i /\ f[tree[k - 1].par])]
  <2>1. f = [k \in 1 .. n |-> f[k]]
    OBVIOUS
  <2>2. [k \in 1 .. n |-> f[k]] = [k \in 1 .. n |-> k = i \/ (k > i /\ f[tree[k - 1].par])]
    BY <1>7
  <2> QED
    BY <2>1, <2>2
<1> DEFINE below == CHOOSE g : g = [k \in 1 .. Len(tree) + 1 |->
                                      k = i \/ (k > i /\ g[tree[k - 1].par])]
<1>9. below = [k \in 1 .. Len(tree) + 1 |-> k = i \/ (k > i /\ below[tree[k - 1].par])]
  BY <1>8, Zenon
<1>10. Below(tree, i, j) = below[j]
  BY DEF Below
<1>11. j \in 1 .. Len(tree) + 1
  BY DEF NodesOf
<1>12. j = i \/ j > i
  <2> HIDE DEF below
  <2>1. below[j] = (j = i \/ (j > i /\ below[tree[j - 1].par]))
    BY <1>9, <1>11, Zenon
  <2> QED
    BY <2>1, <1>10
<1> QED
  BY <1>1, <1>11, <1>12

\* Teams divide evenly: those of a node are as many times larger than those of its
\* children as the split has ways.
LEMMA Sizes ==
    ASSUME NEW o \in Operations, NEW e \in 1 .. Len(o.trees), NEW i \in NodesOf(o, e)
    PROVE  /\ SizeOf(o, e, i) \in 1 .. NT
           /\ \E k \in Nat \ {0} : NT = SizeOf(o, e, i) * k
           /\ i # 1 => /\ SizeOf(o, e, Par(o, e, i)) = SizeOf(o, e, i) * Way(o, e, i)
                       /\ Way(o, e, i) \in Nat \ {0}
                       /\ SizeOf(o, e, i) <= SizeOf(o, e, Par(o, e, i))
<1> DEFINE Ok(j) == SizeOf(o, e, j) \in 1 .. NT /\ \E k \in Nat \ {0} : NT = SizeOf(o, e, j) * k
           Child(j) == /\ SizeOf(o, e, Par(o, e, j)) = SizeOf(o, e, j) * Way(o, e, j)
                       /\ Way(o, e, j) \in Nat \ {0}
                       /\ SizeOf(o, e, j) <= SizeOf(o, e, Par(o, e, j))
           bad == {j \in NodesOf(o, e) : ~Ok(j)}
<1>0. NT \in Nat \ {0} /\ NodesOf(o, e) \subseteq Nat
  BY TreesAssumption DEF NodesOf
<1>1. ASSUME NEW j \in NodesOf(o, e), j # 1, Ok(Par(o, e, j))
      PROVE  Ok(j) /\ Child(j)
  <2> DEFINE m == SizeOf(o, e, Par(o, e, j))
             w == Way(o, e, j)
             q == m \div w
  <2>1. m \in Nat \ {0} /\ m <= NT /\ w \in Nat \ {0} /\ m % w = 0
    BY <1>0, <1>1, TreeFacts
  <2>2. q \in Nat /\ m = w * q + (m % w)
    <3> HIDE DEF m, w
    <3> QED
      BY <2>1, DivMod
  <2>3. m = w * q
    <3>1. w * q \in Nat
      <4> HIDE DEF w, q
      <4> QED
        BY <2>1, <2>2, Product
    <3> HIDE DEF m, w, q
    <3> QED
      BY <2>1, <2>2, <3>1
  <2>4. SizeOf(o, e, j) = q
    BY <1>1, SizeRecursion
  <2>5. PICK k \in Nat \ {0} : NT = m * k
    BY <1>1
  <2> HIDE DEF q
  <2>6. q # 0 /\ m = q * w
    <3> HIDE DEF m, w
    <3>1. w * 0 = 0 /\ w * q = q * w
      BY <2>1, <2>2
    <3> QED
      BY <2>1, <2>3, <3>1
  <2>7. q <= m
    <3> HIDE DEF m, w
    <3>1. q * 1 <= q * w
      BY <2>1, <2>2, ProductMonotone
    <3> QED
      BY <2>2, <2>6, <3>1
  <2>8. NT = q * (w * k) /\ w * k \in Nat \ {0}
    <3> HIDE DEF m, w
    <3>1. (q * w) * k = q * (w * k)
      BY <2>1, <2>2, Associative
    <3>2. w * k \in Nat \ {0}
      BY <2>1, SMT
    <3> QED
      BY <2>5, <2>6, <3>1, <3>2
  <2>9. q \in 1 .. NT
    <3> HIDE DEF m
    <3> QED
      BY <1>0, <2>1, <2>2, <2>6, <2>7
  <2>10. Ok(j)
    BY <2>4, <2>8, <2>9
  <2> QED
    BY <2>1, <2>4, <2>6, <2>7, <2>10
<1>2. ASSUME NEW j \in NodesOf(o, e), j = 1
      PROVE  Ok(j)
  <2>1. SizeOf(o, e, j) = NT
    BY <1>2, SizeRecursion
  <2>2. NT \in 1 .. NT
    BY <1>0
  <2>3. \E k \in Nat \ {0} : NT = NT * k
    <3>1. NT = NT * 1
      BY <1>0
    <3> WITNESS 1 \in Nat \ {0}
    <3> QED
      BY <3>1
  <2> QED
    BY <2>1, <2>2, <2>3, Zenon
<1>3. bad = {}
  <2> SUFFICES ASSUME bad # {} PROVE FALSE
    OBVIOUS
  <2>1. PICK j \in bad : \A x \in bad : j <= x
    <3>1. bad \in SUBSET Nat
      BY <1>0
    <3> HIDE DEF bad
    <3> QED
      BY <3>1, LeastElement
  <2>2. j \in NodesOf(o, e) /\ ~Ok(j)
    OBVIOUS
  <2>3. j # 1
    BY <1>2, <2>2
  <2>4. Par(o, e, j) \in NodesOf(o, e) /\ Par(o, e, j) \in 1 .. j - 1
    BY <2>2, <2>3, TreeFacts
  <2>5. ~ Ok(Par(o, e, j))
    BY <1>1, <2>2, <2>3
  <2>6. Par(o, e, j) \in bad
    BY <2>4, <2>5
  <2>7. j \in Nat
    BY <1>0, <2>2
  <2> HIDE DEF bad
  <2> QED
    BY <2>1, <2>4, <2>6, <2>7
<1>4. Ok(i)
  BY <1>3
<1>5. i # 1 => Child(i)
  <2>1. i # 1 => Par(o, e, i) \in NodesOf(o, e)
    BY TreeFacts
  <2>2. i # 1 => Ok(Par(o, e, i))
    BY <1>3, <2>1
  <2> HIDE DEF Ok, Child
  <2> QED
    BY <1>1, <2>2, Zenon
<1> QED
  BY <1>4, <1>5

\* Communicators are kept while splits have one way, and so is the size.
LEMMA OriginFacts ==
    ASSUME NEW o \in Operations, NEW e \in 1 .. Len(o.trees), NEW i \in NodesOf(o, e)
    PROVE  /\ Origin(o, e, i) \in NodesOf(o, e) /\ Origin(o, e, i) <= i
           /\ SizeOf(o, e, Origin(o, e, i)) = SizeOf(o, e, i)
           /\ Origin(o, e, i) # 1 => Way(o, e, Origin(o, e, i)) # 1
           /\ Made(o, e, i) => Origin(o, e, i) = i
<1> DEFINE Ok(j) == /\ Origin(o, e, j) \in NodesOf(o, e) /\ Origin(o, e, j) <= j
                    /\ SizeOf(o, e, Origin(o, e, j)) = SizeOf(o, e, j)
                    /\ Origin(o, e, j) # 1 => Way(o, e, Origin(o, e, j)) # 1
           bad == {j \in NodesOf(o, e) : ~Ok(j)}
<1>0. NodesOf(o, e) \subseteq Nat
  BY DEF NodesOf
<1>1. ASSUME NEW j \in NodesOf(o, e), j = 1 \/ Way(o, e, j) # 1
      PROVE  Ok(j) /\ Origin(o, e, j) = j
  <2>1. Origin(o, e, j) = j
    BY <1>1, OriginRecursion
  <2> QED
    BY <1>0, <1>1, <2>1
<1>2. ASSUME NEW j \in NodesOf(o, e), j # 1, Way(o, e, j) = 1, Ok(Par(o, e, j))
      PROVE  Ok(j)
  <2>1. Origin(o, e, j) = Origin(o, e, Par(o, e, j))
    BY <1>2, OriginRecursion
  <2>2. Par(o, e, j) \in 1 .. j - 1
    BY <1>2, TreeFacts
  <2>3. SizeOf(o, e, Par(o, e, j)) = SizeOf(o, e, j)
    <3>1. SizeOf(o, e, j) \in 1 .. NT /\ SizeOf(o, e, Par(o, e, j)) = SizeOf(o, e, j) * 1
      BY <1>2, Sizes
    <3> QED
      BY <3>1
  <2>4. Origin(o, e, j) <= j
    <3>1. Origin(o, e, j) <= Par(o, e, j) /\ Origin(o, e, j) \in Nat /\ j \in Nat
      BY <1>0, <1>2, <2>1
    <3> QED
      BY <2>2, <3>1
  <2> QED
    BY <1>2, <2>1, <2>3, <2>4
<1>3. bad = {}
  <2> SUFFICES ASSUME bad # {} PROVE FALSE
    OBVIOUS
  <2>1. PICK j \in bad : \A x \in bad : j <= x
    <3>1. bad \in SUBSET Nat
      BY <1>0
    <3> HIDE DEF bad
    <3> QED
      BY <3>1, LeastElement
  <2>2. j \in NodesOf(o, e) /\ ~Ok(j) /\ j \in Nat
    BY <1>0
  <2>3. j # 1 /\ Way(o, e, j) = 1
    <3> HIDE DEF Ok
    <3> QED
      BY <1>1, <2>2
  <2>4. Par(o, e, j) \in NodesOf(o, e) /\ Par(o, e, j) \in 1 .. j - 1
    BY <2>2, <2>3, TreeFacts
  <2>5. ~ Ok(Par(o, e, j))
    <3> HIDE DEF Ok
    <3> QED
      BY <1>2, <2>2, <2>3
  <2>6. Par(o, e, j) \in bad
    <3> HIDE DEF Ok
    <3> QED
      BY <2>4, <2>5
  <2> HIDE DEF bad, Ok
  <2> QED
    BY <2>1, <2>2, <2>4, <2>6
<1>4. Ok(i)
  <2> HIDE DEF Ok
  <2> QED
    BY <1>3
<1>5. Made(o, e, i) => Origin(o, e, i) = i
  BY <1>1 DEF Made
<1> QED
  BY <1>4, <1>5

\* Triples are equal if their elements are, and none is NULL.
LEMMA Triples ==
    \A a, b, c, x, y, z : <<a, b, c>> = <<x, y, z>> => a = x /\ b = y /\ c = z
  OBVIOUS

LEMMA NotNull == \A x \in Nat \X Nat \X Nat : x # NULL
<1> SUFFICES ASSUME NEW a \in Nat, NEW b \in Nat, NEW c \in Nat, <<a, b, c>> = <<>>
             PROVE  FALSE
  BY DEF NULL
<1>1. Len(<<a, b, c>>) = 3 /\ Len(<<>>) = 0
  OBVIOUS
<1> QED
  BY <1>1

\* The team of the root is all threads.
LEMMA AllThreads ==
    ASSUME NEW t \in Threads
    PROVE  t \in Nat /\ NT \in Nat \ {0} /\ t % NT = t /\ Base(t, NT) = 0
<1>1. t \in Nat /\ NT \in Nat \ {0} /\ t < NT
  BY TreesAssumption DEF Threads
<1>2. NT * 0 <= t /\ t < (NT * 0) + NT
  BY <1>1
<1>3. t % NT = t - NT * 0
  BY <1>1, <1>2, Quotient
<1>4. t % NT = t
  BY <1>1, <1>3
<1> QED
  BY <1>1, <1>4 DEF Base

\* A communicator for more than one thread is gl_comm, or has been made for a node,
\* by the first thread of the team.
LEMMA CommFacts ==
    ASSUME NEW o \in Operations, NEW e \in 1 .. Len(o.trees), NEW i \in NodesOf(o, e),
           NEW t \in Threads
    PROVE  /\ CommOf(o, e, i, t) \in Nat \X Nat \X Nat
           /\ SizeOf(o, e, i) \in Nat \ {0}
           /\ Base(t, SizeOf(o, e, i)) \in Threads
           /\ SizeOf(o, e, i) # 1 =>
                \/ CommOf(o, e, i, t) = GL_COMM /\ SizeOf(o, e, i) = NT
                \/ /\ Origin(o, e, i) \in NodesOf(o, e) /\ Origin(o, e, i) <= i
                   /\ Made(o, e, Origin(o, e, i))
                   /\ SizeOf(o, e, Origin(o, e, i)) = SizeOf(o, e, i)
                   /\ CommOf(o, e, i, t)
                        = <<e, Origin(o, e, i), Base(t, SizeOf(o, e, i))>>
           /\ SizeOf(o, e, i) = 1 => CommOf(o, e, i, t) \in {GL_COMM, SINGLE_COMM}
           /\ CommOf(o, e, i, t) = GL_COMM => SizeOf(o, e, i) = NT
           /\ CommOf(o, e, i, t) = SINGLE_COMM => SizeOf(o, e, i) = 1
           /\ CommOf(o, e, i, t) # NULL
<1> DEFINE n == SizeOf(o, e, i)
           j == Origin(o, e, i)
<1>1. n \in Nat \ {0} /\ \E k \in Nat : NT = n * k
  <2>1. n \in 1 .. NT /\ \E k \in Nat \ {0} : NT = n * k
    BY Sizes, Zenon
  <2> HIDE DEF n
  <2>2. n \in Nat \ {0}
    BY <2>1, TreesAssumption
  <2>3. \A k \in Nat \ {0} : k \in Nat
    OBVIOUS
  <2> QED
    BY <2>1, <2>2, <2>3, Zenon
<1>2. j \in NodesOf(o, e) /\ j <= i /\ SizeOf(o, e, j) = n /\ (j # 1 => Way(o, e, j) # 1)
  BY OriginFacts
<1>3. Base(t, n) \in Threads
  <2> HIDE DEF n
  <2> QED
    BY <1>1, TeamMembers
<1>4. j = 1 => n = NT
  BY <1>2, SizeRecursion
<1>5. e \in Nat /\ e # 0 /\ j \in Nat /\ Base(t, n) \in Nat
  <2>1. e \in Nat /\ e # 0
    BY TreeFacts
  <2>2. j \in Nat
    BY <1>2 DEF NodesOf
  <2> QED
    BY <1>3, <2>1, <2>2 DEF Threads
<1>6. n # 1 /\ j # 1 => Made(o, e, j)
  BY <1>2 DEF Made
<1>7. CommOf(o, e, i, t) = IF j = 1 THEN GL_COMM ELSE IF n = 1 THEN SINGLE_COMM
                           ELSE <<e, j, Base(t, n)>>
  BY DEF CommOf
<1> HIDE DEF n, j
<1>8. <<e, j, Base(t, n)>> \in Nat \X Nat \X Nat
  BY <1>5
<1>9. GL_COMM \in Nat \X Nat \X Nat /\ SINGLE_COMM \in Nat \X Nat \X Nat
      /\ GL_COMM # SINGLE_COMM /\ <<e, j, Base(t, n)>> \notin {GL_COMM, SINGLE_COMM}
  BY <1>5 DEF GL_COMM, SINGLE_COMM
<1>10. CommOf(o, e, i, t) \in Nat \X Nat \X Nat
  BY <1>7, <1>8, <1>9
<1>11. CommOf(o, e, i, t) # NULL
  BY <1>10, NotNull
<1>12. CommOf(o, e, i, t) = GL_COMM => n = NT
  BY <1>4, <1>7, <1>9
<1>13. CommOf(o, e, i, t) = SINGLE_COMM => n = 1
  BY <1>7, <1>9
<1>14. n = 1 => CommOf(o, e, i, t) \in {GL_COMM, SINGLE_COMM}
  BY <1>7
<1>15. n # 1 => \/ CommOf(o, e, i, t) = GL_COMM /\ n = NT
                \/ Made(o, e, j) /\ CommOf(o, e, i, t) = <<e, j, Base(t, n)>>
  BY <1>4, <1>6, <1>7
<1> QED
  BY <1>1, <1>2, <1>3, <1>10, <1>11, <1>12, <1>13, <1>14, <1>15 DEF n, j

\* Who shares a communicator is in the same team.
LEMMA SameComm ==
    ASSUME NEW o \in Operations, NEW t \in Threads, NEW u \in Threads,
           NEW e \in 1 .. Len(o.trees), NEW i \in NodesOf(o, e), SizeOf(o, e, i) # 1,
           NEW d \in 1 .. Len(o.trees), NEW j \in NodesOf(o, d), SizeOf(o, d, j) # 1,
           CommOf(o, e, i, t) = CommOf(o, d, j, u)
    PROVE  /\ SizeOf(o, e, i) = SizeOf(o, d, j)
           /\ Base(t, SizeOf(o, e, i)) = Base(u, SizeOf(o, e, i))
<1>1. CASE CommOf(o, e, i, t) = GL_COMM
  <2>1. SizeOf(o, e, i) = NT /\ SizeOf(o, d, j) = NT
    BY <1>1, CommFacts
  <2> QED
    BY <2>1, AllThreads
<1>2. CASE CommOf(o, e, i, t) # GL_COMM
  <2>1. /\ SizeOf(o, e, Origin(o, e, i)) = SizeOf(o, e, i)
        /\ CommOf(o, e, i, t) = <<e, Origin(o, e, i), Base(t, SizeOf(o, e, i))>>
    BY <1>2, CommFacts
  <2>2. /\ SizeOf(o, d, Origin(o, d, j)) = SizeOf(o, d, j)
        /\ CommOf(o, d, j, u) = <<d, Origin(o, d, j), Base(u, SizeOf(o, d, j))>>
    BY <1>2, CommFacts
  <2>3. /\ e = d /\ Origin(o, e, i) = Origin(o, d, j)
        /\ Base(t, SizeOf(o, e, i)) = Base(u, SizeOf(o, d, j))
    <3>1. <<e, Origin(o, e, i), Base(t, SizeOf(o, e, i))>>
            = <<d, Origin(o, d, j), Base(u, SizeOf(o, d, j))>>
      BY <2>1, <2>2, Zenon
    <3> QED
      BY <3>1, Triples, Zenon
  <2>4. SizeOf(o, e, i) = SizeOf(o, d, j)
    BY <2>1, <2>2, <2>3
  <2> QED
    BY <2>3, <2>4
<1> QED
  BY <1>1, <1>2

\* The teams of a node and of its parent
LEMMA ParentTeams ==
    ASSUME NEW o \in Operations, NEW e \in 1 .. Len(o.trees), NEW i \in NodesOf(o, e), i # 1,
           NEW t \in Threads
    PROVE  LET m == SizeOf(o, e, Par(o, e, i))
               n == SizeOf(o, e, i)
               w == (t % m) \div n
           IN  /\ m \in Nat \ {0} /\ n \in Nat \ {0} /\ m \div Way(o, e, i) = n
               /\ n = 1 <=> Way(o, e, i) = m
               /\ (t % m) % n = t % n /\ t % n \in 0 .. n - 1 /\ t % m \in 0 .. m - 1
               /\ Base(Base(t, n), m) = Base(t, m) /\ Base(Base(t, n), n) = Base(t, n)
               /\ Base(t, n) \in Threads /\ Base(t, m) \in Threads
               /\ w \in Threads /\ w \in 0 .. m - 1
               /\ Base(t, n) = Base(t, m) + n * w
               /\ Base(t, n) % m = n * w
<1> DEFINE m == SizeOf(o, e, Par(o, e, i))
           n == SizeOf(o, e, i)
           k == Way(o, e, i)
<1>1. Par(o, e, i) \in NodesOf(o, e)
  BY TreeFacts
<1>2. m \in 1 .. NT /\ n \in 1 .. NT /\ NT \in Nat \ {0} /\ m = n * k /\ k \in Nat \ {0}
  BY <1>1, Sizes, TreesAssumption
<1>3. Base(t, n) \in Threads /\ Base(t, m) \in Threads
  BY <1>1, CommFacts
<1>4. n = m \div k
  BY SizeRecursion
<1>5. t \in Nat
  BY DEF Threads
<1> HIDE DEF m, n, k
<1>6. n = 1 <=> k = m
  <2>1. CASE n = 1
    BY <1>2, <2>1
  <2>2. CASE k = m
    <3>1. k \div k = 1
      <4>1. k * 1 <= k /\ k < (k * 1) + k
        BY <1>2
      <4> QED
        BY <1>2, <4>1, Quotient
    <3> QED
      BY <1>4, <2>2, <3>1
  <2> QED
    BY <2>1, <2>2
<1>7. m \in Nat \ {0} /\ n \in Nat \ {0}
  BY <1>2
<1>8. /\ (t % m) % n = t % n /\ (t % m) \div n \in 0 .. m - 1
      /\ Base(Base(t, n), m) = Base(t, m)
      /\ Base(t, n) = Base(t, m) + n * ((t % m) \div n)
      /\ Base(t, n) % m = n * ((t % m) \div n)
  <2>1. Divides(n, m)
    BY <1>2 DEF Divides
  <2> QED
    BY <1>5, <1>7, <2>1, TeamsNest, Zenon
<1>9. (t % m) \div n \in Threads
  BY <1>2, <1>8 DEF Threads
<1>10. t % n \in 0 .. n - 1 /\ t % m \in 0 .. m - 1 /\ Base(Base(t, n), n) = Base(t, n)
  BY <1>5, <1>7, BaseFacts
<1> QED
  BY <1>3, <1>4, <1>6, <1>7, <1>8, <1>9, <1>10 DEF m, n, k

-----------------------------------------------------------------------------
(***************************************************************************)
(* Places                                                                  *)
(***************************************************************************)

\* Places are ordered.
LEMMA Order ==
    ASSUME NEW a \in Nat \X Nat \X Nat, NEW b \in Nat \X Nat \X Nat
    PROVE  /\ Before(a, b) \/ a = b \/ Before(b, a)
           /\ ~ (Before(a, b) /\ Before(b, a)) /\ ~ Before(a, a)
           /\ \A c \in Nat \X Nat \X Nat : Before(a, b) /\ Before(b, c) => Before(a, c)
<1>1. /\ a[1] \in Nat /\ a[2] \in Nat /\ a[3] \in Nat /\ a = <<a[1], a[2], a[3]>>
      /\ b[1] \in Nat /\ b[2] \in Nat /\ b[3] \in Nat /\ b = <<b[1], b[2], b[3]>>
  OBVIOUS
<1>2. Before(a, b) \/ a = b \/ Before(b, a)
  BY <1>1 DEF Before
<1>3. ~ (Before(a, b) /\ Before(b, a)) /\ ~ Before(a, a)
  BY <1>1 DEF Before
<1>4. ASSUME NEW c \in Nat \X Nat \X Nat, Before(a, b), Before(b, c)
      PROVE  Before(a, c)
  <2>1. c[1] \in Nat /\ c[2] \in Nat /\ c[3] \in Nat
    OBVIOUS
  <2> QED
    BY <1>1, <1>4, <2>1 DEF Before
<1> QED
  BY <1>2, <1>3, <1>4

\* What a place is made of
LEMMA PlacesAreTriples ==
    ASSUME NEW o \in Operations, NEW b \in Places(o)
    PROVE  /\ b \in Nat \X Nat \X Nat /\ b[1] \in 1 .. Len(o.trees) /\ b[2] \in Nat \ {0}
           /\ b[3] \in Nat /\ b = <<b[1], b[2], b[3]>>
<1>1. Len(o.trees) \in Nat
  BY TreesAssumption
<1> QED
  BY <1>1 DEF Places

\* Where there is a barrier, the node is one of those made so far.
LEMMA BarrierFacts ==
    ASSUME NEW o \in Operations, NEW b, BarrierAt(o, b), NEW t \in Threads
    PROVE  /\ b[1] \in 1 .. Len(o.trees) /\ b[2] \in NodesOf(o, b[1])
           /\ NodeAt(o, b) \in NodesOf(o, b[1]) /\ NodeAt(o, b) <= b[2]
           /\ SizeAt(o, b) \in Nat \ {0} /\ SizeAt(o, b) # 1
           /\ SizeAt(o, b) = SizeOf(o, b[1], NodeAt(o, b))
<1>1. b \in Places(o) /\ b[2] \in NodesOf(o, b[1])
  BY DEF BarrierAt
<1>2. b[1] \in 1 .. Len(o.trees) /\ b[2] \in Nat \ {0} /\ b[3] \in Nat
  BY <1>1, PlacesAreTriples
<1>3. NodeAt(o, b) \in NodesOf(o, b[1]) /\ NodeAt(o, b) <= b[2]
  <2>1. CASE b[3] = 0 /\ b[2] # 1
    <3>1. NodeAt(o, b) = Par(o, b[1], b[2])
      BY <2>1 DEF NodeAt
    <3>2. Par(o, b[1], b[2]) \in 1 .. b[2] - 1 /\ Par(o, b[1], b[2]) \in NodesOf(o, b[1])
      BY <1>1, <1>2, <2>1, TreeFacts
    <3> QED
      BY <1>2, <3>1, <3>2
  <2>2. CASE b[3] \in 1 .. 3 /\ b[2] + 1 \in NodesOf(o, b[1])
    <3>1. NodeAt(o, b) = Par(o, b[1], b[2] + 1)
      BY <2>2 DEF NodeAt
    <3>2. b[2] + 1 # 1 /\ (b[2] + 1) - 1 = b[2]
      BY <1>2
    <3>3. /\ Par(o, b[1], b[2] + 1) \in 1 .. (b[2] + 1) - 1
          /\ Par(o, b[1], b[2] + 1) \in NodesOf(o, b[1])
      BY <1>2, <2>2, <3>2, TreeFacts
    <3> QED
      BY <1>2, <3>1, <3>2, <3>3
  <2>3. CASE /\ b[1] = Len(o.trees) /\ b[2] = Len(o.trees[b[1]]) + 1
             /\ b[3] \in 5 .. 5 + Len(o.work)
    <3>1. NodesOf(o, b[1]) = 1 .. b[2]
      BY <2>3 DEF NodesOf
    <3>2. CASE b[3] \in 5 .. 4 + Len(o.work)
      <4>1. NodeAt(o, b) = o.work[b[3] - 4]
        BY <1>2, <3>2 DEF NodeAt
      <4>2. b[3] - 4 \in 1 .. Len(o.work)
        BY <1>2, <3>2, TreeFacts
      <4>3. o.work[b[3] - 4] \in NodesOf(o, b[1])
        BY <1>2, <2>3, <4>2, TreeFacts
      <4> QED
        BY <3>1, <4>1, <4>3
    <3>3. CASE b[3] \notin 5 .. 4 + Len(o.work)
      <4>1. NodeAt(o, b) = 1
        BY <1>2, <2>3, <3>3 DEF NodeAt
      <4> QED
        BY <1>2, <3>1, <4>1
    <3> QED
      BY <3>2, <3>3
  <2> QED
    BY <2>1, <2>2, <2>3 DEF BarrierAt
<1>4. SizeAt(o, b) = SizeOf(o, b[1], NodeAt(o, b))
  BY DEF SizeAt
<1>5. SizeAt(o, b) \in Nat \ {0}
  BY <1>2, <1>3, <1>4, CommFacts
<1>6. SizeAt(o, b) # 1
  BY DEF BarrierAt, SizeAt
<1> QED
  BY <1>1, <1>2, <1>3, <1>4, <1>5, <1>6

\* A node whose communicators are made has three barriers of its parent before it.
LEMMA SplitBarriers ==
    ASSUME NEW o \in Operations, NEW e \in 1 .. Len(o.trees), NEW i \in NodesOf(o, e),
           Made(o, e, i), NEW s \in 1 .. 3
    PROVE  /\ BarrierAt(o, <<e, i - 1, s>>)
           /\ NodeAt(o, <<e, i - 1, s>>) = Par(o, e, i)
           /\ SizeAt(o, <<e, i - 1, s>>) = SizeOf(o, e, Par(o, e, i))
           /\ <<e, i - 1, s>> \in Places(o)
<1> DEFINE b == <<e, i - 1, s>>
<1>1. i \in Nat /\ i # 1 /\ i # 0 /\ Len(o.trees[e]) \in Nat /\ i <= Len(o.trees[e]) + 1
  BY TreeFacts DEF NodesOf, Made
<1>2. b \in Places(o) /\ b[1] = e /\ b[2] = i - 1 /\ b[3] = s /\ b[2] + 1 = i
  BY <1>1 DEF Places
<1>3. b[2] \in NodesOf(o, e)
  BY <1>1 DEF NodesOf
<1> HIDE DEF b
<1>4. NodeAt(o, b) = Par(o, e, i)
  <2>1. b[3] # 0 /\ b[3] \in 1 .. 3
    BY <1>2
  <2> QED
    BY <1>2, <2>1 DEF NodeAt
<1>5. SizeOf(o, e, Par(o, e, i)) # 1
  <2>1. /\ SizeOf(o, e, i) \in 1 .. NT /\ SizeOf(o, e, Par(o, e, i)) = SizeOf(o, e, i) * Way(o, e, i)
        /\ SizeOf(o, e, i) <= SizeOf(o, e, Par(o, e, i))
    BY <1>1, Sizes
  <2>2. SizeOf(o, e, i) # 1
    BY DEF Made
  <2> QED
    BY <2>1, <2>2, TreesAssumption
<1>6. BarrierAt(o, b)
  BY <1>2, <1>3, <1>4, <1>5 DEF BarrierAt
<1>7. SizeAt(o, b) = SizeOf(o, e, Par(o, e, i))
  BY <1>2, <1>4 DEF SizeAt
<1> QED
  BY <1>2, <1>4, <1>6, <1>7 DEF b

-----------------------------------------------------------------------------
(***************************************************************************)
(* What the invariant says of a thread                                     *)
(***************************************************************************)

\* Where a thread is, and what its nodes are, by the invariant
LEMMA Here ==
    ASSUME Typed, ThreadInv, NEW t \in Threads
    PROVE  /\ op \in Operations /\ epoch[t] \in 1 .. Len(op.trees)
           /\ Len(nodes[t]) \in NodesOf(op, epoch[t]) /\ Len(nodes[t]) \in Nat \ {0}
           /\ DOMAIN nodes[t] = 1 .. Len(nodes[t])
           /\ DOMAIN nodes[t] \subseteq NodesOf(op, epoch[t])
           /\ \A i \in DOMAIN nodes[t] : nodes[t][i] = NodeOf(op, epoch[t], i, t)
           /\ Point(t) \in Points
           /\ Place(t) \in Places(op)
           /\ Place(t)[1] = epoch[t] /\ Place(t)[2] = Len(nodes[t])
           /\ Place(t)[3] = StageOf(op, Point(t), worked[t])
           /\ Place(t)[3] \in Nat
<1>1. op \in Operations /\ epoch[t] \in 1 .. Len(op.trees) /\ worked[t] \in Nat
  BY DEF Typed
<1>2. /\ Len(nodes[t]) \in NodesOf(op, epoch[t])
      /\ nodes[t] = [i \in 1 .. Len(nodes[t]) |-> NodeOf(op, epoch[t], i, t)]
  BY DEF ThreadInv, NodesOk
<1>3. Len(op.trees[epoch[t]]) \in Nat /\ Len(op.work) \in Nat
  BY <1>1, TreeFacts
<1>4. Len(nodes[t]) \in Nat \ {0} /\ 1 .. Len(nodes[t]) \subseteq NodesOf(op, epoch[t])
  BY <1>2, <1>3 DEF NodesOf
<1>5. /\ DOMAIN nodes[t] = 1 .. Len(nodes[t])
      /\ \A i \in DOMAIN nodes[t] : nodes[t][i] = NodeOf(op, epoch[t], i, t)
  <2> DEFINE m == Len(nodes[t])
             f == [i \in 1 .. m |-> NodeOf(op, epoch[t], i, t)]
  <2>1. nodes[t] = f
    BY <1>2
  <2>2. DOMAIN f = 1 .. m /\ \A i \in 1 .. m : f[i] = NodeOf(op, epoch[t], i, t)
    <3> HIDE DEF m
    <3> QED
      OBVIOUS
  <2> HIDE DEF f
  <2> QED
    BY <2>1, <2>2
<1>6. Point(t) \in Points
  BY DEF Typed, Point, Points, InBarrier
<1>7. StageOf(op, Point(t), worked[t]) \in Nat
  BY <1>1, <1>3 DEF StageOf
<1>8. Place(t) = <<epoch[t], Len(nodes[t]), StageOf(op, Point(t), worked[t])>>
  BY DEF Place
<1>9. Place(t) \in Places(op)
  BY <1>1, <1>4, <1>7, <1>8 DEF Places
<1> QED
  BY <1>1, <1>2, <1>4, <1>5, <1>6, <1>7, <1>8, <1>9

\* A thread is past the barriers of the nodes that it has, and so the others of the
\* team have come there: the communicators of its nodes exist.
LEMMA TeamComms ==
    ASSUME Typed, ThreadInv, CommsInv, SyncInv, NEW t \in Threads,
           NEW i \in DOMAIN nodes[t]
    PROVE  /\ CommOf(op, epoch[t], i, t) \in DOMAIN comms
           /\ comms[CommOf(op, epoch[t], i, t)].n_threads = SizeOf(op, epoch[t], i)
<1> DEFINE e == epoch[t]
           c == CommOf(op, e, i, t)
           n == SizeOf(op, e, i)
           j == Origin(op, e, i)
           b == Base(t, n)
           p == <<e, j - 1, 3>>
<1>1. /\ op \in Operations /\ e \in 1 .. Len(op.trees) /\ i \in NodesOf(op, e)
      /\ Len(nodes[t]) \in Nat /\ i \in 1 .. Len(nodes[t]) /\ Place(t) \in Places(op)
      /\ Place(t)[1] = e /\ Place(t)[2] = Len(nodes[t]) /\ t \in Nat
  BY Here DEF Threads
<1>2. CASE c = GL_COMM
  BY <1>1, <1>2, CommFacts DEF CommsInv
<1>3. CASE c = SINGLE_COMM
  BY <1>1, <1>3, CommFacts DEF CommsInv
<1>4. CASE c \notin {GL_COMM, SINGLE_COMM}
  <2>1. /\ j \in NodesOf(op, e) /\ j <= i /\ Made(op, e, j) /\ SizeOf(op, e, j) = n
        /\ c = <<e, j, b>> /\ b \in Threads
    BY <1>1, <1>4, CommFacts
  <2> HIDE DEF j, c, n
  <2>2. /\ BarrierAt(op, p) /\ p \in Places(op)
        /\ SizeAt(op, p) = SizeOf(op, e, Par(op, e, j))
    <3>1. 3 \in 1 .. 3
      OBVIOUS
    <3> QED
      BY <1>1, <2>1, <3>1, SplitBarriers, Zenon
  <2>3. j # 1 /\ j \in Nat
    BY <2>1 DEF Made, NodesOf
  <2>4. Base(b, SizeAt(op, p)) = Base(t, SizeAt(op, p)) /\ Base(b, n) = b
    BY <1>1, <2>1, <2>2, <2>3, ParentTeams
  <2>5. Before(p, Place(t))
    BY <1>1, <2>1, <2>3 DEF Before
  <2>6. Arrived(b, p)
    BY <1>1, <2>1, <2>2, <2>4, <2>5 DEF SyncInv, Synced, Peers, Past
  <2>7. ~ Before(Place(b), p)
    <3>1. Place(b) \in Nat \X Nat \X Nat /\ p \in Nat \X Nat \X Nat
      BY <2>1, <2>2, Here, PlacesAreTriples
    <3>2. Before(p, Place(b)) \/ p = Place(b)
      BY <2>6 DEF Arrived
    <3> QED
      BY <3>1, <3>2, Order
  <2>8. b % n = 0
    <3>1. n \in Nat \ {0}
      BY <1>1, CommFacts DEF n
    <3> QED
      BY <1>1, <3>1, BaseFacts
  <2>9. <<e, j, b>> \in MadeComms
    <3>1. j \in ChiefOf(op, e, b)
      BY <2>1, <2>8 DEF ChiefOf
    <3>2. Filled(e, j, b)
      BY <2>7 DEF Filled
    <3> QED
      BY <1>1, <2>1, <2>3, <3>1, <3>2 DEF MadeComms
  <2>10. comms[<<e, j, b>>].n_threads = SizeOf(op, e, j)
    BY <2>9 DEF CommsInv
  <2> QED
    BY <2>1, <2>9, <2>10 DEF CommsInv, c, n
<1> QED
  BY <1>2, <1>3, <1>4

-----------------------------------------------------------------------------
(***************************************************************************)
(* Barriers                                                                *)
(***************************************************************************)

\* A team has one communicator.
LEMMA TeamComm ==
    ASSUME NEW o, NEW e, NEW i, NEW t, NEW u,
           Base(t, SizeOf(o, e, i)) = Base(u, SizeOf(o, e, i))
    PROVE  CommOf(o, e, i, t) = CommOf(o, e, i, u)
BY DEF CommOf

\* A thread in a barrier uses a communicator that exists, for its team.
LEMMA BarrierOf ==
    ASSUME Typed, ThreadInv, CommsInv, SyncInv, NEW t \in Threads, InBarrier(t)
    PROVE  /\ BarrierAt(op, Place(t)) /\ Place(t) \in Places(op)
           /\ at[t] = CommAt(op, Place(t), t)
           /\ at[t] \in DOMAIN comms
           /\ comms[at[t]].n_threads = SizeAt(op, Place(t))
<1> DEFINE b == Place(t)
           i == NodeAt(op, b)
<1>1. BarrierAt(op, b) /\ at[t] = CommAt(op, b, t)
  BY DEF ThreadInv, PointOk
<1>2. /\ op \in Operations /\ b[1] = epoch[t] /\ b[2] = Len(nodes[t]) /\ b \in Places(op)
      /\ DOMAIN nodes[t] = 1 .. Len(nodes[t]) /\ Len(nodes[t]) \in Nat
  BY Here
<1> HIDE DEF b
<1>3. i \in NodesOf(op, b[1]) /\ i <= b[2] /\ SizeAt(op, b) = SizeOf(op, b[1], i)
  BY <1>1, <1>2, BarrierFacts
<1>4. i \in DOMAIN nodes[t]
  BY <1>2, <1>3 DEF NodesOf
<1>5. /\ CommOf(op, epoch[t], i, t) \in DOMAIN comms
      /\ comms[CommOf(op, epoch[t], i, t)].n_threads = SizeOf(op, epoch[t], i)
  BY <1>4, TeamComms
<1>6. at[t] = CommOf(op, epoch[t], i, t)
  BY <1>1, <1>2 DEF CommAt
<1> QED
  BY <1>1, <1>2, <1>3, <1>5, <1>6 DEF b

\* Threads that are in barriers of one communicator are of one team.
LEMMA OneTeam ==
    ASSUME Typed, ThreadInv, NEW t \in Threads, NEW u \in Threads,
           InBarrier(t), InBarrier(u), at[t] = at[u]
    PROVE  /\ SizeAt(op, Place(t)) = SizeAt(op, Place(u))
           /\ Peers(t, u, Place(t)) /\ Peers(u, t, Place(t))
<1> DEFINE b == Place(t)
           c == Place(u)
<1>1. BarrierAt(op, b) /\ at[t] = CommAt(op, b, t) /\ BarrierAt(op, c) /\ at[u] = CommAt(op, c, u)
  BY DEF ThreadInv, PointOk
<1>2. op \in Operations
  BY DEF Typed
<1> HIDE DEF b, c
<1>3. /\ b[1] \in 1 .. Len(op.trees) /\ NodeAt(op, b) \in NodesOf(op, b[1])
      /\ SizeOf(op, b[1], NodeAt(op, b)) # 1 /\ SizeAt(op, b) = SizeOf(op, b[1], NodeAt(op, b))
  BY <1>1, <1>2, BarrierFacts
<1>4. /\ c[1] \in 1 .. Len(op.trees) /\ NodeAt(op, c) \in NodesOf(op, c[1])
      /\ SizeOf(op, c[1], NodeAt(op, c)) # 1 /\ SizeAt(op, c) = SizeOf(op, c[1], NodeAt(op, c))
  BY <1>1, <1>2, BarrierFacts
<1>5. CommOf(op, b[1], NodeAt(op, b), t) = CommOf(op, c[1], NodeAt(op, c), u)
  BY <1>1 DEF CommAt
<1>6. /\ SizeAt(op, b) = SizeAt(op, c)
      /\ Base(t, SizeAt(op, b)) = Base(u, SizeAt(op, b))
  BY <1>2, <1>3, <1>4, <1>5, SameComm
<1>7. Peers(t, u, b) /\ Peers(u, t, b)
  BY <1>1, <1>6 DEF Peers
<1> QED
  BY <1>6, <1>7 DEF b, c

\* Peers at one barrier use one communicator.
LEMMA PeersAt ==
    ASSUME Typed, ThreadInv, NEW t \in Threads, NEW u \in Threads,
           InBarrier(t), InBarrier(u), Place(t) = Place(u), Peers(t, u, Place(t))
    PROVE  at[t] = at[u]
<1>1. at[t] = CommAt(op, Place(t), t) /\ at[u] = CommAt(op, Place(t), u)
  BY DEF ThreadInv, PointOk
<1> QED
  BY <1>1, TeamComm DEF Peers, CommAt, SizeAt

\* Who waits where t comes to wait is at the barrier t is at.
LEMMA Together ==
    ASSUME Typed, ThreadInv, SyncInv, NEW t \in Threads, NEW u \in Threads,
           pc[t] = "arrive" \/ Waits(t), Waits(u), at[t] = at[u]
    PROVE  Place(t) = Place(u)
<1>1. InBarrier(u) /\ pc[u] = "spin" /\ InBarrier(t)
  BY DEF Waits, InBarrier
<1>2. Peers(t, u, Place(t)) /\ Peers(u, t, Place(u)) /\ BarrierAt(op, Place(t))
  BY <1>1, OneTeam DEF ThreadInv, PointOk
<1>3. Place(t) \in Places(op) /\ Place(u) \in Places(op)
  BY Here
<1>4. Place(t) \in Nat \X Nat \X Nat /\ Place(u) \in Nat \X Nat \X Nat
  BY <1>3, PlacesAreTriples DEF Typed
<1>5. CASE Before(Place(t), Place(u))
  <2>1. Arrived(t, Place(u)) => Place(t) = Place(u)
    BY <1>2, <1>3 DEF SyncInv, Synced
  <2>2. Peers(u, t, Place(t))
    BY <1>1, OneTeam
  <2>3. Past(u, Place(t))
    BY <1>5 DEF Past
  <2>4. Arrived(t, Place(t))
    BY <1>3, <2>2, <2>3 DEF SyncInv, Synced
  <2>5. pc[t] # "arrive"
    BY <1>3, <1>4, <2>4, Order DEF Arrived
  <2>6. Waits(t)
    BY <2>5
  <2>7. Arrived(u, Place(t))
    BY <1>5 DEF Arrived
  <2> QED
    BY <1>2, <1>3, <2>2, <2>6, <2>7, OneTeam DEF SyncInv, Synced
<1>6. CASE Before(Place(u), Place(t))
  <2>1. Arrived(t, Place(u))
    BY <1>6 DEF Arrived
  <2> QED
    BY <1>2, <1>3, <2>1 DEF SyncInv, Synced
<1> QED
  BY <1>4, <1>5, <1>6, Order

-----------------------------------------------------------------------------
(***************************************************************************)
(* Steps of one thread                                                     *)
(***************************************************************************)

\* What belongs to the other threads is left alone.
Others(t) ==
    \A u \in Threads \ {t} :
        /\ pc'[u] = pc[u] /\ ret'[u] = ret[u] /\ at'[u] = at[u]
        /\ orig_sense'[u] = orig_sense[u] /\ epoch'[u] = epoch[u]
        /\ nodes'[u] = nodes[u] /\ gone'[u] = gone[u]
        /\ new_comms'[u] = new_comms[u] /\ worked'[u] = worked[u]

\* t goes on, past no barrier; it waits if there is a barrier where it comes to.
Advance(t) ==
    \/ Place(t)' = Place(t) /\ ~ InBarrier(t)'
    \/ /\ Before(Place(t), Place(t)')
       /\ \A b \in Places(op) :
            BarrierAt(op, b) => ~ (Before(Place(t), b) /\ Before(b, Place(t)'))
       /\ BarrierAt(op, Place(t)') => InBarrier(t)'

\* The barriers of the communicators are left alone, and those of new ones are empty.
BarriersKept ==
    /\ \A c \in DOMAIN comms :
        c \in DOMAIN comms' /\ comms'[c].arrived = comms[c].arrived /\ comms'[c].sense = comms[c].sense
    /\ \A c \in DOMAIN comms' \ DOMAIN comms : comms'[c].arrived = 0

\* A step of t leaves the places of the others alone.
LEMMA OtherPlaces ==
    ASSUME op' = op, NEW t \in Threads, Others(t), NEW u \in Threads \ {t}
    PROVE  /\ Point(u)' = Point(u) /\ Place(u)' = Place(u)
           /\ pc'[u] = pc[u] /\ at'[u] = at[u] /\ orig_sense'[u] = orig_sense[u]
           /\ (InBarrier(u)' <=> InBarrier(u))
           /\ \A b : Arrived(u, b)' <=> Arrived(u, b)
           /\ \A b : Past(u, b)' <=> Past(u, b)
<1>1. /\ pc'[u] = pc[u] /\ ret'[u] = ret[u] /\ at'[u] = at[u] /\ orig_sense'[u] = orig_sense[u]
      /\ epoch'[u] = epoch[u] /\ nodes'[u] = nodes[u] /\ worked'[u] = worked[u]
  BY DEF Others
<1>2. InBarrier(u)' <=> InBarrier(u)
  BY <1>1 DEF InBarrier
<1>3. Point(u)' = Point(u)
  BY <1>1, <1>2 DEF Point
<1>4. Place(u)' = Place(u)
  BY <1>1, <1>3 DEF Place
<1>5. \A b : Arrived(u, b)' <=> Arrived(u, b)
  BY <1>1, <1>4 DEF Arrived
<1>6. \A b : Past(u, b)' <=> Past(u, b)
  BY <1>2, <1>4 DEF Past
<1> QED
  BY <1>1, <1>2, <1>3, <1>4, <1>5, <1>6

\* Who goes on from one barrier to the next keeps the threads in step.
LEMMA MoveSync ==
    ASSUME Typed, ThreadInv, CommsInv, SyncInv, op' = op, NEW t \in Threads, Others(t),
           ~ InBarrier(t), pc'[t] # "spin", Place(t)' \in Places(op), Advance(t), BarriersKept
    PROVE  SyncInv'
<1>1. ASSUME NEW u \in Threads PROVE Waits(u)' <=> Waits(u)
  <2>1. CASE u = t
    BY <2>1 DEF Waits, InBarrier
  <2>2. CASE u # t
    <3>1. pc'[u] = pc[u] /\ at'[u] = at[u] /\ orig_sense'[u] = orig_sense[u]
      BY <2>2, OtherPlaces
    <3>2. CASE pc[u] = "spin"
      <4>1. at[u] \in DOMAIN comms
        BY <3>2, BarrierOf DEF InBarrier
      <4> QED
        BY <3>1, <4>1 DEF Waits, BarriersKept
    <3>3. CASE pc[u] # "spin"
      BY <3>1, <3>3 DEF Waits
    <3> QED
      BY <3>2, <3>3
  <2> QED
    BY <2>1, <2>2
<1>2. ASSUME NEW b \in Places(op), BarrierAt(op, b)
      PROVE  (Arrived(t, b)' => Past(t, b)) /\ (Past(t, b)' => Past(t, b))
             /\ (Past(t, b) => Arrived(t, b)') /\ (Arrived(t, b) => Arrived(t, b)')
  <2> DEFINE p == Place(t)
             q == Place(t)'
  <2>1. /\ p \in Nat \X Nat \X Nat /\ q \in Nat \X Nat \X Nat /\ b \in Nat \X Nat \X Nat
        /\ op \in Operations
    BY Here, PlacesAreTriples DEF Typed
  <2>2. Arrived(t, b)' => Before(b, q) \/ (b = q /\ ~ InBarrier(t)')
    BY DEF Arrived, InBarrier
  <2>3. Past(t, b)' => Before(b, q) \/ (b = q /\ ~ InBarrier(t)')
    BY DEF Past
  <2>4. Past(t, b) <=> Before(b, p) \/ b = p
    BY DEF Past
  <2>5. Arrived(t, b) => Before(b, p) \/ b = p
    BY DEF Arrived
  <2>6. Before(b, q) \/ (b = q /\ ~ InBarrier(t)') => Arrived(t, b)'
    BY DEF Arrived, InBarrier
  <2>7. \/ q = p /\ ~ InBarrier(t)'
        \/ /\ Before(p, q) /\ ~ (Before(p, b) /\ Before(b, q))
           /\ BarrierAt(op, q) => InBarrier(t)'
    BY <1>2 DEF Advance
  <2> HIDE DEF p, q
  <2>8. Before(b, q) \/ (b = q /\ ~ InBarrier(t)') => Before(b, p) \/ b = p
    BY <1>2, <2>1, <2>7, Order
  <2>9. Before(b, p) \/ b = p => Before(b, q) \/ (b = q /\ ~ InBarrier(t)')
    BY <2>1, <2>7, Order
  <2> QED
    BY <2>2, <2>3, <2>4, <2>5, <2>6, <2>8, <2>9
<1>3. ASSUME NEW v \in Threads, NEW u \in Threads, NEW b \in Places(op), Peers(v, u, b)
      PROVE  Synced(v, u, b)'
  <2>1. Synced(v, u, b) /\ BarrierAt(op, b)
    BY <1>3 DEF SyncInv, Peers
  <2>2. Past(v, b)' => Past(v, b)
    BY <1>2, <2>1, OtherPlaces
  <2>3. Arrived(u, b) => Arrived(u, b)'
    BY <1>2, <2>1, OtherPlaces
  <2>4. (Past(v, b) => Arrived(u, b)) => (Past(v, b)' => Arrived(u, b)')
    BY <2>2, <2>3
  <2>5. b = Place(v)' /\ pc'[v] = "spin" /\ ~ Waits(v)' => Arrived(u, b)'
    <3>1. CASE v = t
      BY <3>1
    <3>2. CASE v # t
      BY <1>1, <2>1, <2>3, <3>2, OtherPlaces DEF Synced
    <3> QED
      BY <3>1, <3>2
  <2>6. b = Place(v)' /\ Waits(v)' /\ Arrived(u, b)' => Place(u)' = b /\ Waits(u)'
    <3> SUFFICES ASSUME b = Place(v)', Waits(v)', Arrived(u, b)'
                 PROVE  Place(u)' = b /\ Waits(u)'
      OBVIOUS
    <3>1. Waits(v) /\ v # t
      BY <1>1 DEF Waits
    <3>2. b = Place(v)
      BY <3>1, OtherPlaces
    <3>3. Arrived(u, b)
      <4>1. CASE u = t
        <5>1. Arrived(t, b)'
          BY <4>1
        <5>2. Past(t, b)
          BY <1>2, <2>1, <5>1
        <5> QED
          BY <4>1, <5>2 DEF Arrived, Past, InBarrier
      <4>2. CASE u # t
        BY <4>2, OtherPlaces
      <4> QED
        BY <4>1, <4>2
    <3>4. Place(u) = b /\ Waits(u)
      BY <2>1, <3>1, <3>2, <3>3 DEF Synced
    <3>5. u # t
      BY <3>4 DEF Waits, InBarrier
    <3> QED
      BY <1>1, <3>4, <3>5, OtherPlaces
  <2> QED
    BY <2>1, <2>4, <2>5, <2>6 DEF Synced
<1>4. ASSUME NEW v \in Threads, NEW u \in Threads, NEW b \in Places(op)
      PROVE  Peers(v, u, b)' <=> Peers(v, u, b)
  BY DEF Peers
<1>5. ASSUME NEW c \in DOMAIN comms' PROVE comms'[c].arrived = Cardinality(Waiting(c)')
  <2>1. Waiting(c)' = Waiting(c)
    <3>1. ASSUME NEW u \in Threads
          PROVE  (Waits(u)' /\ at'[u] = c) <=> (Waits(u) /\ at[u] = c)
      <4>1. CASE u = t
        BY <1>1, <4>1 DEF Waits, InBarrier
      <4>2. CASE u # t
        BY <1>1, <4>2, OtherPlaces
      <4> QED
        BY <4>1, <4>2
    <3> QED
      BY <3>1 DEF Waiting
  <2>2. CASE c \in DOMAIN comms
    BY <2>1, <2>2 DEF SyncInv, BarriersKept
  <2>3. CASE c \notin DOMAIN comms
    <3>1. Waiting(c) = {}
      <4>1. ASSUME NEW u \in Threads, Waits(u), at[u] = c PROVE FALSE
        BY <2>3, <4>1, BarrierOf DEF Waits, InBarrier
      <4> QED
        BY <4>1 DEF Waiting
    <3> QED
      BY <2>1, <2>3, <3>1, FS_EmptySet DEF BarriersKept
  <2> QED
    BY <2>2, <2>3
<1>6. \A v, u \in Threads : \A b \in Places(op) : Peers(v, u, b)' => Synced(v, u, b)'
  BY <1>3, <1>4
<1> QED
  BY <1>5, <1>6 DEF SyncInv

\* The sense of a barrier has two values.
LEMMA NextIsOther == \A s \in {0, 1} : 1 - s \in {0, 1} /\ 1 - s # s
  OBVIOUS

\* The barrier of r, with another count and sense
Toggled(r, x, y) == [r EXCEPT !.arrived = x, !.sense = y]

\* What an arrival writes into a communicator
LEMMA TwoFields ==
    ASSUME NEW r \in CommType, NEW x \in Nat, NEW y \in {0, 1}
    PROVE  LET q == Toggled(r, x, y)
           IN  /\ q \in CommType /\ q.arrived = x /\ q.sense = y /\ q.live = r.live
               /\ q.n_threads = r.n_threads /\ q.sent_object = r.sent_object
BY DEF CommType, Toggled

\* What an arrival changes
LEMMA ArriveEffect ==
    ASSUME Typed, ThreadInv, CommsInv, SyncInv, op' = op, NEW t \in Threads, Arrive(t)
    PROVE  LET c == at[t]
               last == comms[c].arrived + 1 = SizeAt(op, Place(t))
           IN  /\ Others(t) /\ InBarrier(t) /\ at' = at /\ ret' = ret /\ c \in DOMAIN comms
               /\ epoch' = epoch /\ nodes' = nodes /\ gone' = gone
               /\ new_comms' = new_comms /\ worked' = worked /\ arrays' = arrays
               /\ DOMAIN comms' = DOMAIN comms
               /\ \A d \in DOMAIN comms : d # c => comms'[d] = comms[d]
               /\ comms'[c].arrived = IF last THEN 0 ELSE comms[c].arrived + 1
               /\ comms'[c].sense = IF last THEN 1 - comms[c].sense ELSE comms[c].sense
               /\ comms'[c].live = comms[c].live /\ comms'[c].n_threads = comms[c].n_threads
               /\ comms'[c].sent_object = comms[c].sent_object
               /\ comms'[c] \in CommType
               /\ orig_sense'[t] = comms[c].sense
               /\ pc'[t] = IF last THEN ret[t] ELSE "spin"
               /\ Point(t)' = Point(t) /\ Place(t)' = Place(t)
               /\ (InBarrier(t)' <=> ~ last)
               /\ pc' \in [Threads -> Points \cup {"arrive", "spin"}]
               /\ orig_sense' \in [Threads -> {0, 1}]
<1> DEFINE c == at[t]
           last == comms[c].arrived + 1 = SizeAt(op, Place(t))
<1>1. InBarrier(t) /\ c \in DOMAIN comms /\ comms[c].n_threads = SizeAt(op, Place(t))
  BY BarrierOf DEF Arrive, InBarrier
<1>2. comms[c] \in CommType
  BY <1>1 DEF Typed
<1>3. /\ comms' = [comms EXCEPT ![c].arrived = IF last THEN 0 ELSE comms[c].arrived + 1,
                                ![c].sense = IF last THEN 1 - comms[c].sense ELSE comms[c].sense]
      /\ orig_sense' = [orig_sense EXCEPT ![t] = comms[c].sense]
      /\ pc' = [pc EXCEPT ![t] = IF last THEN ret[t] ELSE "spin"]
      /\ at' = at /\ ret' = ret /\ arrays' = arrays
      /\ epoch' = epoch /\ nodes' = nodes /\ gone' = gone
      /\ new_comms' = new_comms /\ worked' = worked
  BY <1>1, Zenon DEF Arrive, Goto, treeVars
<1> HIDE DEF c, last
<1>4. /\ DOMAIN comms' = DOMAIN comms
      /\ \A d \in DOMAIN comms : d # c => comms'[d] = comms[d]
      /\ comms'[c] = Toggled(comms[c], IF last THEN 0 ELSE comms[c].arrived + 1,
                                       IF last THEN 1 - comms[c].sense ELSE comms[c].sense)
  BY <1>1, <1>3 DEF Toggled
<1>5. /\ comms'[c].arrived = IF last THEN 0 ELSE comms[c].arrived + 1
      /\ comms'[c].sense = IF last THEN 1 - comms[c].sense ELSE comms[c].sense
      /\ comms'[c].live = comms[c].live /\ comms'[c].n_threads = comms[c].n_threads
      /\ comms'[c].sent_object = comms[c].sent_object
      /\ comms'[c] \in CommType
  <2> DEFINE x == IF last THEN 0 ELSE comms[c].arrived + 1
             y == IF last THEN 1 - comms[c].sense ELSE comms[c].sense
  <2>1. x \in Nat /\ y \in {0, 1}
    BY <1>2 DEF CommType
  <2>2. comms'[c] = Toggled(comms[c], x, y)
    BY <1>4
  <2> HIDE DEF x, y
  <2>3. /\ comms'[c] \in CommType /\ comms'[c].arrived = x /\ comms'[c].sense = y
        /\ comms'[c].live = comms[c].live
        /\ comms'[c].n_threads = comms[c].n_threads /\ comms'[c].sent_object = comms[c].sent_object
    <3> DEFINE q == comms'[c]
               r == comms[c]
    <3>1. q = Toggled(r, x, y) /\ r \in CommType
      BY <1>2, <2>2
    <3> HIDE DEF q, r
    <3>2. /\ q \in CommType /\ q.arrived = x /\ q.sense = y /\ q.live = r.live
          /\ q.n_threads = r.n_threads /\ q.sent_object = r.sent_object
      BY <2>1, <3>1, TwoFields
    <3> QED
      BY <3>2 DEF q, r
  <2> QED
    BY <2>3 DEF x, y
<1>6. /\ pc \in [Threads -> Points \cup {"arrive", "spin"}]
      /\ orig_sense \in [Threads -> {0, 1}] /\ comms[c].sense \in {0, 1} /\ ret[t] \in Points
  BY <1>2 DEF Typed, CommType
<1>7. /\ pc' \in [Threads -> Points \cup {"arrive", "spin"}]
      /\ orig_sense' \in [Threads -> {0, 1}]
      /\ orig_sense'[t] = comms[c].sense
      /\ pc'[t] = IF last THEN ret[t] ELSE "spin"
      /\ \A u \in Threads \ {t} : pc'[u] = pc[u] /\ orig_sense'[u] = orig_sense[u]
  BY <1>3, <1>6
<1>8. Others(t)
  BY <1>3, <1>7 DEF Others
<1>9. InBarrier(t)' <=> ~ last
  <2>1. ret[t] \notin {"arrive", "spin"}
    BY <1>6 DEF Points
  <2> QED
    BY <1>7, <2>1 DEF InBarrier
<1>10. Point(t)' = Point(t)
  BY <1>1, <1>3, <1>7, <1>9 DEF Point
<1>11. Place(t)' = Place(t)
  BY <1>3, <1>10 DEF Place
<1> QED
  BY <1>1, <1>3, <1>4, <1>5, <1>7, <1>8, <1>9, <1>10, <1>11 DEF c, last

\* Who waits where t arrives is of its team, which has come when t is the last.
LEMMA TeamWaits ==
    ASSUME Typed, ThreadInv, CommsInv, SyncInv, NEW t \in Threads, pc[t] = "arrive"
    PROVE  LET W == Waiting(at[t])
               n == SizeAt(op, Place(t))
           IN  /\ t \notin W /\ IsFiniteSet(W) /\ Cardinality(W) = comms[at[t]].arrived
               /\ \A u \in W : Place(u) = Place(t) /\ Base(u, n) = Base(t, n)
               /\ Cardinality(W) + 1 = n =>
                    W \cup {t} = {u \in Threads : Base(u, n) = Base(t, n)}
<1> DEFINE W == Waiting(at[t])
           n == SizeAt(op, Place(t))
           T == {u \in Threads : Base(u, n) = Base(t, n)}
<1>1. InBarrier(t) /\ op \in Operations
  BY DEF InBarrier, Typed
<1>2. at[t] \in DOMAIN comms /\ BarrierAt(op, Place(t))
  BY <1>1, BarrierOf
<1>3. t \notin W /\ W \subseteq Threads
  BY DEF Waiting, Waits
<1>4. Cardinality(W) = comms[at[t]].arrived
  BY <1>2 DEF SyncInv
<1>5. ASSUME NEW u \in W PROVE Place(u) = Place(t) /\ Base(u, n) = Base(t, n)
  <2>1. u \in Threads /\ Waits(u) /\ at[u] = at[t] /\ InBarrier(u)
    BY DEF Waiting, Waits, InBarrier
  <2>2. Place(t) = Place(u)
    BY <2>1, Together
  <2>3. Peers(t, u, Place(t))
    BY <1>1, <2>1, OneTeam
  <2> QED
    BY <2>2, <2>3 DEF Peers
<1>6. n \in Nat \ {0} /\ \E k \in Nat : NT = n * k
  <2>1. /\ n = SizeOf(op, Place(t)[1], NodeAt(op, Place(t)))
        /\ Place(t)[1] \in 1 .. Len(op.trees) /\ NodeAt(op, Place(t)) \in NodesOf(op, Place(t)[1])
        /\ n \in Nat \ {0}
    BY <1>1, <1>2, BarrierFacts
  <2>2. \E k \in Nat \ {0} : NT = n * k
    BY <1>1, <2>1, Sizes
  <2> HIDE DEF n
  <2> QED
    BY <2>1, <2>2
<1>7. IsFiniteSet(T) /\ Cardinality(T) = n
  <2> HIDE DEF n
  <2> QED
    BY <1>6, TeamMembers
<1>8. t \in T /\ W \subseteq T \ {t}
  BY <1>3, <1>5
<1>9. IsFiniteSet(W)
  BY <1>7, <1>8, FS_Subset
<1>10. Cardinality(W) + 1 = n => W \cup {t} = T
  <2> SUFFICES ASSUME Cardinality(W) + 1 = n PROVE W \cup {t} = T
    OBVIOUS
  <2>1. Cardinality(W \cup {t}) = Cardinality(W) + 1
    BY <1>3, <1>9, FS_AddElement
  <2>2. W \cup {t} \subseteq T
    BY <1>8
  <2> HIDE DEF T, W, n
  <2> QED
    BY <1>7, <2>1, <2>2, FS_Subset
<1> QED
  BY <1>3, <1>4, <1>5, <1>9, <1>10

\* An arrival: the last of a team lets all of it go, the others wait.
LEMMA ArriveSync ==
    ASSUME Typed, ThreadInv, CommsInv, SyncInv, op' = op, NEW t \in Threads, Arrive(t)
    PROVE  SyncInv'
<1> DEFINE c == at[t]
           b0 == Place(t)
           n == SizeAt(op, b0)
           W == Waiting(c)
           last == comms[c].arrived + 1 = n
<1>1. pc[t] = "arrive" /\ InBarrier(t) /\ ~ Waits(t)
  BY DEF Arrive, InBarrier, Waits
<1>2. /\ Others(t) /\ at' = at /\ c \in DOMAIN comms
      /\ DOMAIN comms' = DOMAIN comms
      /\ \A d \in DOMAIN comms : d # c => comms'[d] = comms[d]
      /\ comms'[c].arrived = IF last THEN 0 ELSE comms[c].arrived + 1
      /\ comms'[c].sense = IF last THEN 1 - comms[c].sense ELSE comms[c].sense
      /\ orig_sense'[t] = comms[c].sense
      /\ pc'[t] = IF last THEN ret[t] ELSE "spin"
      /\ Place(t)' = b0
      /\ (InBarrier(t)' <=> ~ last)
  BY ArriveEffect
<1>3. /\ t \notin W /\ IsFiniteSet(W) /\ Cardinality(W) = comms[c].arrived
      /\ \A u \in W : Place(u) = b0 /\ Base(u, n) = Base(t, n)
      /\ last => W \cup {t} = {u \in Threads : Base(u, n) = Base(t, n)}
  BY <1>1, TeamWaits
<1>4. b0 \in Places(op) /\ BarrierAt(op, b0) /\ b0 \in Nat \X Nat \X Nat
  BY <1>1, Here, BarrierOf, PlacesAreTriples DEF Typed
<1>5. comms[c].sense \in {0, 1}
  BY <1>2 DEF Typed, CommType
<1>6. pc'[t] # "arrive"
  BY <1>2 DEF Typed, Points
<1> HIDE DEF c, b0, n, W, last
<1>7. ASSUME NEW u \in Threads, u # t
      PROVE  /\ pc'[u] = pc[u] /\ at'[u] = at[u] /\ orig_sense'[u] = orig_sense[u]
             /\ Place(u)' = Place(u)
             /\ \A b : Arrived(u, b)' <=> Arrived(u, b)
             /\ \A b : Past(u, b)' <=> Past(u, b)
  BY <1>2, <1>7, OtherPlaces
<1>8. ASSUME NEW b
      PROVE  (Arrived(t, b)' <=> Arrived(t, b) \/ b = b0)
             /\ (Past(t, b)' <=> Past(t, b) \/ (b = b0 /\ last))
  <2>1. Arrived(t, b) <=> Before(b, b0)
    BY <1>1 DEF Arrived, b0
  <2>2. Past(t, b) <=> Before(b, b0)
    BY <1>1 DEF Past, b0
  <2>3. Arrived(t, b)' <=> Before(b, b0) \/ b = b0
    BY <1>2, <1>6 DEF Arrived
  <2>4. Past(t, b)' <=> Before(b, b0) \/ (b = b0 /\ last)
    BY <1>2 DEF Past
  <2> QED
    BY <2>1, <2>2, <2>3, <2>4
<1>9. ASSUME NEW u \in Threads, NEW b, Arrived(u, b)
      PROVE  Arrived(u, b)'
  BY <1>7, <1>8, <1>9
<1>10. ASSUME NEW v \in Threads, NEW u \in Threads, NEW b \in Places(op)
       PROVE  Peers(v, u, b)' <=> Peers(v, u, b)
  BY DEF Peers
<1>11. ASSUME NEW v \in Threads, pc[v] = "spin"
       PROVE  at[v] \in DOMAIN comms /\ InBarrier(v) /\ v # t
  BY <1>1, <1>11, BarrierOf DEF InBarrier
<1>12. ASSUME NEW v \in Threads, v # t, InBarrier(v), Place(v) = b0, Peers(v, t, b0)
       PROVE  at[v] = c
  BY <1>1, <1>12, PeersAt DEF c, b0
<1>13. \A u \in Threads : u \in W <=> Waits(u) /\ at[u] = c
  BY DEF W, Waiting
<1>14. CASE last
  <2>1. ASSUME NEW v \in Threads, pc[v] = "spin", at[v] = c PROVE v \in W
    <3>1. Peers(t, v, b0)
      BY <1>1, <1>11, <2>1, OneTeam DEF b0, c
    <3>2. Base(v, n) = Base(t, n)
      BY <3>1 DEF Peers, n
    <3> QED
      BY <1>3, <1>11, <1>14, <2>1, <3>2
  <2>2. ASSUME NEW v \in Threads PROVE Waits(v)' <=> Waits(v) /\ at[v] # c
    <3>1. CASE v = t
      <4>1. ~ Waits(t)'
        BY <1>2, <1>14 DEF Waits, InBarrier
      <4> QED
        BY <1>1, <3>1, <4>1
    <3>2. CASE v # t /\ at[v] = c
      <4>1. pc[v] = "spin" => comms[c].sense = orig_sense[v]
        BY <1>13, <2>1, <3>2 DEF Waits
      <4>2. comms'[c].sense # comms[c].sense
        BY <1>2, <1>5, <1>14, NextIsOther
      <4>3. ~ Waits(v)'
        BY <1>7, <3>2, <4>1, <4>2 DEF Waits
      <4> QED
        BY <3>2, <4>3
    <3>3. CASE v # t /\ at[v] # c
      <4>1. pc[v] = "spin" => comms'[at[v]] = comms[at[v]]
        BY <1>2, <1>11, <3>3
      <4> QED
        BY <1>7, <3>3, <4>1 DEF Waits
    <3> QED
      BY <3>1, <3>2, <3>3
  <2>3. ASSUME NEW u \in Threads, Base(u, n) = Base(t, n), NEW b, b = b0
        PROVE  Arrived(u, b)'
    <3>1. CASE u = t
      BY <1>8, <2>3, <3>1
    <3>2. CASE u # t
      <4>1. u \in W
        BY <1>3, <1>14, <2>3, <3>2
      <4>2. Arrived(u, b)
        BY <1>3, <1>13, <2>3, <4>1 DEF Arrived, Waits
      <4> QED
        BY <1>9, <4>2
    <3> QED
      BY <3>1, <3>2
  <2>4. ASSUME NEW v \in Threads, NEW u \in Threads, NEW b \in Places(op), Peers(v, u, b)
        PROVE  Synced(v, u, b)'
    <3>1. Synced(v, u, b)
      BY <2>4 DEF SyncInv
    <3>2. Past(v, b)' => Arrived(u, b)'
      <4> SUFFICES ASSUME Past(v, b)' PROVE Arrived(u, b)'
        OBVIOUS
      <4>1. CASE v = t /\ b = b0
        <5>1. Base(u, n) = Base(t, n)
          BY <2>4, <4>1 DEF Peers, n
        <5> QED
          BY <2>3, <4>1, <5>1
      <4>2. CASE ~ (v = t /\ b = b0)
        <5>1. Past(v, b)
          <6>1. CASE v = t
            BY <1>8, <4>2, <6>1
          <6>2. CASE v # t
            BY <1>7, <6>2
          <6> QED
            BY <6>1, <6>2
        <5> QED
          BY <1>9, <3>1, <5>1 DEF Synced
      <4> QED
        BY <4>1, <4>2
    <3>3. b = Place(v)' /\ pc'[v] = "spin" /\ ~ Waits(v)' => Arrived(u, b)'
      <4> SUFFICES ASSUME b = Place(v)', pc'[v] = "spin", ~ Waits(v)' PROVE Arrived(u, b)'
        OBVIOUS
      <4>1. v # t
        BY <1>2, <1>14 DEF InBarrier
      <4>2. b = Place(v) /\ pc[v] = "spin"
        BY <1>7, <4>1
      <4>3. CASE Waits(v)
        <5>1. v \in W
          BY <1>13, <2>2, <4>3
        <5>2. b = b0 /\ Base(v, n) = Base(t, n)
          BY <1>3, <4>2, <5>1
        <5>3. Base(u, n) = Base(t, n)
          BY <2>4, <5>2 DEF Peers, n
        <5> QED
          BY <2>3, <5>2, <5>3
      <4>4. CASE ~ Waits(v)
        BY <1>9, <3>1, <4>2, <4>4 DEF Synced
      <4> QED
        BY <4>3, <4>4
    <3>4. b = Place(v)' /\ Waits(v)' /\ Arrived(u, b)' => Place(u)' = b /\ Waits(u)'
      <4> SUFFICES ASSUME b = Place(v)', Waits(v)', Arrived(u, b)'
                   PROVE  Place(u)' = b /\ Waits(u)'
        OBVIOUS
      <4>1. Waits(v) /\ at[v] # c /\ v # t /\ InBarrier(v)
        BY <1>1, <2>2 DEF Waits, InBarrier
      <4>2. b = Place(v)
        BY <1>7, <4>1
      <4>3. ~ (u = t /\ b = b0)
        BY <1>12, <2>4, <4>1, <4>2
      <4>4. Arrived(u, b)
        BY <1>7, <1>8, <4>3
      <4>5. Place(u) = b /\ Waits(u)
        BY <3>1, <4>1, <4>2, <4>4 DEF Synced
      <4>6. u # t /\ InBarrier(u)
        BY <1>1, <4>5 DEF Waits, InBarrier
      <4>7. at[v] = at[u]
        BY <2>4, <4>1, <4>2, <4>5, <4>6, PeersAt
      <4> QED
        BY <1>7, <2>2, <4>1, <4>5, <4>6, <4>7
    <3> QED
      BY <3>2, <3>3, <3>4 DEF Synced
  <2>5. ASSUME NEW d \in DOMAIN comms PROVE comms'[d].arrived = Cardinality(Waiting(d)')
    <3>1. Waiting(d)' = {v \in Threads : Waits(v) /\ at[v] # c /\ at[v] = d}
      BY <1>2, <2>2 DEF Waiting
    <3>2. CASE d = c
      <4>1. Waiting(d)' = {}
        BY <3>1, <3>2
      <4> QED
        BY <1>2, <1>14, <3>2, <4>1, FS_EmptySet
    <3>3. CASE d # c
      <4>1. Waiting(d)' = Waiting(d)
        BY <3>1, <3>3 DEF Waiting
      <4> QED
        BY <1>2, <3>3, <4>1 DEF SyncInv
    <3> QED
      BY <3>2, <3>3
  <2> QED
    BY <1>2, <1>10, <2>4, <2>5 DEF SyncInv
<1>15. CASE ~ last
  <2>1. ASSUME NEW v \in Threads PROVE Waits(v)' <=> Waits(v) \/ v = t
    <3>1. CASE v = t
      BY <1>2, <1>15, <3>1 DEF Waits, c
    <3>2. CASE v # t
      <4>1. pc[v] = "spin" => comms'[at[v]].sense = comms[at[v]].sense
        BY <1>2, <1>11, <1>15
      <4> QED
        BY <1>7, <3>2, <4>1 DEF Waits
    <3> QED
      BY <3>1, <3>2
  <2>2. ASSUME NEW v \in Threads, NEW u \in Threads, NEW b \in Places(op), Peers(v, u, b)
        PROVE  Synced(v, u, b)'
    <3>1. Synced(v, u, b)
      BY <2>2 DEF SyncInv
    <3>2. Past(v, b)' => Arrived(u, b)'
      BY <1>7, <1>8, <1>9, <1>15, <3>1 DEF Synced
    <3>3. b = Place(v)' /\ pc'[v] = "spin" /\ ~ Waits(v)' => Arrived(u, b)'
      BY <1>7, <1>9, <2>1, <3>1 DEF Synced
    <3>4. b = Place(v)' /\ Waits(v)' /\ Arrived(u, b)' => Place(u)' = b /\ Waits(u)'
      <4> SUFFICES ASSUME b = Place(v)', Waits(v)', Arrived(u, b)'
                   PROVE  Place(u)' = b /\ Waits(u)'
        OBVIOUS
      <4>1. CASE u = t
        <5>1. CASE b = b0
          BY <1>2, <2>1, <4>1, <5>1
        <5>2. CASE b # b0
          <6>1. v # t
            BY <1>2, <5>2
          <6>2. Waits(v) /\ b = Place(v) /\ Arrived(u, b)
            BY <1>7, <1>8, <2>1, <4>1, <5>2, <6>1
          <6>3. Waits(t)
            BY <3>1, <4>1, <6>2 DEF Synced
          <6> QED
            BY <1>1, <6>3
        <5> QED
          BY <5>1, <5>2
      <4>2. CASE u # t
        <5>1. Arrived(u, b)
          BY <1>7, <4>2
        <5>2. CASE v # t
          BY <1>7, <2>1, <3>1, <4>2, <5>1, <5>2 DEF Synced
        <5>3. CASE v = t
          <6>1. b = b0
            BY <1>2, <5>3
          <6>2. Peers(u, t, b) /\ ~ Arrived(t, b)
            <7>1. ~ Before(b, b)
              BY <1>4, <6>1, Order
            <7> QED
              BY <1>1, <2>2, <5>3, <6>1, <7>1 DEF Peers, Arrived, b0
          <6>3. Synced(u, t, b)
            BY <6>2 DEF SyncInv
          <6>4. ~ Past(u, b) /\ ~ (b = Place(u) /\ pc[u] = "spin" /\ ~ Waits(u))
            BY <6>2, <6>3 DEF Synced
          <6>5. b = Place(u) /\ pc[u] = "spin"
            BY <5>1, <6>4 DEF Arrived, Past, InBarrier
          <6> QED
            BY <1>7, <2>1, <4>2, <6>4, <6>5
        <5> QED
          BY <5>2, <5>3
      <4> QED
        BY <4>1, <4>2
    <3> QED
      BY <3>2, <3>3, <3>4 DEF Synced
  <2>3. ASSUME NEW d \in DOMAIN comms PROVE comms'[d].arrived = Cardinality(Waiting(d)')
    <3>1. Waiting(d)' = {v \in Threads : (Waits(v) \/ v = t) /\ at[v] = d}
      BY <1>2, <2>1 DEF Waiting
    <3>2. CASE d = c
      <4>1. Waiting(d)' = W \cup {t}
        BY <3>1, <3>2 DEF W, Waiting, c
      <4>2. Cardinality(W \cup {t}) = Cardinality(W) + 1
        BY <1>3, FS_AddElement
      <4> QED
        BY <1>2, <1>3, <1>15, <3>2, <4>1, <4>2
    <3>3. CASE d # c
      <4>1. Waiting(d)' = Waiting(d)
        BY <3>1, <3>3 DEF Waiting, c
      <4> QED
        BY <1>2, <3>3, <4>1 DEF SyncInv
    <3> QED
      BY <3>2, <3>3
  <2> QED
    BY <1>2, <1>10, <2>2, <2>3 DEF SyncInv
<1> QED
  BY <1>14, <1>15

\* Who leaves the spin loop has been joined by its team.
LEMMA ExitSync ==
    ASSUME Typed, ThreadInv, CommsInv, SyncInv, op' = op, comms' = comms, at' = at,
           orig_sense' = orig_sense, NEW t \in Threads, Others(t), pc[t] = "spin", ~ Waits(t),
           Place(t)' = Place(t), pc'[t] \notin {"arrive", "spin"}
    PROVE  SyncInv'
<1>1. ASSUME NEW u \in Threads
      PROVE  /\ Place(u)' = Place(u)
             /\ (Waits(u)' <=> Waits(u))
             /\ \A b : Arrived(u, b)' <=> Arrived(u, b)
  <2>1. CASE u = t
    BY <2>1 DEF Waits, Arrived
  <2>2. CASE u # t
    BY <2>2, OtherPlaces DEF Waits
  <2> QED
    BY <2>1, <2>2
<1>2. ASSUME NEW v \in Threads, NEW u \in Threads, NEW b \in Places(op), Peers(v, u, b)
      PROVE  Synced(v, u, b)'
  <2>1. Synced(v, u, b)
    BY <1>2 DEF SyncInv
  <2>2. Past(v, b)' => Arrived(u, b)'
    <3>1. CASE v = t
      <4>1. Past(v, b)' => Past(v, b) \/ b = Place(t)
        BY <3>1 DEF Past
      <4> QED
        BY <1>1, <2>1, <3>1, <4>1 DEF Synced
    <3>2. CASE v # t
      BY <1>1, <2>1, <3>2, OtherPlaces DEF Synced
    <3> QED
      BY <3>1, <3>2
  <2>3. b = Place(v)' /\ pc'[v] = "spin" /\ ~ Waits(v)' => Arrived(u, b)'
    <3>1. pc'[v] = "spin" => pc[v] = "spin"
      BY OtherPlaces
    <3> QED
      BY <1>1, <2>1, <3>1 DEF Synced
  <2> QED
    BY <1>1, <2>1, <2>2, <2>3 DEF Synced
<1>3. \A v, u \in Threads : \A b \in Places(op) : Peers(v, u, b)' <=> Peers(v, u, b)
  BY DEF Peers
<1>4. \A d : Waiting(d)' = Waiting(d)
  BY <1>1 DEF Waiting
<1> QED
  BY <1>2, <1>3, <1>4 DEF SyncInv

-----------------------------------------------------------------------------
(***************************************************************************)
(* What a step of a thread leaves alone                                    *)
(***************************************************************************)

\* The object last sent by the chief of each other thread's nodes stays.
SentKept(t) ==
    \A u \in Threads \ {t} : \A i \in DOMAIN nodes[u] :
        u % SizeOf(op, epoch[u], i) = 0 =>
            comms'[CommOf(op, epoch[u], i, u)].sent_object
                = comms[CommOf(op, epoch[u], i, u)].sent_object

\* t goes on, or stays, and does not come to a barrier before a stage s.
Quiet(t, s) ==
    /\ Place(t)' \in Places(op)
    /\ Place(t)' = Place(t) \/ (Advance(t) /\ (Place(t)')[3] # s)

\* Steps that send nothing keep what was sent.
LEMMA SentKeptAll ==
    ASSUME Typed, ThreadInv, CommsInv, SyncInv, NEW t \in Threads,
           \A c \in DOMAIN comms : comms'[c].sent_object = comms[c].sent_object
    PROVE  SentKept(t)
BY TeamComms DEF SentKept

\* The parent of the node in the making is one of the nodes.
LEMMA ParentOf ==
    ASSUME Typed, ThreadInv, NEW t \in Threads, Len(nodes[t]) + 1 \in NodesOf(op, epoch[t])
    PROVE  /\ Par(op, epoch[t], Len(nodes[t]) + 1) \in DOMAIN nodes[t]
           /\ Par(op, epoch[t], Len(nodes[t]) + 1) \in NodesOf(op, epoch[t])
           /\ Len(nodes[t]) + 1 # 1 /\ (Len(nodes[t]) + 1) - 1 = Len(nodes[t])
<1> DEFINE n == Len(nodes[t])
           e == epoch[t]
<1>1. /\ op \in Operations /\ e \in 1 .. Len(op.trees) /\ n \in Nat \ {0}
      /\ DOMAIN nodes[t] = 1 .. n
  BY Here
<1> HIDE DEF n, e
<1>2. n + 1 # 1 /\ (n + 1) - 1 = n
  BY <1>1
<1>3. Par(op, e, n + 1) \in 1 .. (n + 1) - 1 /\ Par(op, e, n + 1) \in NodesOf(op, e)
  BY <1>1, <1>2, TreeFacts DEF n, e
<1> QED
  BY <1>1, <1>2, <1>3 DEF n, e

\* What the invariant says of another thread stays true.
LEMMA OthersInv ==
    ASSUME Typed, ThreadInv, op' = op, NEW t \in Threads, Others(t), SentKept(t),
           NEW u \in Threads \ {t}
    PROVE  NodesOk(u)' /\ PointOk(u)' /\ FreedOk(u)' /\ ReceivedOk(u)' /\ SentOk(u)'
<1>1. /\ pc'[u] = pc[u] /\ at'[u] = at[u] /\ epoch'[u] = epoch[u] /\ nodes'[u] = nodes[u]
      /\ gone'[u] = gone[u] /\ new_comms'[u] = new_comms[u] /\ worked'[u] = worked[u]
  BY DEF Others
<1>2. Point(u)' = Point(u) /\ Place(u)' = Place(u) /\ (InBarrier(u)' <=> InBarrier(u))
  BY OtherPlaces
<1>3. NodesOk(u) /\ PointOk(u) /\ FreedOk(u) /\ ReceivedOk(u) /\ SentOk(u)
  BY DEF ThreadInv
<1>4. NodesOk(u)'
  BY <1>1, <1>3 DEF NodesOk
<1>5. PointOk(u)'
  BY <1>1, <1>2, <1>3 DEF PointOk
<1>6. FreedOk(u)'
  BY <1>1, <1>2, <1>3 DEF FreedOk
<1>7. ReceivedOk(u)'
  BY <1>1, <1>2, <1>3 DEF ReceivedOk, ArrayOf
<1>8. SentOk(u)'
  <2>1. Point(u) \in {"receive", "fill", "attach"} =>
            Par(op, epoch[u], Len(nodes[u]) + 1) \in DOMAIN nodes[u]
    BY <1>3, ParentOf DEF PointOk
  <2>2. Point(u) \in {"receive", "fill", "attach"}
        /\ u % SizeOf(op, epoch[u], Par(op, epoch[u], Len(nodes[u]) + 1)) = 0 =>
            comms'[CommOf(op, epoch[u], Par(op, epoch[u], Len(nodes[u]) + 1), u)].sent_object
              = comms[CommOf(op, epoch[u], Par(op, epoch[u], Len(nodes[u]) + 1), u)].sent_object
    BY <2>1 DEF SentKept
  <2> QED
    BY <1>1, <1>2, <1>3, <2>2 DEF SentOk
<1> QED
  BY <1>4, <1>5, <1>6, <1>7, <1>8

\* So it is enough to look at the thread that moves.
LEMMA ThreadStep ==
    ASSUME Typed, ThreadInv, op' = op, NEW t \in Threads, Others(t), SentKept(t),
           NodesOk(t)', PointOk(t)', FreedOk(t)', ReceivedOk(t)', SentOk(t)'
    PROVE  ThreadInv'
<1>1. ASSUME NEW u \in Threads
      PROVE  NodesOk(u)' /\ PointOk(u)' /\ FreedOk(u)' /\ ReceivedOk(u)' /\ SentOk(u)'
  <2>1. CASE u = t
    BY <2>1
  <2>2. CASE u # t
    BY <2>2, OthersInv
  <2> QED
    BY <2>1, <2>2
<1> QED
  BY <1>1 DEF ThreadInv

\* Which barriers of splits are before t changes only when t comes to one.
LEMMA Crossing ==
    ASSUME Typed, ThreadInv, NEW t \in Threads, NEW s \in 1 .. 3, Quiet(t, s),
           NEW e \in 1 .. Len(op.trees), NEW i \in NodesOf(op, e), Made(op, e, i)
    PROVE  Before(Place(t)', <<e, i - 1, s>>) <=> Before(Place(t), <<e, i - 1, s>>)
<1> DEFINE b == <<e, i - 1, s>>
           p == Place(t)
           q == Place(t)'
<1>1. op \in Operations
  BY DEF Typed
<1>2. BarrierAt(op, b) /\ b \in Places(op) /\ b[3] = s
  BY <1>1, SplitBarriers
<1>3. p \in Places(op) /\ q \in Places(op)
  BY Here DEF Quiet
<1>4. p \in Nat \X Nat \X Nat /\ q \in Nat \X Nat \X Nat /\ b \in Nat \X Nat \X Nat
  BY <1>1, <1>2, <1>3, PlacesAreTriples
<1>5. q = p \/ (Before(p, q) /\ ~ (Before(p, b) /\ Before(b, q)) /\ q[3] # s)
  BY <1>2 DEF Quiet, Advance
<1> HIDE DEF b, p, q
<1>6. q # b \/ q = p
  BY <1>2, <1>5
<1>7. Before(q, b) <=> Before(p, b)
  BY <1>4, <1>5, <1>6, Order
<1> QED
  BY <1>7 DEF b, p, q

\* Nothing is filled in, or offered, between the barriers of a split.
LEMMA FilledSame ==
    ASSUME Typed, ThreadInv, op' = op, NEW t \in Threads, Others(t), Quiet(t, 3),
           NEW u \in Threads, NEW e \in 1 .. Len(op.trees), NEW i \in NodesOf(op, e),
           Made(op, e, i)
    PROVE  Filled(e, i, u)' <=> Filled(e, i, u)
<1>1. CASE u = t
  <2>1. 3 \in 1 .. 3
    OBVIOUS
  <2> QED
    BY <1>1, <2>1, Crossing DEF Filled
<1>2. CASE u # t
  BY <1>2, OtherPlaces DEF Filled
<1> QED
  BY <1>1, <1>2

LEMMA OfferedSame ==
    ASSUME Typed, ThreadInv, op' = op, NEW t \in Threads, Others(t), Quiet(t, 1),
           NEW u \in Threads, NEW e \in 1 .. Len(op.trees), NEW i \in NodesOf(op, e),
           Made(op, e, i)
    PROVE  Offered(e, i, u)' <=> Offered(e, i, u)
<1>1. CASE u = t
  <2>1. 1 \in 1 .. 3
    OBVIOUS
  <2> QED
    BY <1>1, <2>1, Crossing DEF Offered
<1>2. CASE u # t
  BY <1>2, OtherPlaces DEF Offered
<1> QED
  BY <1>1, <1>2

\* So no communicators, or arrays, are made there.
LEMMA MadeCommsSame ==
    ASSUME Typed, ThreadInv, op' = op, NEW t \in Threads, Others(t), Quiet(t, 3)
    PROVE  MadeComms' = MadeComms
<1>1. ASSUME NEW c \in (1 .. Len(op.trees)) \X Nat \X Threads,
             c[2] \in ChiefOf(op, c[1], c[3])
      PROVE  Filled(c[1], c[2], c[3])' <=> Filled(c[1], c[2], c[3])
  <2>1. c[1] \in 1 .. Len(op.trees) /\ c[3] \in Threads
    OBVIOUS
  <2>2. c[2] \in NodesOf(op, c[1]) /\ Made(op, c[1], c[2])
    BY <1>1 DEF ChiefOf
  <2> QED
    BY <2>1, <2>2, FilledSame
<1> QED
  BY <1>1 DEF MadeComms

LEMMA MadeArraysSame ==
    ASSUME Typed, ThreadInv, op' = op, NEW t \in Threads, Others(t), Quiet(t, 1)
    PROVE  MadeArrays' = MadeArrays
<1>1. ASSUME NEW a \in (1 .. Len(op.trees)) \X Nat \X Threads,
             a[2] \in NodesOf(op, a[1]), Made(op, a[1], a[2])
      PROVE  Offered(a[1], a[2], a[3])' <=> Offered(a[1], a[2], a[3])
  <2>1. a[1] \in 1 .. Len(op.trees) /\ a[3] \in Threads
    OBVIOUS
  <2> QED
    BY <1>1, <2>1, OfferedSame
<1> QED
  BY <1>1 DEF MadeArrays

\* What leaves the communicators where they are
LEMMA CommsStep ==
    ASSUME Typed, ThreadInv, CommsInv, op' = op, NEW t \in Threads, Others(t), Quiet(t, 3),
           pc[t] # "done", epoch'[t] = epoch[t], gone'[t] = gone[t],
           DOMAIN comms' = DOMAIN comms,
           \A c \in DOMAIN comms :
                comms'[c].live = comms[c].live /\ comms'[c].n_threads = comms[c].n_threads
    PROVE  CommsInv'
<1>1. MadeComms' = MadeComms
  BY MadeCommsSame
<1>2. \A u \in Threads : epoch'[u] = epoch[u] /\ gone'[u] = gone[u]
  BY DEF Others
<1>3. MadeComms \subseteq DOMAIN comms /\ GL_COMM \in DOMAIN comms /\ SINGLE_COMM \in DOMAIN comms
  BY DEF CommsInv
<1>4. comms[GL_COMM].live
  BY DEF CommsInv
<1>5. ASSUME NEW c \in MadeComms
      PROVE  /\ comms'[c].n_threads = SizeOf(op', c[1], c[2])
             /\ comms'[c].live <=> epoch'[c[3]] = c[1] /\ c[2] \notin gone'[c[3]]
  <2>1. c[3] \in Threads
    BY DEF MadeComms
  <2>2. /\ comms[c].n_threads = SizeOf(op, c[1], c[2])
        /\ comms[c].live <=> epoch[c[3]] = c[1] /\ c[2] \notin gone[c[3]]
    BY DEF CommsInv
  <2>3. comms'[c].live = comms[c].live /\ comms'[c].n_threads = comms[c].n_threads
    BY <1>3
  <2> QED
    BY <1>2, <2>1, <2>2, <2>3
<1> QED
  BY <1>1, <1>3, <1>4, <1>5 DEF CommsInv

\* What leaves the contents of the arrays as they are
LEMMA ArraysStep ==
    ASSUME Typed, ThreadInv, ArraysInv, op' = op, NEW t \in Threads, Others(t),
           Quiet(t, 1), Quiet(t, 3), DOMAIN arrays' = DOMAIN arrays,
           \A a \in MadeArrays :
                /\ arrays'[a].elem = arrays[a].elem
                /\ a[3] # t => arrays'[a].live = arrays[a].live
                /\ a[3] = t => (arrays'[a].live <=> Kept(a[1], a[2], t)')
    PROVE  ArraysInv'
<1>1. MadeArrays' = MadeArrays
  BY MadeArraysSame
<1>2. ASSUME NEW a \in MadeArrays
      PROVE  arrays'[a].live <=> Kept(a[1], a[2], a[3])'
  <2>1. CASE a[3] = t
    <3>1. Kept(a[1], a[2], a[3])' <=> Kept(a[1], a[2], t)'
      BY <2>1 DEF Kept, Point, InBarrier
    <3> QED
      BY <2>1, <3>1
  <2>2. CASE a[3] # t
    <3>1. a[3] \in Threads \ {t}
      BY <2>2 DEF MadeArrays
    <3>2. Kept(a[1], a[2], a[3])' <=> Kept(a[1], a[2], a[3])
      BY <3>1, OtherPlaces DEF Kept, Others
    <3>3. arrays[a].live <=> Kept(a[1], a[2], a[3])
      BY DEF ArraysInv
    <3> QED
      BY <2>2, <3>2, <3>3
  <2> QED
    BY <2>1, <2>2
<1>3. ASSUME NEW a \in MadeArrays, NEW u \in Threads,
             Base(u, SizeOf(op, a[1], Par(op, a[1], a[2]))) = a[3],
             u % SizeOf(op, a[1], a[2]) = 0, Filled(a[1], a[2], u)'
      PROVE  arrays'[a].elem[(u % SizeOf(op, a[1], Par(op, a[1], a[2])))
                                \div SizeOf(op, a[1], a[2])] = <<a[1], a[2], u>>
  <2>1. a[1] \in 1 .. Len(op.trees) /\ a[2] \in NodesOf(op, a[1]) /\ Made(op, a[1], a[2])
    BY DEF MadeArrays
  <2>2. Filled(a[1], a[2], u)
    BY <1>3, <2>1, FilledSame
  <2>3. arrays'[a].elem = arrays[a].elem
    OBVIOUS
  <2> QED
    BY <1>3, <2>2, <2>3 DEF ArraysInv
<1> QED
  BY <1>1, <1>2, <1>3 DEF ArraysInv

-----------------------------------------------------------------------------
(***************************************************************************)
(* Where the steps lead                                                    *)
(***************************************************************************)

\* The effect of a step without a barrier
LEMMA GotoEffect ==
    ASSUME Typed, NEW t \in Threads, NEW point \in Points, Goto(t, point)
    PROVE  /\ pc'[t] = point /\ ~ InBarrier(t)' /\ Point(t)' = point
           /\ pc' \in [Threads -> Points \cup {"arrive", "spin"}]
           /\ at' = at /\ ret' = ret
           /\ \A u \in Threads \ {t} : pc'[u] = pc[u]
<1>1. /\ pc \in [Threads -> Points \cup {"arrive", "spin"}]
      /\ pc' = [pc EXCEPT ![t] = point] /\ at' = at /\ ret' = ret
  BY DEF Typed, Goto
<1>2. pc'[t] = point /\ \A u \in Threads \ {t} : pc'[u] = pc[u]
  BY <1>1
<1>3. ~ InBarrier(t)'
  BY <1>2 DEF InBarrier, Points
<1>4. pc' \in [Threads -> Points \cup {"arrive", "spin"}]
  BY <1>1
<1> QED
  BY <1>1, <1>2, <1>3, <1>4 DEF Point

\* The effect of a step that ends at a barrier
LEMMA BarrierEffect ==
    ASSUME Typed, ThreadInv, NEW t \in Threads, NEW k \in DOMAIN nodes[t],
           NEW point \in Points, Barrier(t, nodes[t][k], point)
    PROVE  /\ at'[t] = CommOf(op, epoch[t], k, t)
           /\ Point(t)' = point
           /\ (InBarrier(t)' <=> SizeOf(op, epoch[t], k) # 1)
           /\ pc'[t] # "spin" /\ pc'[t] \in {point, "arrive"}
           /\ pc' \in [Threads -> Points \cup {"arrive", "spin"}]
           /\ ret' \in [Threads -> Points]
           /\ at' \in [Threads -> Nat \X Nat \X Nat]
           /\ \A u \in Threads \ {t} : pc'[u] = pc[u] /\ ret'[u] = ret[u] /\ at'[u] = at[u]
<1> DEFINE c == CommOf(op, epoch[t], k, t)
           n == SizeOf(op, epoch[t], k)
           x == nodes[t][k]
<1>1. /\ op \in Operations /\ epoch[t] \in 1 .. Len(op.trees) /\ k \in NodesOf(op, epoch[t])
      /\ x = NodeOf(op, epoch[t], k, t)
  BY Here
<1>2. x.comm = c /\ x.num_threads = n
  BY <1>1 DEF NodeOf, Node
<1>3. c \in Nat \X Nat \X Nat
  BY <1>1, CommFacts
<1>4. /\ pc \in [Threads -> Points \cup {"arrive", "spin"}]
      /\ ret \in [Threads -> Points] /\ at \in [Threads -> Nat \X Nat \X Nat]
  BY DEF Typed
<1>5. /\ at' = [at EXCEPT ![t] = x.comm] /\ ret' = [ret EXCEPT ![t] = point]
      /\ pc' = [pc EXCEPT ![t] = IF x.num_threads = 1 THEN point ELSE "arrive"]
  BY DEF Barrier
<1> HIDE DEF c, n, x
<1>6. /\ at'[t] = c /\ ret'[t] = point /\ pc'[t] = IF n = 1 THEN point ELSE "arrive"
      /\ \A u \in Threads \ {t} : pc'[u] = pc[u] /\ ret'[u] = ret[u] /\ at'[u] = at[u]
  BY <1>2, <1>4, <1>5
<1>7. /\ pc' \in [Threads -> Points \cup {"arrive", "spin"}]
      /\ ret' \in [Threads -> Points]
      /\ at' \in [Threads -> Nat \X Nat \X Nat]
  BY <1>2, <1>3, <1>4, <1>5
<1>8. InBarrier(t)' <=> n # 1
  BY <1>6 DEF InBarrier, Points
<1>9. Point(t)' = point
  BY <1>6, <1>8 DEF Point
<1>10. pc'[t] # "spin" /\ pc'[t] \in {point, "arrive"}
  BY <1>6 DEF Points
<1> QED
  BY <1>6, <1>7, <1>8, <1>9, <1>10 DEF c, n

\* A barrier that is called is one of the program.
LEMMA BarrierMove ==
    ASSUME Typed, ThreadInv, NEW t \in Threads, NEW k \in DOMAIN nodes[t],
           NEW point \in Points, Barrier(t, nodes[t][k], point),
           NEW q \in Places(op), Place(t)' = q, q[1] = epoch[t], q[2] \in NodesOf(op, q[1]),
           NodeAt(op, q) = k,
           \/ q[3] = 0 /\ q[2] # 1
           \/ q[3] \in 1 .. 3 /\ q[2] + 1 \in NodesOf(op, q[1]) /\ Made(op, q[1], q[2] + 1)
           \/ /\ q[1] = Len(op.trees) /\ q[2] = Len(op.trees[q[1]]) + 1
              /\ q[3] \in 5 .. 5 + Len(op.work)
    PROVE  /\ InBarrier(t)' <=> BarrierAt(op, q)
           /\ at'[t] = CommAt(op, q, t)
<1>1. InBarrier(t)' <=> SizeOf(op, epoch[t], k) # 1
  BY BarrierEffect
<1>2. at'[t] = CommOf(op, epoch[t], k, t)
  BY BarrierEffect
<1>3. BarrierAt(op, q) <=> SizeOf(op, epoch[t], k) # 1
  BY DEF BarrierAt
<1> QED
  BY <1>1, <1>2, <1>3 DEF CommAt

\* From one stage to the next
LEMMA NextStage ==
    ASSUME NEW e \in Nat, NEW n \in Nat, NEW s \in Nat, NEW b \in Nat \X Nat \X Nat
    PROVE  /\ Before(<<e, n, s>>, <<e, n, s + 1>>)
           /\ ~ (Before(<<e, n, s>>, b) /\ Before(b, <<e, n, s + 1>>))
<1>1. b[1] \in Nat /\ b[2] \in Nat /\ b[3] \in Nat
  OBVIOUS
<1> QED
  BY <1>1 DEF Before

\* A step from one place to the next with a barrier between
LEMMA Advances ==
    ASSUME Typed, ThreadInv, NEW t \in Threads, Place(t)' \in Places(op),
           Before(Place(t), Place(t)'),
           \A b \in Places(op) : BarrierAt(op, b) =>
                ~ (Before(Place(t), b) /\ Before(b, Place(t)')),
           BarrierAt(op, Place(t)') => InBarrier(t)'
    PROVE  Advance(t) /\ \A s \in Nat : (Place(t)')[3] # s => Quiet(t, s)
BY DEF Advance, Quiet

\* Steps that leave the counts and the senses alone
LEMMA BarriersKeptAll ==
    ASSUME DOMAIN comms' = DOMAIN comms,
           \A c \in DOMAIN comms :
                comms'[c].arrived = comms[c].arrived /\ comms'[c].sense = comms[c].sense
    PROVE  BarriersKept
BY DEF BarriersKept

LEMMA NothingMoves ==
    ASSUME comms' = comms, Typed, ThreadInv, CommsInv, SyncInv, NEW t \in Threads
    PROVE  SentKept(t) /\ BarriersKept
BY SentKeptAll, BarriersKeptAll
-----------------------------------------------------------------------------

\* Arrive keeps the invariant: see ArriveSync for the barrier.
LEMMA DoArrive ==
    ASSUME IInv, op' = op, NEW t \in Threads, Arrive(t)
    PROVE  IInv'
<1> DEFINE c == at[t]
<1> USE DEF IInv
<1>1. /\ Others(t) /\ InBarrier(t) /\ at' = at /\ ret' = ret /\ c \in DOMAIN comms
      /\ epoch' = epoch /\ nodes' = nodes /\ gone' = gone
      /\ new_comms' = new_comms /\ worked' = worked /\ arrays' = arrays
      /\ DOMAIN comms' = DOMAIN comms
      /\ \A d \in DOMAIN comms : d # c => comms'[d] = comms[d]
      /\ comms'[c].live = comms[c].live /\ comms'[c].n_threads = comms[c].n_threads
      /\ comms'[c].sent_object = comms[c].sent_object
      /\ comms'[c] \in CommType
      /\ Point(t)' = Point(t) /\ Place(t)' = Place(t)
      /\ pc' \in [Threads -> Points \cup {"arrive", "spin"}]
      /\ orig_sense' \in [Threads -> {0, 1}]
  BY ArriveEffect
<1>2. \A d \in DOMAIN comms :
        /\ comms'[d].live = comms[d].live /\ comms'[d].n_threads = comms[d].n_threads
        /\ comms'[d].sent_object = comms[d].sent_object /\ comms'[d] \in CommType
  BY <1>1 DEF Typed
<1>3. Typed'
  BY <1>1, <1>2 DEF Typed
<1>4. SentKept(t)
  BY <1>2, SentKeptAll
<1>5. NodesOk(t) /\ PointOk(t) /\ FreedOk(t) /\ ReceivedOk(t) /\ SentOk(t)
  BY DEF ThreadInv
<1>6. NodesOk(t)' /\ PointOk(t)' /\ FreedOk(t)' /\ ReceivedOk(t)'
  <2>1. NodesOk(t)'
    BY <1>1, <1>5 DEF NodesOk
  <2>2. PointOk(t)'
    BY <1>1, <1>5 DEF PointOk
  <2>3. FreedOk(t)'
    <3>1. pc'[t] # "done"
      BY <1>1, <1>5 DEF PointOk, Point, InBarrier
    <3> QED
      BY <1>1, <1>5, <3>1 DEF FreedOk
  <2>4. ReceivedOk(t)'
    BY <1>1, <1>5 DEF ReceivedOk, ArrayOf
  <2> QED
    BY <2>1, <2>2, <2>3, <2>4
<1>7. SentOk(t)'
  <2>1. Point(t) \in {"receive", "fill", "attach"} =>
            CommOf(op, epoch[t], Par(op, epoch[t], Len(nodes[t]) + 1), t) \in DOMAIN comms
    BY <1>5, ParentOf, TeamComms DEF PointOk
  <2> QED
    BY <1>1, <1>2, <1>5, <2>1 DEF SentOk
<1>8. ThreadInv'
  BY <1>1, <1>4, <1>6, <1>7, ThreadStep
<1>9. Place(t)' \in Places(op) /\ Quiet(t, 1) /\ Quiet(t, 3)
  BY <1>1, Here DEF Quiet
<1>10. CommsInv'
  BY <1>1, <1>2, <1>9, CommsStep DEF Arrive
<1>11. ArraysInv'
  <2>1. ASSUME NEW a \in MadeArrays, a[3] = t PROVE arrays[a].live <=> Kept(a[1], a[2], t)'
    BY <1>1, <2>1 DEF ArraysInv, Kept
  <2> QED
    BY <1>1, <1>9, <2>1, ArraysStep
<1>12. SyncInv'
  BY ArriveSync
<1> QED
  BY <1>3, <1>8, <1>10, <1>11, <1>12

\* Steps that change nothing but the state of their thread
LEMMA ThreadOnly ==
    ASSUME IInv, op' = op, NEW t \in Threads, Others(t), comms' = comms, arrays' = arrays,
           Typed', NodesOk(t)', PointOk(t)', FreedOk(t)', ReceivedOk(t)', SentOk(t)',
           Quiet(t, 1), Quiet(t, 3), pc[t] # "done",
           epoch'[t] = epoch[t], gone'[t] = gone[t],
           \A a \in MadeArrays : a[3] = t => (Kept(a[1], a[2], t)' <=> Kept(a[1], a[2], t)),
           SyncInv'
    PROVE  IInv'
<1> USE DEF IInv
<1>1. SentKept(t)
  BY NothingMoves
<1>2. ThreadInv'
  BY <1>1, ThreadStep
<1>3. CommsInv'
  BY CommsStep
<1>4. ASSUME NEW a \in MadeArrays, a[3] = t
      PROVE  arrays[a].live <=> Kept(a[1], a[2], t)'
  BY <1>4 DEF ArraysInv
<1>5. ArraysInv'
  BY <1>4, ArraysStep
<1> QED
  BY <1>2, <1>3, <1>5

\* What is said of the arrays and nodes of t when t keeps its nodes
LEMMA SameNodes ==
    ASSUME Typed, ThreadInv, CommsInv, SyncInv, op' = op, NEW t \in Threads,
           epoch'[t] = epoch[t], nodes'[t] = nodes[t]
    PROVE  /\ NodesOk(t)'
           /\ (Point(t)' = "drop" <=> Point(t) = "drop") =>
                \A e, i : Kept(e, i, t)' <=> Kept(e, i, t)
           /\ Point(t)' \notin {"receive", "fill", "attach"} => SentOk(t)'
           /\ Point(t) \in {"receive", "fill", "attach"} /\ comms' = comms => SentOk(t)'
<1>1. NodesOk(t) /\ SentOk(t)
  BY DEF ThreadInv
<1>2. NodesOk(t)'
  BY <1>1 DEF NodesOk
<1>3. (Point(t)' = "drop" <=> Point(t) = "drop") => \A e, i : Kept(e, i, t)' <=> Kept(e, i, t)
  BY DEF Kept
<1>4. Point(t)' \notin {"receive", "fill", "attach"} => SentOk(t)'
  BY DEF SentOk
<1>5. Point(t) \in {"receive", "fill", "attach"} /\ comms' = comms => SentOk(t)'
  BY <1>1 DEF SentOk
<1> QED
  BY <1>2, <1>3, <1>4, <1>5

\* SpinExit keeps the invariant.
LEMMA DoSpinExit ==
    ASSUME IInv, op' = op, NEW t \in Threads, SpinExit(t)
    PROVE  IInv'
<1> USE DEF IInv
<1>1. /\ pc[t] = "spin" /\ ~ Waits(t) /\ InBarrier(t) /\ pc' = [pc EXCEPT ![t] = ret[t]]
      /\ comms' = comms /\ arrays' = arrays /\ at' = at /\ ret' = ret
      /\ orig_sense' = orig_sense /\ epoch' = epoch /\ nodes' = nodes /\ gone' = gone
      /\ new_comms' = new_comms /\ worked' = worked
  BY DEF SpinExit, Goto, shared, treeVars, Waits, InBarrier
<1>2. ret[t] \in Points /\ pc \in [Threads -> Points \cup {"arrive", "spin"}]
  BY DEF Typed
<1>3. /\ pc'[t] = ret[t] /\ pc' \in [Threads -> Points \cup {"arrive", "spin"}]
      /\ \A u \in Threads \ {t} : pc'[u] = pc[u]
  BY <1>1, <1>2
<1>4. pc'[t] \notin {"arrive", "spin"}
  BY <1>2, <1>3 DEF Points
<1>5. Others(t)
  BY <1>1, <1>3 DEF Others
<1>6. Typed'
  BY <1>1, <1>3 DEF Typed
<1>7. ~ InBarrier(t)' /\ Point(t)' = Point(t) /\ Place(t)' = Place(t)
  BY <1>1, <1>3, <1>4 DEF InBarrier, Point, Place
<1>8. NodesOk(t) /\ PointOk(t) /\ FreedOk(t) /\ ReceivedOk(t) /\ SentOk(t)
  BY DEF ThreadInv
<1>9. Point(t) # "done"
  BY <1>1, <1>8 DEF PointOk
<1>10. NodesOk(t)' /\ \A e, i : Kept(e, i, t)' <=> Kept(e, i, t)
  BY <1>1, <1>7, SameNodes
<1>11. PointOk(t)'
  BY <1>1, <1>7, <1>8 DEF PointOk
<1>12. FreedOk(t)'
  BY <1>1, <1>7, <1>8, <1>9 DEF FreedOk, Point
<1>13. ReceivedOk(t)'
  BY <1>1, <1>7, <1>8 DEF ReceivedOk, ArrayOf
<1>14. SentOk(t)'
  BY <1>1, <1>7, <1>8 DEF SentOk
<1>15. Quiet(t, 1) /\ Quiet(t, 3)
  BY <1>7, Here DEF Quiet
<1>16. SyncInv'
  BY <1>1, <1>4, <1>5, <1>7, ExitSync
<1>17. pc[t] # "done" /\ epoch'[t] = epoch[t] /\ gone'[t] = gone[t]
  BY <1>1
<1> HIDE DEF IInv
<1> QED
  BY <1>1, <1>5, <1>6, <1>10, <1>11, <1>12, <1>13, <1>14, <1>15, <1>16, <1>17, ThreadOnly

\* TreeReady keeps the invariant.
LEMMA DoTreeReady ==
    ASSUME IInv, op' = op, NEW t \in Threads, TreeReady(t)
    PROVE  IInv'
<1> USE DEF IInv
<1> DEFINE e == epoch[t]
           n == Len(nodes[t])
<1>1. /\ pc[t] = "grow" /\ n = Len(op.trees[e]) + 1
      /\ comms' = comms /\ arrays' = arrays /\ orig_sense' = orig_sense
      /\ epoch' = epoch /\ nodes' = nodes /\ gone' = gone
      /\ new_comms' = new_comms /\ worked' = worked
      /\ ~ InBarrier(t) /\ Point(t) = "grow"
  BY DEF TreeReady, TreeDone, shared, treeVars, InBarrier, Point
<1>2. PICK point \in {"update", "work"} :
        /\ Goto(t, point)
        /\ point = "update" => e < Len(op.trees)
        /\ point = "work" => ~ (e < Len(op.trees))
  BY DEF TreeReady
<1>3. /\ pc'[t] = point /\ ~ InBarrier(t)' /\ Point(t)' = point
      /\ pc' \in [Threads -> Points \cup {"arrive", "spin"}] /\ at' = at /\ ret' = ret
      /\ \A u \in Threads \ {t} : pc'[u] = pc[u]
  BY <1>2, GotoEffect DEF Points
<1>4. Others(t)
  BY <1>1, <1>3 DEF Others
<1>5. Typed'
  BY <1>1, <1>3 DEF Typed
<1>6. NodesOk(t) /\ PointOk(t) /\ FreedOk(t)
  BY DEF ThreadInv
<1>7. /\ e \in 1 .. Len(op.trees) /\ Len(op.trees) \in Nat /\ n \in Nat \ {0} /\ Len(op.work) \in Nat
      /\ op \in Operations /\ worked[t] = 0 /\ e \in Nat
  BY <1>1, <1>6, Here, TreeFacts DEF PointOk
<1>8. Place(t) = <<e, n, 0>> /\ Place(t)' = <<e, n, 4>>
  BY <1>1, <1>2, <1>3, <1>7 DEF Place, StageOf
<1> HIDE DEF e, n
<1>9. Place(t)' \in Places(op)
  BY <1>7, <1>8 DEF Places
<1>10. Before(Place(t), Place(t)')
  BY <1>7, <1>8 DEF Before
<1>11. ASSUME NEW b \in Places(op), BarrierAt(op, b), Before(Place(t), b), Before(b, Place(t)')
       PROVE  FALSE
  <2>1. b[1] \in Nat /\ b[2] \in Nat /\ b[3] \in Nat
    BY <1>7, PlacesAreTriples
  <2>2. b[1] = e /\ b[2] = n /\ b[3] \in 1 .. 3
    BY <1>7, <1>8, <1>11, <2>1 DEF Before
  <2>3. b[2] + 1 \in NodesOf(op, b[1])
    BY <1>11, <2>2 DEF BarrierAt
  <2> QED
    BY <1>1, <1>7, <2>2, <2>3 DEF NodesOf, e
<1>12. ~ BarrierAt(op, Place(t)')
  BY <1>7, <1>8 DEF BarrierAt
<1>13. Advance(t) /\ Quiet(t, 1) /\ Quiet(t, 3)
  <2>1. (Place(t)')[3] = 4
    BY <1>8
  <2> QED
    BY <1>9, <1>10, <1>11, <1>12, <2>1, Advances
<1>14. SyncInv'
  BY <1>1, <1>3, <1>4, <1>9, <1>13, NothingMoves, MoveSync DEF InBarrier
<1>15. NodesOk(t)' /\ SentOk(t)' /\ \A d, i : Kept(d, i, t)' <=> Kept(d, i, t)
  BY <1>1, <1>2, <1>3, SameNodes
<1>16. PointOk(t)'
  BY <1>1, <1>2, <1>3, <1>7 DEF PointOk, e, n
<1>17. FreedOk(t)'
  BY <1>1, <1>2, <1>3, <1>6 DEF FreedOk
<1>18. ReceivedOk(t)'
  BY <1>2, <1>3 DEF ReceivedOk
<1>19. pc[t] # "done" /\ epoch'[t] = epoch[t] /\ gone'[t] = gone[t]
  BY <1>1
<1> HIDE DEF IInv
<1> QED
  BY <1>1, <1>4, <1>5, <1>13, <1>14, <1>15, <1>16, <1>17, <1>18, <1>19, ThreadOnly

\* A synchronisation of the work, or the closing barrier, keeps the invariant.
LEMMA Synchronise ==
    ASSUME IInv, op' = op, NEW t \in Threads, pc[t] = "work", NEW k \in DOMAIN nodes[t],
           NEW point \in {"work", "free"}, Barrier(t, nodes[t][k], point),
           UNCHANGED <<shared, orig_sense, treeVars>>,
           worked' \in [Threads -> Nat], worked'[t] <= Len(op.work),
           \A u \in Threads \ {t} : worked'[u] = worked[u],
           StageOf(op, point, worked'[t]) = 5 + worked[t],
           k = IF worked[t] < Len(op.work) THEN op.work[worked[t] + 1] ELSE 1
    PROVE  IInv'
<1> USE DEF IInv
<1> DEFINE e == epoch[t]
           n == Len(nodes[t])
           w == worked[t]
           q == <<e, n, 5 + w>>
<1>1. /\ comms' = comms /\ arrays' = arrays /\ orig_sense' = orig_sense
      /\ epoch' = epoch /\ nodes' = nodes /\ gone' = gone /\ new_comms' = new_comms
      /\ ~ InBarrier(t) /\ Point(t) = "work"
  BY DEF shared, treeVars, InBarrier, Point
<1>2. point \in Points
  BY DEF Points
<1>3. /\ Point(t)' = point /\ pc'[t] # "spin" /\ pc'[t] \in {point, "arrive"}
      /\ pc' \in [Threads -> Points \cup {"arrive", "spin"}]
      /\ ret' \in [Threads -> Points] /\ at' \in [Threads -> Nat \X Nat \X Nat]
      /\ \A u \in Threads \ {t} : pc'[u] = pc[u] /\ ret'[u] = ret[u] /\ at'[u] = at[u]
  BY <1>2, BarrierEffect
<1>4. Others(t)
  BY <1>1, <1>3 DEF Others
<1>5. Typed'
  BY <1>1, <1>3 DEF Typed
<1>6. NodesOk(t) /\ PointOk(t) /\ FreedOk(t)
  BY DEF ThreadInv
<1>7. /\ e \in 1 .. Len(op.trees) /\ Len(op.trees) \in Nat /\ n \in Nat \ {0} /\ Len(op.work) \in Nat
      /\ op \in Operations /\ e \in Nat /\ w \in Nat /\ w <= Len(op.work)
      /\ n = Len(op.trees[e]) + 1 /\ e = Len(op.trees) /\ n \in NodesOf(op, e)
  BY <1>1, <1>6, Here, TreeFacts DEF PointOk, Typed
<1>8. Place(t) = <<e, n, 4 + w>> /\ Place(t)' = q
  BY <1>1, <1>3, <1>7 DEF Place, StageOf
<1> HIDE DEF e, n, w
<1>9. q \in Places(op)
  BY <1>7 DEF Places
<1>10. NodeAt(op, q) = k
  <2>1. q[3] = 5 + w /\ q[3] - 4 = w + 1
    BY <1>7
  <2>2. k = IF w < Len(op.work) THEN op.work[w + 1] ELSE 1
    BY DEF w
  <2> HIDE DEF q
  <2> QED
    BY <1>7, <2>1, <2>2 DEF NodeAt
<1>11. /\ InBarrier(t)' <=> BarrierAt(op, Place(t)')
       /\ at'[t] = CommAt(op, Place(t)', t)
  <2>1. /\ q[1] = epoch[t] /\ q[2] \in NodesOf(op, q[1]) /\ q[1] = Len(op.trees)
        /\ q[2] = Len(op.trees[q[1]]) + 1 /\ q[3] \in 5 .. 5 + Len(op.work)
    BY <1>7 DEF e
  <2> HIDE DEF q
  <2> QED
    BY <1>2, <1>8, <1>9, <1>10, <2>1, BarrierMove
<1>12. Advance(t) /\ Quiet(t, 1) /\ Quiet(t, 3)
  <2>1. Before(Place(t), Place(t)')
    BY <1>7, <1>8 DEF Before
  <2>2. ASSUME NEW b \in Places(op), Before(Place(t), b), Before(b, Place(t)') PROVE FALSE
    <3>1. b \in Nat \X Nat \X Nat
      BY <1>7, PlacesAreTriples
    <3>2. PICK s \in Nat : s = 4 + w /\ s + 1 = 5 + w
      BY <1>7
    <3>3. ~ (Before(<<e, n, s>>, b) /\ Before(b, <<e, n, s + 1>>))
      BY <1>7, <3>1, NextStage
    <3> QED
      BY <1>8, <2>2, <3>2, <3>3
  <2>3. (Place(t)')[3] # 1 /\ (Place(t)')[3] # 3
    BY <1>7, <1>8
  <2> QED
    BY <1>8, <1>9, <1>11, <2>1, <2>2, <2>3, Advances
<1>13. SyncInv'
  BY <1>1, <1>3, <1>4, <1>8, <1>9, <1>12, NothingMoves, MoveSync
<1>14. NodesOk(t)' /\ SentOk(t)' /\ \A d, i : Kept(d, i, t)' <=> Kept(d, i, t)
  BY <1>1, <1>3, SameNodes
<1>15. PointOk(t)'
  BY <1>1, <1>3, <1>7, <1>11 DEF PointOk, e, n
<1>16. FreedOk(t)'
  <2>1. gone[t] = {} /\ gone[t] \subseteq ChiefOf(op, epoch[t], t)
    BY <1>1, <1>6 DEF FreedOk
  <2> QED
    BY <1>1, <1>3, <2>1 DEF FreedOk
<1>17. ReceivedOk(t)'
  BY <1>3 DEF ReceivedOk
<1>18. pc[t] # "done" /\ epoch'[t] = epoch[t] /\ gone'[t] = gone[t]
  BY <1>1
<1> HIDE DEF IInv
<1> QED
  BY <1>1, <1>4, <1>5, <1>12, <1>13, <1>14, <1>15, <1>16, <1>17, <1>18, ThreadOnly

LEMMA DoDoWork ==
    ASSUME IInv, op' = op, NEW t \in Threads, DoWork(t)
    PROVE  IInv'
<1>1. /\ pc[t] = "work" /\ worked[t] < Len(op.work) /\ worked[t] \in Nat
      /\ worked' = [worked EXCEPT ![t] = @ + 1] /\ worked \in [Threads -> Nat]
      /\ Barrier(t, nodes[t][op.work[worked[t] + 1]], "work")
      /\ UNCHANGED <<shared, orig_sense, treeVars>>
  BY DEF DoWork, IInv, Typed
<1>2. /\ worked'[t] = worked[t] + 1 /\ worked' \in [Threads -> Nat]
      /\ \A u \in Threads \ {t} : worked'[u] = worked[u]
  BY <1>1
<1>3. /\ op \in Operations /\ DOMAIN nodes[t] = 1 .. Len(nodes[t])
      /\ epoch[t] \in 1 .. Len(op.trees)
  BY Here DEF IInv
<1>4. Len(nodes[t]) = Len(op.trees[epoch[t]]) + 1 /\ epoch[t] = Len(op.trees)
  BY <1>1 DEF IInv, ThreadInv, PointOk, Point, InBarrier
<1>5. op.work[worked[t] + 1] \in DOMAIN nodes[t] /\ Len(op.work) \in Nat
  <2>1. worked[t] + 1 \in 1 .. Len(op.work)
    BY <1>1, <1>3, TreeFacts
  <2> QED
    BY <1>3, <1>4, <2>1, TreeFacts DEF NodesOf
<1>6. PICK k \in DOMAIN nodes[t] : k = op.work[worked[t] + 1]
  BY <1>5
<1>7. StageOf(op, "work", worked'[t]) = 5 + worked[t] /\ worked'[t] <= Len(op.work)
  BY <1>1, <1>2, <1>5 DEF StageOf
<1>8. "work" \in {"work", "free"} /\ Barrier(t, nodes[t][k], "work")
  BY <1>1, <1>6
<1> QED
  BY <1>1, <1>2, <1>6, <1>7, <1>8, Synchronise

LEMMA DoClose ==
    ASSUME IInv, op' = op, NEW t \in Threads, Close(t)
    PROVE  IInv'
<1>1. /\ pc[t] = "work" /\ worked[t] = Len(op.work) /\ worked[t] \in Nat
      /\ worked' = worked /\ worked \in [Threads -> Nat]
      /\ Barrier(t, nodes[t][1], "free")
      /\ UNCHANGED <<shared, orig_sense, treeVars>>
  BY DEF Close, IInv, Typed
<1>2. 1 \in DOMAIN nodes[t]
  BY Here DEF IInv
<1>3. StageOf(op, "free", worked'[t]) = 5 + worked[t] /\ worked'[t] <= Len(op.work)
      /\ ~ (worked[t] < Len(op.work))
  BY <1>1 DEF StageOf
<1>4. "free" \in {"work", "free"}
  OBVIOUS
<1> QED
  BY <1>1, <1>2, <1>3, <1>4, Synchronise

-----------------------------------------------------------------------------
(***************************************************************************)
(* Freeing a tree                                                          *)
(***************************************************************************)

\* The root of every tree
LEMMA RootNode ==
    ASSUME NEW o \in Operations, NEW e \in 1 .. Len(o.trees), NEW t \in Threads
    PROVE  /\ NodeOf(o, e, 1, t) = Node(GL_COMM, NT, t, 1, 0, FALSE)
           /\ 1 \in NodesOf(o, e)
<1>1. 1 \in NodesOf(o, e)
  BY TreeFacts DEF NodesOf
<1>2. SizeOf(o, e, 1) = NT /\ Origin(o, e, 1) = 1
  BY <1>1, SizeRecursion, OriginRecursion
<1>3. t % NT = t
  BY AllThreads
<1> QED
  BY <1>1, <1>2, <1>3 DEF NodeOf, CommOf, Made

\* The fields of a node
LEMMA NodeFields ==
    \A comm, n, id, way, work, free :
        LET x == Node(comm, n, id, way, work, free)
        IN  /\ x.comm = comm /\ x.num_threads = n /\ x.thread_id = id /\ x.n_way = way
            /\ x.work_id = work /\ x.free_comm = free
BY DEF Node

\* The communicators that t owns have been made by t, and are there.
LEMMA OwnComm ==
    ASSUME IInv, NEW t \in Threads
    PROVE  /\ Owned(t) = (ChiefOf(op, epoch[t], t) \cap DOMAIN nodes[t]) \ gone[t]
           /\ \A i \in Owned(t) :
                /\ nodes[t][i].comm = <<epoch[t], i, t>>
                /\ <<epoch[t], i, t>> \in MadeComms
                /\ <<epoch[t], i, t>> \in DOMAIN comms
                /\ comms[<<epoch[t], i, t>>].live
<1> DEFINE e == epoch[t]
           n == Len(nodes[t])
<1>1. /\ op \in Operations /\ e \in 1 .. Len(op.trees) /\ n \in Nat
      /\ DOMAIN nodes[t] = 1 .. n /\ DOMAIN nodes[t] \subseteq NodesOf(op, e)
      /\ \A i \in DOMAIN nodes[t] : nodes[t][i] = NodeOf(op, e, i, t)
      /\ Place(t) \in Places(op) /\ Place(t)[1] = e /\ Place(t)[2] = n
      /\ e \in Nat
  BY Here, TreeFacts DEF IInv
<1>2. ASSUME NEW i \in DOMAIN nodes[t]
      PROVE  /\ nodes[t][i].comm = CommOf(op, e, i, t)
             /\ nodes[t][i].free_comm = Made(op, e, i)
             /\ nodes[t][i].thread_id = t % SizeOf(op, e, i)
  <2>1. nodes[t][i] = NodeOf(op, e, i, t)
    BY <1>1
  <2> QED
    BY <2>1, NodeFields DEF NodeOf
<1>3. Owned(t) = (ChiefOf(op, e, t) \cap DOMAIN nodes[t]) \ gone[t]
  BY <1>1, <1>2 DEF Owned, ChiefOf
<1> HIDE DEF e, n
<1>4. ASSUME NEW i \in Owned(t)
      PROVE  /\ nodes[t][i].comm = <<e, i, t>>
             /\ <<e, i, t>> \in MadeComms /\ <<e, i, t>> \in DOMAIN comms
             /\ comms[<<e, i, t>>].live
  <2>1. /\ i \in 1 .. n /\ i \in NodesOf(op, e) /\ Made(op, e, i) /\ i \in ChiefOf(op, e, t)
        /\ t % SizeOf(op, e, i) = 0 /\ i \notin gone[t] /\ i \in DOMAIN nodes[t] /\ i \in Nat
    BY <1>1, <1>3 DEF ChiefOf
  <2>2. Origin(op, e, i) = i /\ i # 1 /\ SizeOf(op, e, i) # 1
    BY <1>1, <2>1, OriginFacts DEF Made
  <2>3. Base(t, SizeOf(op, e, i)) = t
    BY <2>1 DEF Base, Threads
  <2>4. CommOf(op, e, i, t) = <<e, i, t>>
    BY <2>2, <2>3 DEF CommOf
  <2>5. ~ Before(Place(t), <<e, i - 1, 3>>)
    BY <1>1, <2>1 DEF Before
  <2>6. <<e, i, t>> \in MadeComms
    BY <1>1, <2>1, <2>5 DEF MadeComms, Filled
  <2>7. comms[<<e, i, t>>].live
    BY <2>1, <2>6 DEF IInv, CommsInv, e
  <2>8. <<e, i, t>> \in DOMAIN comms
    BY <2>6 DEF IInv, CommsInv
  <2> QED
    BY <1>2, <2>1, <2>4, <2>6, <2>7, <2>8
<1> QED
  BY <1>3, <1>4 DEF e

\* A bounded set of natural numbers has a greatest element.
LEMMA GreatestElement ==
    ASSUME NEW T \in SUBSET Nat, T # {}, NEW m \in Nat, \A y \in T : y <= m
    PROVE  \E x \in T : \A y \in T : y <= x
<1> DEFINE U == {x \in Nat : \A y \in T : y <= x}
<1>1. U \in SUBSET Nat /\ m \in U
  OBVIOUS
<1>2. PICK x \in U : \A y \in U : x <= y
  <2> HIDE DEF U
  <2> QED
    BY <1>1, LeastElement
<1>3. x \in T
  <2> SUFFICES ASSUME x \notin T PROVE FALSE
    OBVIOUS
  <2>1. \A y \in T : y < x /\ y \in Nat
    BY <1>2
  <2>2. PICK z \in T : z < x /\ z \in Nat
    BY <2>1
  <2>3. x - 1 \in Nat /\ \A y \in T : y <= x - 1
    BY <1>2, <2>1, <2>2
  <2>4. x - 1 \in U
    BY <2>3
  <2> QED
    BY <1>2, <2>2, <2>4
<1> QED
  BY <1>2, <1>3

\* bli_thrinfo_free finds a node to go on with.
LEMMA NextIsOwned ==
    ASSUME IInv, NEW t \in Threads, Owned(t) # {}
    PROVE  NextFreed(t) \in Owned(t)
<1> DEFINE tree == op.trees[epoch[t]]
           S == Owned(t)
           lowest == {i \in S : \A j \in S \ {i} : ~ Below(tree, i, j)}
<1>1. /\ op \in Operations /\ epoch[t] \in 1 .. Len(op.trees)
      /\ S \subseteq NodesOf(op, epoch[t]) /\ S \subseteq 1 .. Len(nodes[t])
      /\ Len(nodes[t]) \in Nat
  BY Here, OwnComm DEF IInv
<1>2. PICK x \in S : \A y \in S : y <= x
  <2>1. S \in SUBSET Nat /\ \A y \in S : y <= Len(nodes[t])
    BY <1>1
  <2> HIDE DEF S
  <2> QED
    BY <1>1, <2>1, GreatestElement DEF S
<1>3. x \in lowest
  <2> SUFFICES ASSUME NEW j \in S \ {x}, Below(tree, x, j) PROVE FALSE
    OBVIOUS
  <2>1. x <= j
    BY <1>1, BelowIsLater
  <2> QED
    BY <1>1, <1>2, <2>1
<1>4. \E i \in lowest : \A j \in lowest : i <= j
  <2>1. lowest \in SUBSET Nat /\ lowest # {}
    BY <1>1, <1>3
  <2> HIDE DEF lowest
  <2> QED
    BY <2>1, LeastElement
<1>5. NextFreed(t) = CHOOSE i \in lowest : \A j \in lowest : i <= j
  BY DEF NextFreed
<1> QED
  BY <1>4, <1>5

\* Finish keeps the invariant: the thread has freed all it is the chief of.
LEMMA DoFinish ==
    ASSUME IInv, op' = op, NEW t \in Threads, Finish(t)
    PROVE  IInv'
<1> USE DEF IInv
<1>1. /\ pc[t] = "free" /\ Owned(t) = {} /\ Goto(t, "done")
      /\ comms' = comms /\ arrays' = arrays /\ orig_sense' = orig_sense
      /\ epoch' = epoch /\ nodes' = nodes /\ gone' = gone
      /\ new_comms' = new_comms /\ worked' = worked
      /\ ~ InBarrier(t) /\ Point(t) = "free"
  BY DEF Finish, shared, treeVars, InBarrier, Point
<1>2. /\ pc'[t] = "done" /\ ~ InBarrier(t)' /\ Point(t)' = "done"
      /\ pc' \in [Threads -> Points \cup {"arrive", "spin"}] /\ at' = at /\ ret' = ret
      /\ \A u \in Threads \ {t} : pc'[u] = pc[u]
  BY <1>1, GotoEffect DEF Points
<1>3. Others(t)
  BY <1>1, <1>2 DEF Others
<1>4. Typed'
  BY <1>1, <1>2 DEF Typed
<1>5. PointOk(t) /\ FreedOk(t)
  BY DEF ThreadInv
<1>6. Place(t)' = Place(t)
  BY <1>1, <1>2 DEF Place, StageOf
<1>7. Place(t) \in Places(op)
  BY Here
<1>8. Advance(t) /\ Quiet(t, 1) /\ Quiet(t, 3)
  BY <1>2, <1>6, <1>7 DEF Advance, Quiet
<1>9. SyncInv'
  BY <1>1, <1>2, <1>3, <1>6, <1>7, <1>8, NothingMoves, MoveSync
<1>10. NodesOk(t)' /\ SentOk(t)' /\ \A d, i : Kept(d, i, t)' <=> Kept(d, i, t)
  BY <1>1, <1>2, SameNodes
<1>11. PointOk(t)'
  BY <1>1, <1>2, <1>5 DEF PointOk
<1>12. FreedOk(t)'
  <2>1. gone[t] = ChiefOf(op, epoch[t], t)
    <3>1. DOMAIN nodes[t] = 1 .. Len(nodes[t])
      BY Here
    <3>2. DOMAIN nodes[t] = NodesOf(op, epoch[t])
      BY <1>1, <1>5, <3>1 DEF PointOk, NodesOf
    <3> QED
      BY <1>1, <1>5, <3>2, OwnComm DEF FreedOk, ChiefOf
  <2> QED
    BY <1>1, <1>2, <2>1 DEF FreedOk
<1>13. ReceivedOk(t)'
  BY <1>2 DEF ReceivedOk
<1>14. pc[t] # "done" /\ epoch'[t] = epoch[t] /\ gone'[t] = gone[t]
  BY <1>1
<1> HIDE DEF IInv
<1> QED
  BY <1>1, <1>3, <1>4, <1>8, <1>9, <1>10, <1>11, <1>12, <1>13, <1>14, ThreadOnly

\* FreeComm keeps the invariant: the communicator is made, and not freed yet.
LEMMA DoFreeComm ==
    ASSUME IInv, op' = op, NEW t \in Threads, FreeComm(t)
    PROVE  IInv'
<1> USE DEF IInv
<1> DEFINE e == epoch[t]
           k == NextFreed(t)
           c == <<e, k, t>>
<1>1. /\ pc[t] \in {"update", "free"} /\ Owned(t) # {}
      /\ gone' = [gone EXCEPT ![t] = @ \cup {k}]
      /\ arrays' = arrays /\ pc' = pc /\ ret' = ret /\ at' = at /\ orig_sense' = orig_sense
      /\ epoch' = epoch /\ nodes' = nodes /\ new_comms' = new_comms /\ worked' = worked
      /\ ~ InBarrier(t) /\ Point(t) = pc[t]
      /\ comms' = [comms EXCEPT ![nodes[t][k].comm].live = FALSE]
  BY DEF FreeComm, InBarrier, Point
<1>2. k \in Owned(t)
  BY <1>1, NextIsOwned
<1>3. nodes[t][k].comm = c /\ c \in MadeComms /\ c \in DOMAIN comms
  BY <1>2, OwnComm
<1>4. k \in ChiefOf(op, e, t) /\ k \notin gone[t]
  BY <1>2, OwnComm
<1> HIDE DEF k
<1>5. /\ DOMAIN comms' = DOMAIN comms
      /\ \A d \in DOMAIN comms : d # c => comms'[d] = comms[d]
      /\ comms'[c] = [comms[c] EXCEPT !.live = FALSE]
  BY <1>1, <1>3
<1>6. comms[c] \in CommType
  BY <1>3 DEF Typed
<1>7. /\ comms'[c] \in CommType /\ comms'[c].live = FALSE
      /\ comms'[c].n_threads = comms[c].n_threads /\ comms'[c].arrived = comms[c].arrived
      /\ comms'[c].sense = comms[c].sense /\ comms'[c].sent_object = comms[c].sent_object
  BY <1>5, <1>6 DEF CommType
<1>8. \A d \in DOMAIN comms :
        /\ comms'[d] \in CommType /\ comms'[d].sent_object = comms[d].sent_object
        /\ comms'[d].n_threads = comms[d].n_threads /\ comms'[d].arrived = comms[d].arrived
        /\ comms'[d].sense = comms[d].sense
  BY <1>5, <1>7 DEF Typed
<1>9. /\ DOMAIN gone' = Threads /\ gone'[t] = gone[t] \cup {k}
      /\ \A u \in Threads \ {t} : gone'[u] = gone[u]
  BY <1>1 DEF Typed
<1>10. Typed'
  BY <1>1, <1>5, <1>8, <1>9 DEF Typed
<1>11. Others(t)
  BY <1>1, <1>9 DEF Others
<1>12. Point(t)' = Point(t) /\ ~ InBarrier(t)' /\ Place(t)' = Place(t)
  BY <1>1 DEF InBarrier, Point, Place
<1>13. Place(t) \in Places(op)
  BY Here
<1>14. Advance(t) /\ Quiet(t, 1) /\ Quiet(t, 3)
  BY <1>12, <1>13 DEF Advance, Quiet
<1>15. BarriersKept /\ SentKept(t)
  BY <1>5, <1>8, BarriersKeptAll, SentKeptAll
<1>16. SyncInv'
  BY <1>1, <1>11, <1>12, <1>13, <1>14, <1>15, MoveSync
<1>17. PointOk(t) /\ FreedOk(t)
  BY DEF ThreadInv
<1>18. NodesOk(t)' /\ SentOk(t)' /\ \A d, i : Kept(d, i, t)' <=> Kept(d, i, t)
  BY <1>1, <1>12, SameNodes
<1>19. PointOk(t)'
  BY <1>1, <1>12, <1>17 DEF PointOk
<1>20. FreedOk(t)'
  <2>1. gone'[t] \subseteq ChiefOf(op, epoch[t], t)
    BY <1>4, <1>9, <1>17 DEF FreedOk
  <2> QED
    BY <1>1, <1>12, <2>1 DEF FreedOk
<1>21. ReceivedOk(t)'
  BY <1>1, <1>12 DEF ReceivedOk
<1>22. ThreadInv'
  BY <1>11, <1>15, <1>18, <1>19, <1>20, <1>21, ThreadStep
<1>23. ArraysInv'
  <2>1. ASSUME NEW a \in MadeArrays, a[3] = t PROVE arrays[a].live <=> Kept(a[1], a[2], t)'
    BY <1>18, <2>1 DEF ArraysInv
  <2> QED
    BY <1>1, <1>11, <1>14, <2>1, ArraysStep
<1>24. CommsInv'
  <2>1. MadeComms' = MadeComms
    BY <1>11, <1>14, MadeCommsSame
  <2>2. /\ GL_COMM \in DOMAIN comms /\ SINGLE_COMM \in DOMAIN comms
        /\ c # GL_COMM /\ c # SINGLE_COMM /\ comms[GL_COMM].live
    <3>1. e # 0
      BY Here
    <3>2. comms[GL_COMM].live
      BY <1>1 DEF CommsInv
    <3> QED
      BY <3>1, <3>2 DEF CommsInv, GL_COMM, SINGLE_COMM
  <2>3. ASSUME NEW d \in MadeComms
        PROVE  /\ comms'[d].n_threads = SizeOf(op', d[1], d[2])
               /\ comms'[d].live <=> epoch'[d[3]] = d[1] /\ d[2] \notin gone'[d[3]]
    <3>1. d \in DOMAIN comms /\ d[3] \in Threads /\ d = <<d[1], d[2], d[3]>>
      BY DEF CommsInv, MadeComms
    <3>2. /\ comms[d].n_threads = SizeOf(op, d[1], d[2])
          /\ comms[d].live <=> epoch[d[3]] = d[1] /\ d[2] \notin gone[d[3]]
      BY DEF CommsInv
    <3>3. comms'[d].n_threads = SizeOf(op', d[1], d[2])
      BY <1>8, <3>1, <3>2
    <3>4. CASE d = c
      <4>1. d[2] = k /\ d[3] = t
        BY <3>4
      <4> QED
        BY <1>7, <1>9, <3>3, <3>4, <4>1
    <3>5. CASE d # c
      <4>1. comms'[d] = comms[d]
        BY <1>5, <3>1, <3>5
      <4>2. d[3] = t => d[1] # e \/ d[2] # k
        BY <3>1, <3>5
      <4>3. (epoch'[d[3]] = d[1] /\ d[2] \notin gone'[d[3]])
                <=> (epoch[d[3]] = d[1] /\ d[2] \notin gone[d[3]])
        BY <1>1, <1>9, <3>1, <4>2
      <4> QED
        BY <3>2, <3>3, <4>1, <4>3
    <3> QED
      BY <3>4, <3>5
  <2> QED
    BY <1>5, <2>1, <2>2, <2>3 DEF CommsInv
<1> QED
  BY <1>10, <1>16, <1>22, <1>23, <1>24

\* Regrow keeps the invariant: all of the old tree's communicators are dead.
LEMMA DoRegrow ==
    ASSUME IInv, op' = op, NEW t \in Threads, Regrow(t)
    PROVE  IInv'
<1> USE DEF IInv
<1> DEFINE e == epoch[t]
           n == Len(nodes[t])
<1>1. /\ pc[t] = "update" /\ Owned(t) = {} /\ Goto(t, "grow")
      /\ nodes' = [nodes EXCEPT ![t] = <<nodes[t][1]>>]
      /\ gone' = [gone EXCEPT ![t] = {}] /\ epoch' = [epoch EXCEPT ![t] = e + 1]
      /\ comms' = comms /\ arrays' = arrays /\ orig_sense' = orig_sense
      /\ new_comms' = new_comms /\ worked' = worked
      /\ ~ InBarrier(t) /\ Point(t) = "update"
  BY DEF Regrow, shared, InBarrier, Point
<1>2. /\ pc'[t] = "grow" /\ ~ InBarrier(t)' /\ Point(t)' = "grow"
      /\ pc' \in [Threads -> Points \cup {"arrive", "spin"}] /\ at' = at /\ ret' = ret
      /\ \A u \in Threads \ {t} : pc'[u] = pc[u]
  BY <1>1, GotoEffect DEF Points
<1>3. PointOk(t) /\ FreedOk(t)
  BY DEF ThreadInv
<1>4. /\ op \in Operations /\ e \in 1 .. Len(op.trees) /\ Len(op.trees) \in Nat /\ e \in Nat
      /\ n = Len(op.trees[e]) + 1 /\ e < Len(op.trees) /\ n \in Nat \ {0} /\ worked[t] = 0
      /\ DOMAIN nodes[t] = NodesOf(op, e) /\ 1 \in DOMAIN nodes[t]
      /\ nodes[t][1] = NodeOf(op, e, 1, t)
  <2>1. /\ op \in Operations /\ e \in 1 .. Len(op.trees) /\ n \in Nat \ {0}
        /\ DOMAIN nodes[t] = 1 .. n /\ 1 \in DOMAIN nodes[t]
        /\ nodes[t][1] = NodeOf(op, e, 1, t)
    BY Here
  <2>2. Len(op.trees) \in Nat
    BY <2>1, TreeFacts
  <2> QED
    BY <1>1, <1>3, <2>1, <2>2 DEF PointOk, NodesOf
<1>5. /\ epoch' \in [Threads -> 1 .. Len(op.trees)] /\ epoch'[t] = e + 1
      /\ DOMAIN nodes' = Threads /\ nodes'[t] = <<nodes[t][1]>>
      /\ DOMAIN gone' = Threads /\ gone'[t] = {}
      /\ \A u \in Threads \ {t} :
            epoch'[u] = epoch[u] /\ nodes'[u] = nodes[u] /\ gone'[u] = gone[u]
  <2>1. e + 1 \in 1 .. Len(op.trees)
    BY <1>4
  <2>2. epoch \in [Threads -> 1 .. Len(op.trees)] /\ DOMAIN nodes = Threads /\ DOMAIN gone = Threads
    BY DEF Typed
  <2> QED
    BY <1>1, <2>1, <2>2
<1>6. Typed'
  BY <1>1, <1>2, <1>5 DEF Typed
<1>7. Others(t)
  BY <1>1, <1>2, <1>5 DEF Others
<1>8. Len(nodes'[t]) = 1 /\ nodes'[t] = [i \in 1 .. 1 |-> NodeOf(op, e + 1, i, t)]
  <2>1. e + 1 \in 1 .. Len(op.trees)
    BY <1>4
  <2>2. nodes[t][1] = NodeOf(op, e + 1, 1, t)
    BY <1>4, <2>1, RootNode
  <2> DEFINE x == nodes[t][1]
  <2>3. nodes'[t] = <<x>> /\ x = NodeOf(op, e + 1, 1, t)
    BY <1>5, <2>2
  <2> HIDE DEF x
  <2>4. Len(<<x>>) = 1 /\ <<x>> = [i \in 1 .. 1 |-> x]
    BY SMT
  <2>5. [i \in 1 .. 1 |-> x] = [i \in 1 .. 1 |-> NodeOf(op, e + 1, i, t)]
    BY <2>3
  <2> QED
    BY <2>3, <2>4, <2>5
<1>9. Place(t) = <<e, n, 4>> /\ Place(t)' = <<e + 1, 1, 0>>
  BY <1>1, <1>2, <1>5, <1>8 DEF Place, StageOf
<1> HIDE DEF e, n
<1>10. Place(t)' \in Places(op)
  BY <1>4, <1>9 DEF Places
<1>11. Before(Place(t), Place(t)')
  BY <1>4, <1>9 DEF Before
<1>12. ASSUME NEW b \in Places(op), BarrierAt(op, b), Before(Place(t), b), Before(b, Place(t)')
       PROVE  FALSE
  <2>1. b[1] \in Nat /\ b[2] \in Nat \ {0} /\ b[3] \in Nat
    BY <1>4, PlacesAreTriples
  <2>2. b[1] = e /\ (b[2] > n \/ (b[2] = n /\ b[3] > 4))
    BY <1>4, <1>9, <1>12, <2>1 DEF Before
  <2>3. b[2] \in NodesOf(op, e)
    BY <1>12, <2>2 DEF BarrierAt
  <2>4. b[2] = n /\ b[3] > 4
    BY <1>4, <2>1, <2>2, <2>3 DEF NodesOf
  <2> QED
    BY <1>4, <1>12, <2>1, <2>2, <2>4 DEF BarrierAt
<1>13. ~ BarrierAt(op, Place(t)')
  BY <1>4, <1>9 DEF BarrierAt
<1>14. Advance(t) /\ Quiet(t, 1) /\ Quiet(t, 3)
  <2>1. (Place(t)')[3] = 0
    BY <1>9
  <2> QED
    BY <1>10, <1>11, <1>12, <1>13, <2>1, Advances
<1>15. SentKept(t) /\ BarriersKept
  BY <1>1, NothingMoves
<1>16. SyncInv'
  BY <1>1, <1>2, <1>7, <1>10, <1>14, <1>15, MoveSync
<1>17. NodesOk(t)'
  <2>1. 1 \in NodesOf(op, epoch'[t])
    BY <1>4, <1>5, RootNode
  <2> QED
    BY <1>5, <1>8, <2>1 DEF NodesOk
<1>18. PointOk(t)'
  BY <1>1, <1>2, <1>4 DEF PointOk
<1>19. FreedOk(t)' /\ ReceivedOk(t)' /\ SentOk(t)'
  BY <1>2, <1>5 DEF FreedOk, ReceivedOk, SentOk
<1>20. ThreadInv'
  BY <1>7, <1>15, <1>17, <1>18, <1>19, ThreadStep
\* Nothing of the next tree has been made.
<1>21. ASSUME NEW i \in Nat, i # 0, i # 1, NEW s \in 1 .. 3
       PROVE  Before(Place(t)', <<e + 1, i - 1, s>>)
  BY <1>4, <1>9, <1>21 DEF Before
<1>22. MadeComms' = MadeComms
  BY <1>7, <1>14, MadeCommsSame
<1>23. ASSUME NEW c \in MadeComms, c[3] = t
       PROVE  c[1] # e + 1 /\ ~ comms[c].live
  <2>1. c[2] \in ChiefOf(op, c[1], t)
    BY <1>23 DEF MadeComms
  <2>2. c[1] # e + 1
    <3> SUFFICES ASSUME c[1] = e + 1 PROVE FALSE
      OBVIOUS
    <3>1. c[2] \in Nat /\ c[2] # 0 /\ c[2] # 1
      BY <2>1 DEF ChiefOf, Made, NodesOf
    <3>2. 3 \in 1 .. 3
      OBVIOUS
    <3>3. Before(Place(t)', <<e + 1, c[2] - 1, 3>>)
      BY <1>21, <3>1, <3>2
    <3>4. c \in MadeComms'
      BY <1>22
    <3>5. ~ Before(Place(t)', <<c[1], c[2] - 1, 3>>)
      BY <1>23, <3>4 DEF MadeComms, Filled
    <3> QED
      BY <3>3, <3>5
  <2>3. ~ comms[c].live
    <3>1. comms[c].live => epoch[t] = c[1] /\ c[2] \notin gone[t]
      BY <1>23 DEF CommsInv
    <3>2. ChiefOf(op, e, t) \subseteq gone[t]
      <4>1. Owned(t) = (ChiefOf(op, e, t) \cap NodesOf(op, e)) \ gone[t]
        BY <1>4, OwnComm DEF e
      <4> QED
        BY <1>1, <4>1 DEF ChiefOf
    <3> QED
      BY <2>1, <3>1, <3>2 DEF e
  <2> QED
    BY <2>2, <2>3
<1>24. CommsInv'
  <2>1. ASSUME NEW c \in MadeComms
        PROVE  /\ comms'[c].n_threads = SizeOf(op', c[1], c[2])
               /\ comms'[c].live <=> epoch'[c[3]] = c[1] /\ c[2] \notin gone'[c[3]]
    <3>1. c[3] \in Threads
      BY DEF MadeComms
    <3>2. /\ comms[c].n_threads = SizeOf(op, c[1], c[2])
          /\ comms[c].live <=> epoch[c[3]] = c[1] /\ c[2] \notin gone[c[3]]
      BY DEF CommsInv
    <3>3. CASE c[3] = t
      BY <1>1, <1>5, <1>23, <3>2, <3>3
    <3>4. CASE c[3] # t
      BY <1>1, <1>5, <3>1, <3>2, <3>4
    <3> QED
      BY <3>3, <3>4
  <2>2. comms[GL_COMM].live
    BY <1>1 DEF CommsInv
  <2> QED
    BY <1>1, <1>22, <2>1, <2>2 DEF CommsInv
<1>25. ArraysInv'
  <2>1. MadeArrays' = MadeArrays
    BY <1>7, <1>14, MadeArraysSame
  <2>2. ASSUME NEW a \in MadeArrays, a[3] = t
        PROVE  arrays[a].live <=> Kept(a[1], a[2], t)'
    <3>1. /\ a[2] \in NodesOf(op, a[1]) /\ a[2] \in Nat /\ a[2] # 0 /\ a[2] # 1 /\ a[1] \in Nat
          /\ ~ Before(Place(t)', <<a[1], a[2] - 1, 1>>)
      <4>1. a \in MadeArrays'
        BY <2>1
      <4>2. ~ Before(Place(t)', <<a[1], a[2] - 1, 1>>)
        BY <2>2, <4>1 DEF MadeArrays, Offered
      <4> QED
        BY <4>2 DEF MadeArrays, Made, NodesOf
    <3>2. ~ Kept(a[1], a[2], t)'
      <4>1. a[1] # e + 1
        <5>1. 1 \in 1 .. 3
          OBVIOUS
        <5> QED
          BY <1>21, <3>1, <5>1
      <4> QED
        BY <1>5, <4>1 DEF Kept
    <3>3. ~ Kept(a[1], a[2], t)
      <4> SUFFICES ASSUME a[1] = e, n = a[2] - 1 PROVE FALSE
        BY <1>1 DEF Kept, e, n
      <4> QED
        BY <1>4, <3>1 DEF NodesOf
    <3> QED
      BY <3>2, <3>3, <2>2 DEF ArraysInv
  <2> QED
    BY <1>1, <1>7, <1>14, <2>2, ArraysStep
<1> QED
  BY <1>6, <1>16, <1>20, <1>24, <1>25

-----------------------------------------------------------------------------
(***************************************************************************)
(* Splitting                                                               *)
(***************************************************************************)

\* The team of a thread that splits, and its new team
LEMMA SplitFacts ==
    ASSUME Typed, ThreadInv, NEW t \in Threads, Len(nodes[t]) + 1 \in NodesOf(op, epoch[t])
    PROVE  LET e == epoch[t]
               i == Len(nodes[t]) + 1
               k == Par(op, e, i)
           IN  /\ k \in DOMAIN nodes[t] /\ k \in NodesOf(op, e) /\ Parent(t) = nodes[t][k]
               /\ Split(t).way = Way(op, e, i)
               /\ Parent(t).comm = CommOf(op, e, k, t)
               /\ Parent(t).num_threads = SizeOf(op, e, k)
               /\ Parent(t).thread_id = t % SizeOf(op, e, k)
               /\ ChildSize(t) = SizeOf(op, e, i)
               /\ ChildId(t) = t % SizeOf(op, e, i)
               /\ ChildWork(t) = (t % SizeOf(op, e, k)) \div SizeOf(op, e, i)
               /\ Name(t) = <<e, i, t>>
               /\ Made(op, e, i) <=> Split(t).way \notin {1, Parent(t).num_threads}
<1> DEFINE e == epoch[t]
           n == Len(nodes[t])
           i == n + 1
           k == Par(op, e, i)
<1>1. k \in DOMAIN nodes[t] /\ k \in NodesOf(op, e) /\ i # 1 /\ i - 1 = n
  BY ParentOf
<1>2. /\ op \in Operations /\ e \in 1 .. Len(op.trees)
      /\ nodes[t][k] = NodeOf(op, e, k, t)
  BY <1>1, Here
<1>3. Split(t).par = k /\ Split(t).way = Way(op, e, i)
  BY <1>1 DEF Split, Par, Way
<1>4. Parent(t) = nodes[t][k]
  BY <1>3 DEF Parent
<1>5. /\ Parent(t).comm = CommOf(op, e, k, t) /\ Parent(t).num_threads = SizeOf(op, e, k)
      /\ Parent(t).thread_id = t % SizeOf(op, e, k)
  BY <1>2, <1>4, NodeFields DEF NodeOf
<1>6. Name(t) = <<e, i, t>>
  BY DEF Name
<1> HIDE DEF e, n, k, i
<1>7. i \in NodesOf(op, e)
  BY DEF e, n, i
<1>8. /\ SizeOf(op, e, k) \div Way(op, e, i) = SizeOf(op, e, i)
      /\ SizeOf(op, e, i) = 1 <=> Way(op, e, i) = SizeOf(op, e, k)
      /\ (t % SizeOf(op, e, k)) % SizeOf(op, e, i) = t % SizeOf(op, e, i)
  <2>1. k = Par(op, e, i)
    BY DEF k
  <2>2. SizeOf(op, e, k) \div Way(op, e, i) = SizeOf(op, e, i)
    BY <1>1, <1>2, <1>7, <2>1, ParentTeams
  <2>3. SizeOf(op, e, i) = 1 <=> Way(op, e, i) = SizeOf(op, e, k)
    BY <1>1, <1>2, <1>7, <2>1, ParentTeams
  <2>4. (t % SizeOf(op, e, k)) % SizeOf(op, e, i) = t % SizeOf(op, e, i)
    BY <1>1, <1>2, <1>7, <2>1, ParentTeams
  <2> QED
    BY <2>2, <2>3, <2>4
<1>9. ChildSize(t) = SizeOf(op, e, i)
  BY <1>3, <1>5, <1>8 DEF ChildSize
<1>10. ChildId(t) = t % SizeOf(op, e, i)
  BY <1>5, <1>8, <1>9 DEF ChildId
<1>11. ChildWork(t) = (t % SizeOf(op, e, k)) \div SizeOf(op, e, i)
  BY <1>5, <1>9 DEF ChildWork
<1>12. Made(op, e, i) <=> Split(t).way \notin {1, Parent(t).num_threads}
  BY <1>1, <1>3, <1>5, <1>8 DEF Made
<1> QED
  BY <1>1, <1>3, <1>4, <1>5, <1>6, <1>9, <1>10, <1>11, <1>12 DEF e, n, k, i

\* A sequence given element by element, and one more
LEMMA OneLonger ==
    ASSUME NEW n \in Nat, NEW g, DOMAIN g = 1 .. n + 1, NEW s, s = [j \in 1 .. n |-> g[j]]
    PROVE  /\ Append(s, g[n + 1]) = [j \in 1 .. n + 1 |-> g[j]]
           /\ Len(Append(s, g[n + 1])) = n + 1
<1> DEFINE S == {g[j] : j \in 1 .. n + 1}
           r == Append(s, g[n + 1])
<1>1. s \in Seq(S) /\ g[n + 1] \in S /\ Len(s) = n
  OBVIOUS
<1>2. /\ r \in Seq(S) /\ Len(r) = n + 1 /\ r[n + 1] = g[n + 1]
      /\ \A j \in 1 .. n : r[j] = s[j]
  <2> HIDE DEF S
  <2> QED
    BY <1>1
<1> HIDE DEF r, S
<1>3. DOMAIN r = 1 .. n + 1 /\ r = [j \in DOMAIN r |-> r[j]]
  BY <1>2
<1>4. \A j \in 1 .. n + 1 : r[j] = g[j]
  BY <1>2
<1>5. r = [j \in 1 .. n + 1 |-> g[j]]
  BY <1>3, <1>4
<1> QED
  BY <1>2, <1>5 DEF r

\* The nodes of a thread after a split
LEMMA AttachEffect ==
    ASSUME Typed, ThreadInv, NEW t \in Threads, Len(nodes[t]) + 1 \in NodesOf(op, epoch[t]),
           NEW comm, comm = CommOf(op, epoch[t], Len(nodes[t]) + 1, t),
           NEW free, free = Made(op, epoch[t], Len(nodes[t]) + 1),
           Attach(t, comm, free)
    PROVE  /\ Len(nodes'[t]) = Len(nodes[t]) + 1
           /\ nodes'[t] = [j \in 1 .. Len(nodes[t]) + 1 |-> NodeOf(op, epoch[t], j, t)]
           /\ DOMAIN nodes' = Threads
           /\ \A u \in Threads \ {t} : nodes'[u] = nodes[u]
<1> DEFINE e == epoch[t]
           n == Len(nodes[t])
           g == [j \in 1 .. n + 1 |-> NodeOf(op, e, j, t)]
           x == Node(comm, ChildSize(t), ChildId(t), Split(t).way, ChildWork(t), free)
<1>1. n \in Nat /\ nodes[t] = [j \in 1 .. n |-> NodeOf(op, e, j, t)] /\ n + 1 # 1
  BY Here, ParentOf DEF ThreadInv, NodesOk
<1>2. x = NodeOf(op, e, n + 1, t)
  BY <1>1, SplitFacts DEF NodeOf
<1>3. /\ DOMAIN nodes' = Threads /\ nodes'[t] = Append(nodes[t], x)
      /\ \A u \in Threads \ {t} : nodes'[u] = nodes[u]
  BY DEF Attach, Typed
<1> HIDE DEF x, n, e
<1>4. DOMAIN g = 1 .. n + 1 /\ x = g[n + 1] /\ nodes[t] = [j \in 1 .. n |-> g[j]]
  <2>1. g[n + 1] = NodeOf(op, e, n + 1, t)
    BY <1>1
  <2>2. \A j \in 1 .. n : g[j] = NodeOf(op, e, j, t)
    BY <1>1
  <2> QED
    BY <1>1, <1>2, <2>1, <2>2
<1> HIDE DEF g
<1>5. /\ Append(nodes[t], g[n + 1]) = [j \in 1 .. n + 1 |-> g[j]]
      /\ Len(Append(nodes[t], g[n + 1])) = n + 1
  BY <1>1, <1>4, OneLonger
<1>6. [j \in 1 .. n + 1 |-> g[j]] = [j \in 1 .. n + 1 |-> NodeOf(op, e, j, t)]
  BY DEF g
<1> QED
  BY <1>3, <1>4, <1>5, <1>6 DEF n, e

\* SplitTrivial keeps the invariant: no communicator is made for the node.
LEMMA DoSplitTrivial ==
    ASSUME IInv, op' = op, NEW t \in Threads, SplitTrivial(t)
    PROVE  IInv'
<1> USE DEF IInv
<1> DEFINE e == epoch[t]
           n == Len(nodes[t])
           i == n + 1
           k == Par(op, e, i)
           q == <<e, i, 0>>
<1>1. /\ pc[t] = "grow" /\ n # Len(op.trees[e]) + 1
      /\ Split(t).way \in {1, Parent(t).num_threads}
      /\ Attach(t, IF Split(t).way = 1 THEN Parent(t).comm ELSE SINGLE_COMM, FALSE)
      /\ Barrier(t, Parent(t), "grow")
      /\ comms' = comms /\ arrays' = arrays /\ orig_sense' = orig_sense
      /\ epoch' = epoch /\ gone' = gone /\ new_comms' = new_comms /\ worked' = worked
      /\ ~ InBarrier(t) /\ Point(t) = "grow"
  BY DEF SplitTrivial, TreeDone, shared, InBarrier, Point
<1>2. NodesOk(t) /\ PointOk(t) /\ FreedOk(t)
  BY DEF ThreadInv
<1>3. /\ op \in Operations /\ e \in 1 .. Len(op.trees) /\ e \in Nat /\ n \in Nat \ {0}
      /\ i \in NodesOf(op, e) /\ worked[t] = 0 /\ i # 1 /\ Len(op.work) \in Nat
  <2>1. /\ op \in Operations /\ e \in 1 .. Len(op.trees) /\ n \in Nat \ {0} /\ n \in NodesOf(op, e)
    BY Here
  <2>2. Len(op.trees[e]) \in Nat /\ Len(op.work) \in Nat
    BY <2>1, TreeFacts
  <2> QED
    BY <1>1, <1>2, <2>1, <2>2 DEF NodesOf, PointOk
<1>4. /\ k \in DOMAIN nodes[t] /\ k \in NodesOf(op, e) /\ Parent(t) = nodes[t][k]
      /\ Split(t).way = Way(op, e, i) /\ Parent(t).comm = CommOf(op, e, k, t)
      /\ Parent(t).num_threads = SizeOf(op, e, k)
      /\ ~ Made(op, e, i)
  <2>1. i \in NodesOf(op, epoch[t])
    BY <1>3
  <2> QED
    BY <1>1, <2>1, SplitFacts
<1>5. PICK comm : comm = IF Split(t).way = 1 THEN Parent(t).comm ELSE SINGLE_COMM
  OBVIOUS
<1>6. comm = CommOf(op, e, i, t)
  <2>1. CASE Way(op, e, i) = 1
    <3>1. Origin(op, e, i) = Origin(op, e, k)
      BY <1>3, <2>1, OriginRecursion
    <3>2. SizeOf(op, e, k) = SizeOf(op, e, i)
      <4>1. SizeOf(op, e, i) \in 1 .. NT /\ SizeOf(op, e, k) = SizeOf(op, e, i) * 1
        BY <1>3, <2>1, Sizes
      <4> QED
        BY <4>1
    <3> QED
      BY <1>4, <1>5, <2>1, <3>1, <3>2 DEF CommOf
  <2>2. CASE Way(op, e, i) # 1
    <3>1. Origin(op, e, i) = i
      BY <1>3, <2>2, OriginRecursion
    <3>2. SizeOf(op, e, i) = 1
      BY <1>3, <1>4, <2>2 DEF Made
    <3> QED
      BY <1>3, <1>4, <1>5, <2>2, <3>1, <3>2 DEF CommOf
  <2> QED
    BY <2>1, <2>2
<1>7. /\ Len(nodes'[t]) = i
      /\ nodes'[t] = [j \in 1 .. i |-> NodeOf(op, e, j, t)]
      /\ DOMAIN nodes' = Threads
      /\ \A u \in Threads \ {t} : nodes'[u] = nodes[u]
  <2>1. Made(op, e, i) = FALSE
    BY <1>4 DEF Made
  <2>2. Attach(t, comm, FALSE)
    BY <1>1, <1>5
  <2> QED
    BY <1>3, <1>6, <2>1, <2>2, AttachEffect
<1>8. /\ Point(t)' = "grow" /\ pc'[t] # "spin" /\ pc'[t] \in {"grow", "arrive"}
      /\ pc' \in [Threads -> Points \cup {"arrive", "spin"}]
      /\ ret' \in [Threads -> Points] /\ at' \in [Threads -> Nat \X Nat \X Nat]
      /\ \A u \in Threads \ {t} : pc'[u] = pc[u] /\ ret'[u] = ret[u] /\ at'[u] = at[u]
  <2>1. "grow" \in Points
    BY DEF Points
  <2> QED
    BY <1>1, <1>4, <2>1, BarrierEffect
<1>9. Others(t)
  BY <1>1, <1>7, <1>8 DEF Others
<1>10. Typed'
  BY <1>1, <1>7, <1>8 DEF Typed
<1>11. Place(t) = <<e, n, 0>> /\ Place(t)' = q
  BY <1>1, <1>7, <1>8 DEF Place, StageOf
<1> HIDE DEF e, n, k
<1>12. q \in Places(op)
  BY <1>3 DEF Places
<1>13. /\ InBarrier(t)' <=> BarrierAt(op, Place(t)')
       /\ at'[t] = CommAt(op, Place(t)', t)
  <2>1. q[1] = epoch[t] /\ q[2] \in NodesOf(op, q[1]) /\ q[3] = 0 /\ q[2] # 1
    BY <1>3 DEF e
  <2>2. NodeAt(op, q) = k
    BY DEF NodeAt, k
  <2>3. "grow" \in Points /\ Barrier(t, nodes[t][k], "grow")
    BY <1>1, <1>4 DEF Points
  <2> HIDE DEF q
  <2> QED
    BY <1>4, <1>11, <1>12, <2>1, <2>2, <2>3, BarrierMove
<1>14. Advance(t) /\ Quiet(t, 1) /\ Quiet(t, 3)
  <2>1. Before(Place(t), Place(t)')
    BY <1>3, <1>11 DEF Before
  <2>2. ASSUME NEW b \in Places(op), BarrierAt(op, b), Before(Place(t), b), Before(b, Place(t)')
        PROVE  FALSE
    <3>1. b[1] \in Nat /\ b[2] \in Nat /\ b[3] \in Nat
      BY <1>3, PlacesAreTriples
    <3>2. b[1] = e /\ b[2] = n /\ b[3] # 0
      BY <1>3, <1>11, <2>2, <3>1 DEF Before
    <3>3. ~ Made(op, b[1], b[2] + 1) /\ b[2] # Len(op.trees[b[1]]) + 1
      BY <1>1, <1>4, <3>2 DEF e, n
    <3> QED
      BY <2>2, <3>2, <3>3 DEF BarrierAt
  <2>3. (Place(t)')[3] # 1 /\ (Place(t)')[3] # 3
    BY <1>11
  <2> QED
    BY <1>11, <1>12, <1>13, <2>1, <2>2, <2>3, Advances
<1>15. SyncInv'
  BY <1>1, <1>8, <1>9, <1>11, <1>12, <1>14, NothingMoves, MoveSync
<1>16. NodesOk(t)'
  BY <1>1, <1>3, <1>7 DEF NodesOk, e
<1>17. PointOk(t)'
  BY <1>1, <1>3, <1>4, <1>7, <1>8, <1>13 DEF PointOk, e
<1>18. FreedOk(t)' /\ ReceivedOk(t)' /\ SentOk(t)'
  BY <1>1, <1>2, <1>8 DEF FreedOk, ReceivedOk, SentOk
<1>19. ASSUME NEW a \in MadeArrays, a[3] = t
       PROVE  Kept(a[1], a[2], t)' <=> Kept(a[1], a[2], t)
  <2>1. /\ Made(op, a[1], a[2]) /\ a[1] \in Nat /\ a[2] \in Nat
        /\ ~ Before(Place(t), <<a[1], a[2] - 1, 1>>)
    BY <1>19 DEF MadeArrays, Offered
  <2>2. Len(nodes[t]) = n /\ epoch[t] = e
    BY DEF n, e
  <2>3. ~ (a[1] = e /\ n = a[2] - 1)
    BY <1>3, <1>4, <2>1
  <2>4. ~ (a[1] = e /\ i = a[2] - 1)
    BY <1>3, <1>11, <2>1 DEF Before
  <2>5. ~ Kept(a[1], a[2], t)
    BY <1>1, <2>2, <2>3 DEF Kept
  <2>6. ~ Kept(a[1], a[2], t)'
    BY <1>1, <1>7, <1>8, <2>2, <2>4 DEF Kept
  <2> QED
    BY <2>5, <2>6
<1>20. pc[t] # "done" /\ epoch'[t] = epoch[t] /\ gone'[t] = gone[t]
  BY <1>1
<1> HIDE DEF IInv
<1> QED
  BY <1>1, <1>9, <1>10, <1>14, <1>15, <1>16, <1>17, <1>18, <1>19, <1>20, ThreadOnly

\* The first three steps of a split that makes communicators
LEMMA StageStep ==
    ASSUME Typed, ThreadInv, op' = op, NEW t \in Threads, NEW s \in 0 .. 2,
           pc[t] = IF s = 0 THEN "grow" ELSE IF s = 1 THEN "receive" ELSE "fill",
           Len(nodes[t]) + 1 \in NodesOf(op, epoch[t]), Made(op, epoch[t], Len(nodes[t]) + 1),
           NEW point, point = IF s = 0 THEN "receive" ELSE IF s = 1 THEN "fill" ELSE "attach",
           Barrier(t, Parent(t), point), nodes'[t] = nodes[t], epoch'[t] = epoch[t],
           worked'[t] = worked[t], gone'[t] = gone[t]
    PROVE  LET e == epoch[t]
               n == Len(nodes[t])
           IN  /\ Place(t) = <<e, n, s>> /\ Place(t)' = <<e, n, s + 1>>
               /\ Place(t)' \in Places(op)
               /\ ~ InBarrier(t) /\ Point(t)' = point /\ Point(t) = pc[t]
               /\ InBarrier(t)' /\ BarrierAt(op, Place(t)')
               /\ at'[t] = CommAt(op, Place(t)', t)
               /\ pc'[t] \in {point, "arrive"} /\ pc'[t] # "spin"
               /\ pc' \in [Threads -> Points \cup {"arrive", "spin"}]
               /\ ret' \in [Threads -> Points] /\ at' \in [Threads -> Nat \X Nat \X Nat]
               /\ \A u \in Threads \ {t} : pc'[u] = pc[u] /\ ret'[u] = ret[u] /\ at'[u] = at[u]
               /\ Advance(t) /\ \A r \in Nat \ {s + 1} : Quiet(t, r)
               /\ NodesOk(t)' /\ PointOk(t)' /\ FreedOk(t)'
<1> DEFINE e == epoch[t]
           n == Len(nodes[t])
           i == n + 1
           k == Par(op, e, i)
           q == <<e, n, s + 1>>
<1>1. /\ op \in Operations /\ e \in 1 .. Len(op.trees) /\ e \in Nat /\ n \in Nat \ {0}
      /\ n \in NodesOf(op, e)
  BY Here, TreeFacts
<1>2. i \in NodesOf(op, e) /\ Made(op, e, i) /\ i - 1 = n
  BY <1>1
<1>3. k \in DOMAIN nodes[t] /\ Parent(t) = nodes[t][k]
  <2>1. i \in NodesOf(op, epoch[t])
    BY <1>2
  <2> QED
    BY <2>1, SplitFacts
<1>4. ~ InBarrier(t) /\ Point(t) = pc[t] /\ point \in Points
  BY DEF InBarrier, Point, Points
<1>5. NodesOk(t) /\ PointOk(t) /\ FreedOk(t)
  BY DEF ThreadInv
<1>6. /\ Point(t)' = point /\ pc'[t] # "spin" /\ pc'[t] \in {point, "arrive"}
      /\ pc' \in [Threads -> Points \cup {"arrive", "spin"}]
      /\ ret' \in [Threads -> Points] /\ at' \in [Threads -> Nat \X Nat \X Nat]
      /\ \A u \in Threads \ {t} : pc'[u] = pc[u] /\ ret'[u] = ret[u] /\ at'[u] = at[u]
  BY <1>3, <1>4, BarrierEffect
<1>7. Place(t) = <<e, n, s>> /\ Place(t)' = q
  <2>1. StageOf(op, Point(t), worked[t]) = s
    BY <1>4 DEF StageOf
  <2>2. StageOf(op, point, worked'[t]) = s + 1
    BY DEF StageOf
  <2> QED
    BY <1>6, <2>1, <2>2 DEF Place
<1> HIDE DEF e, n, k, i
<1>8. q = <<e, i - 1, s + 1>> /\ s + 1 \in 1 .. 3
  BY <1>2
<1>9. BarrierAt(op, q) /\ q \in Places(op) /\ NodeAt(op, q) = k
  BY <1>1, <1>2, <1>8, SplitBarriers DEF k
<1>10. InBarrier(t)' /\ at'[t] = CommAt(op, q, t)
  <2>1. /\ q[1] = epoch[t] /\ q[2] \in NodesOf(op, q[1]) /\ q[3] \in 1 .. 3
        /\ q[2] + 1 = i
    BY <1>1, <1>8 DEF e, i
  <2>2. q[2] + 1 \in NodesOf(op, q[1]) /\ Made(op, q[1], q[2] + 1)
    BY <1>2, <2>1 DEF e
  <2> HIDE DEF q
  <2> QED
    BY <1>3, <1>4, <1>7, <1>9, <2>1, <2>2, BarrierMove
<1>11. Advance(t) /\ \A r \in Nat \ {s + 1} : Quiet(t, r)
  <2>1. Before(Place(t), Place(t)')
    BY <1>1, <1>7 DEF Before
  <2>2. ASSUME NEW b \in Places(op), Before(Place(t), b), Before(b, Place(t)') PROVE FALSE
    <3>1. b \in Nat \X Nat \X Nat
      BY <1>1, PlacesAreTriples
    <3>2. ~ (Before(<<e, n, s>>, b) /\ Before(b, <<e, n, s + 1>>))
      <4>1. s \in Nat
        OBVIOUS
      <4> QED
        BY <1>1, <3>1, <4>1, NextStage, Zenon
    <3> QED
      BY <1>7, <2>2, <3>2
  <2>3. (Place(t)')[3] = s + 1
    BY <1>7
  <2> QED
    BY <1>7, <1>9, <1>10, <2>1, <2>2, <2>3, Advances
<1>12. NodesOk(t)'
  BY <1>5 DEF NodesOk
<1>13. PointOk(t)'
  <2>1. Len(nodes'[t]) + 1 = i /\ epoch'[t] = e
    BY DEF i, n, e
  <2>2. worked'[t] = 0 /\ Len(op.work) \in Nat
    BY <1>1, <1>4, <1>5, TreeFacts DEF PointOk
  <2> QED
    BY <1>2, <1>6, <1>7, <1>9, <1>10, <2>1, <2>2 DEF PointOk
<1>14. FreedOk(t)'
  <2>1. gone[t] = {}
    BY <1>4, <1>5 DEF FreedOk
  <2>2. pc'[t] # "done"
    BY <1>6
  <2> QED
    BY <2>1, <2>2 DEF FreedOk
<1> QED
  BY <1>4, <1>6, <1>7, <1>9, <1>10, <1>11, <1>12, <1>13, <1>14 DEF e, n

\* The places between a barrier of a split and the next
LEMMA InBetween ==
    ASSUME NEW e \in Nat, NEW n \in Nat, NEW s \in Nat, NEW b \in Nat \X Nat \X Nat,
           ~ Before(b, <<e, n, s>>), ~ Before(<<e, n, s + 1>>, b)
    PROVE  b[1] = e /\ b[2] = n /\ b[3] \in {s, s + 1}
<1>1. b[1] \in Nat /\ b[2] \in Nat /\ b[3] \in Nat
  OBVIOUS
<1> QED
  BY <1>1 DEF Before

LEMMA StagesOfSplit ==
    ASSUME NEW o \in Operations, NEW point \in Points, NEW w \in Nat
    PROVE  /\ StageOf(o, point, w) = 1 => point = "receive"
           /\ StageOf(o, point, w) = 2 => point = "fill"
           /\ StageOf(o, point, w) = 3 => point = "attach"
<1>1. Len(o.work) \in Nat
  BY TreesAssumption
<1> QED
  BY <1>1 DEF StageOf, Points

\* When a thread reads what has been broadcast, the chief's object is still there.
LEMMA SentByChief ==
    ASSUME Typed, ThreadInv, SyncInv, NEW t \in Threads, pc[t] = "receive"
    PROVE  comms[Parent(t).comm].sent_object = ArrayOf(t, Len(nodes[t]) + 1)
<1> DEFINE e == epoch[t]
           n == Len(nodes[t])
           i == n + 1
           k == Par(op, e, i)
           m == SizeOf(op, e, k)
           p == Base(t, m)
           b1 == <<e, i - 1, 1>>
           b2 == <<e, i - 1, 2>>
<1>1. Point(t) = "receive" /\ ~ InBarrier(t)
  BY DEF Point, InBarrier
<1>2. i \in NodesOf(op, e) /\ Made(op, e, i)
  BY <1>1 DEF ThreadInv, PointOk
<1>3. /\ op \in Operations /\ e \in 1 .. Len(op.trees) /\ e \in Nat /\ n \in Nat \ {0}
      /\ i # 1 /\ i - 1 = n /\ t \in Nat
  BY Here, TreeFacts DEF Threads
<1>4. Place(t) = b1
  BY <1>1, <1>3 DEF Place, StageOf
<1>5. k \in NodesOf(op, e) /\ Parent(t).comm = CommOf(op, e, k, t)
  <2>1. i \in NodesOf(op, epoch[t])
    BY <1>2
  <2> QED
    BY <2>1, SplitFacts
<1>6. m \in Nat \ {0} /\ p \in Threads
  BY <1>3, <1>5, CommFacts
<1> HIDE DEF e, n, i, k, m, p
<1>7. Base(p, m) = p /\ p % m = 0
  BY <1>3, <1>6, BaseFacts DEF p
<1>8. /\ BarrierAt(op, b1) /\ SizeAt(op, b1) = m /\ b1 \in Places(op)
      /\ BarrierAt(op, b2) /\ SizeAt(op, b2) = m /\ b2 \in Places(op)
  <2>1. 1 \in 1 .. 3 /\ 2 \in 1 .. 3
    OBVIOUS
  <2> QED
    BY <1>2, <1>3, <2>1, SplitBarriers DEF m, k
<1>9. Peers(t, p, b1) /\ Peers(p, t, b2)
  BY <1>7, <1>8 DEF Peers, p
<1>10. Place(p) \in Nat \X Nat \X Nat /\ Place(p) \in Places(op)
  BY <1>3, <1>6, Here, PlacesAreTriples
<1>11. ~ Before(Place(p), b1)
  <2>1. Arrived(p, b1)
    BY <1>1, <1>4, <1>6, <1>8, <1>9 DEF SyncInv, Synced, Past
  <2>2. b1 \in Nat \X Nat \X Nat
    BY <1>3, <1>8, PlacesAreTriples
  <2> QED
    BY <1>10, <2>1, <2>2, Order DEF Arrived
<1>12. ~ Before(b2, Place(p))
  <2> SUFFICES ASSUME Before(b2, Place(p)) PROVE FALSE
    OBVIOUS
  <2>1. Arrived(t, b2)
    BY <1>6, <1>8, <1>9 DEF SyncInv, Synced, Past
  <2>2. Before(b2, b1) \/ b2 = b1
    BY <1>4, <2>1 DEF Arrived
  <2> QED
    BY <1>3, <2>2 DEF Before
<1>13. epoch[p] = e /\ Len(nodes[p]) = n /\ Point(p) \in {"receive", "fill"}
  <2>1. b1 = <<e, n, 1>> /\ b2 = <<e, n, 1 + 1>>
    BY <1>3
  <2>2. Place(p)[1] = e /\ Place(p)[2] = n /\ Place(p)[3] \in {1, 1 + 1}
    BY <1>3, <1>10, <1>11, <1>12, <2>1, InBetween
  <2>3. /\ Place(p)[1] = epoch[p] /\ Place(p)[2] = Len(nodes[p])
        /\ Place(p)[3] = StageOf(op, Point(p), worked[p]) /\ Point(p) \in Points
    BY <1>6, Here
  <2>4. worked[p] \in Nat
    BY <1>6 DEF Typed
  <2>5. Point(p) \in {"receive", "fill"}
    BY <1>3, <2>2, <2>3, <2>4, StagesOfSplit
  <2> QED
    BY <2>2, <2>3, <2>5
<1>14. comms[CommOf(op, e, k, p)].sent_object = <<e, i, p>>
  <2>1. SentOk(p)
    BY <1>6 DEF ThreadInv
  <2>2. Par(op, epoch[p], Len(nodes[p]) + 1) = k /\ Len(nodes[p]) + 1 = i
    BY <1>13 DEF k, i
  <2>3. p % SizeOf(op, epoch[p], k) = 0
    BY <1>7, <1>13 DEF m
  <2> QED
    BY <1>13, <2>1, <2>2, <2>3 DEF SentOk
<1>15. CommOf(op, e, k, p) = CommOf(op, e, k, t)
  BY <1>7, TeamComm DEF m, p
<1> QED
  BY <1>5, <1>14, <1>15 DEF ArrayOf, p, m, k, e, i, n

\* SplitReceive keeps the invariant: see SentByChief.
LEMMA DoSplitReceive ==
    ASSUME IInv, op' = op, NEW t \in Threads, SplitReceive(t)
    PROVE  IInv'
<1> USE DEF IInv
<1>1. /\ pc[t] = "receive" /\ Barrier(t, Parent(t), "fill")
      /\ new_comms' = [new_comms EXCEPT ![t] = comms[Parent(t).comm].sent_object]
      /\ comms' = comms /\ arrays' = arrays /\ orig_sense' = orig_sense
      /\ epoch' = epoch /\ nodes' = nodes /\ gone' = gone /\ worked' = worked
      /\ ~ InBarrier(t) /\ Point(t) = "receive"
  BY DEF SplitReceive, shared, InBarrier, Point
<1>2. /\ Len(nodes[t]) + 1 \in NodesOf(op, epoch[t]) /\ Made(op, epoch[t], Len(nodes[t]) + 1)
  BY <1>1 DEF ThreadInv, PointOk
<1>3. /\ Place(t)' \in Places(op) /\ Point(t)' = "fill"
      /\ pc'[t] # "spin"
      /\ pc' \in [Threads -> Points \cup {"arrive", "spin"}]
      /\ ret' \in [Threads -> Points] /\ at' \in [Threads -> Nat \X Nat \X Nat]
      /\ \A u \in Threads \ {t} : pc'[u] = pc[u] /\ ret'[u] = ret[u] /\ at'[u] = at[u]
      /\ Advance(t) /\ Quiet(t, 1) /\ Quiet(t, 3)
      /\ NodesOk(t)' /\ PointOk(t)' /\ FreedOk(t)'
  <2>1. 1 \in 0 .. 2 /\ 1 \in Nat \ {1 + 1} /\ 3 \in Nat \ {1 + 1}
    OBVIOUS
  <2> QED
    BY <1>1, <1>2, <2>1, StageStep
<1>4. comms[Parent(t).comm].sent_object = ArrayOf(t, Len(nodes[t]) + 1)
  BY <1>1, SentByChief
<1>5. ArrayOf(t, Len(nodes[t]) + 1) \in Nat \X Nat \X Nat
  <2>1. /\ op \in Operations /\ epoch[t] \in 1 .. Len(op.trees) /\ epoch[t] \in Nat
        /\ Len(nodes[t]) + 1 \in Nat
    BY Here, TreeFacts
  <2>2. Par(op, epoch[t], Len(nodes[t]) + 1) \in NodesOf(op, epoch[t])
    BY <1>2, ParentOf
  <2>3. Base(t, SizeOf(op, epoch[t], Par(op, epoch[t], Len(nodes[t]) + 1))) \in Nat
    BY <2>1, <2>2, CommFacts DEF Threads
  <2> QED
    BY <2>1, <2>3 DEF ArrayOf
<1>6. /\ new_comms' \in [Threads -> (Nat \X Nat \X Nat) \cup {NULL}]
      /\ new_comms'[t] = ArrayOf(t, Len(nodes[t]) + 1)
      /\ \A u \in Threads \ {t} : new_comms'[u] = new_comms[u]
  BY <1>1, <1>4, <1>5 DEF Typed
<1>7. Typed'
  BY <1>1, <1>3, <1>6 DEF Typed
<1>8. Others(t)
  BY <1>1, <1>3, <1>6 DEF Others
<1>9. SyncInv'
  BY <1>1, <1>3, <1>8, NothingMoves, MoveSync
<1>10. SentOk(t)' /\ \A d, i : Kept(d, i, t)' <=> Kept(d, i, t)
  BY <1>1, <1>3, SameNodes
<1>11. ReceivedOk(t)'
  BY <1>1, <1>3, <1>6 DEF ReceivedOk, ArrayOf
<1>12. pc[t] # "done" /\ epoch'[t] = epoch[t] /\ gone'[t] = gone[t]
  BY <1>1
<1> HIDE DEF IInv
<1> QED
  BY <1>1, <1>3, <1>7, <1>8, <1>9, <1>10, <1>11, <1>12, ThreadOnly

\* SplitDrop keeps the invariant: the chief's array is dead, and the chief past it.
LEMMA DoSplitDrop ==
    ASSUME IInv, op' = op, NEW t \in Threads, SplitDrop(t)
    PROVE  IInv'
<1> USE DEF IInv
<1> DEFINE e == epoch[t]
           n == Len(nodes[t])
           k == Par(op, e, n)
           m == SizeOf(op, e, k)
           x == new_comms[t]
<1>1. /\ pc[t] = "drop" /\ Goto(t, "grow")
      /\ IF nodes[t][op.trees[epoch[t]][Len(nodes[t]) - 1].par].thread_id = 0
           THEN arrays' = [arrays EXCEPT ![new_comms[t]].live = FALSE]
           ELSE arrays' = arrays
      /\ comms' = comms /\ orig_sense' = orig_sense
      /\ epoch' = epoch /\ nodes' = nodes /\ gone' = gone /\ worked' = worked
      /\ new_comms' = new_comms
      /\ ~ InBarrier(t) /\ Point(t) = "drop"
  BY DEF SplitDrop, treeVars, InBarrier, Point
<1>2. /\ pc'[t] = "grow" /\ ~ InBarrier(t)' /\ Point(t)' = "grow"
      /\ pc' \in [Threads -> Points \cup {"arrive", "spin"}] /\ at' = at /\ ret' = ret
      /\ \A u \in Threads \ {t} : pc'[u] = pc[u]
  BY <1>1, GotoEffect DEF Points
<1>3. Others(t)
  BY <1>1, <1>2 DEF Others
<1>4. PointOk(t) /\ FreedOk(t) /\ ReceivedOk(t)
  BY DEF ThreadInv
<1>5. /\ op \in Operations /\ e \in 1 .. Len(op.trees) /\ e \in Nat /\ n \in Nat \ {0}
      /\ n \in NodesOf(op, e) /\ Made(op, e, n) /\ n # 1 /\ t \in Nat
      /\ k \in NodesOf(op, e) /\ k \in DOMAIN nodes[t] /\ m \in Nat \ {0}
      /\ Place(t) \in Places(op) /\ Place(t)[1] = e /\ Place(t)[2] = n
      /\ nodes[t][k].thread_id = t % m
  <2>1. /\ op \in Operations /\ e \in 1 .. Len(op.trees) /\ n \in Nat \ {0} /\ n \in NodesOf(op, e)
        /\ Made(op, e, n) /\ n # 1 /\ t \in Nat /\ DOMAIN nodes[t] = 1 .. n
        /\ \A j \in DOMAIN nodes[t] : nodes[t][j] = NodeOf(op, e, j, t)
        /\ Place(t) \in Places(op) /\ Place(t)[1] = e /\ Place(t)[2] = n
    BY <1>1, <1>4, Here DEF PointOk, Made, Threads
  <2>2. e \in Nat /\ k \in 1 .. n - 1 /\ k \in NodesOf(op, e)
    <3>1. e \in Nat
      BY <2>1
    <3>2. Par(op, e, n) \in 1 .. n - 1 /\ Par(op, e, n) \in NodesOf(op, e)
      BY <2>1, TreeFacts, Zenon
    <3> QED
      BY <3>1, <3>2
  <2>3. m \in Nat \ {0}
    BY <2>1, <2>2, CommFacts
  <2>4. k \in DOMAIN nodes[t]
    BY <2>1, <2>2
  <2>5. nodes[t][k] = NodeOf(op, e, k, t)
    BY <2>1, <2>4
  <2>6. nodes[t][k].thread_id = t % m
    BY <2>5, NodeFields DEF NodeOf
  <2> QED
    BY <2>1, <2>2, <2>3, <2>4, <2>6
<1>6. op.trees[epoch[t]][Len(nodes[t]) - 1].par = k
  BY DEF Par
<1>7. x = <<e, n, Base(t, m)>>
  BY <1>1, <1>4 DEF ReceivedOk, ArrayOf
<1> HIDE DEF e, n, k, m, x
<1>8. t % m = 0 => x = <<e, n, t>> /\ x \in MadeArrays
  <2> SUFFICES ASSUME t % m = 0 PROVE x = <<e, n, t>> /\ x \in MadeArrays
    OBVIOUS
  <2>1. x = <<e, n, t>>
    BY <1>5, <1>7 DEF Base
  <2>2. ~ Before(Place(t), <<e, n - 1, 1>>)
    BY <1>5 DEF Before
  <2> QED
    BY <1>5, <2>1, <2>2 DEF MadeArrays, Offered, m, k
<1>9. /\ DOMAIN arrays' = DOMAIN arrays
      /\ \A a \in DOMAIN arrays : arrays'[a] \in ArrayType /\ arrays'[a].elem = arrays[a].elem
      /\ \A a \in DOMAIN arrays : ~ (t % m = 0 /\ a = x) => arrays'[a] = arrays[a]
      /\ t % m = 0 => ~ arrays'[x].live
  <2>1. CASE t % m = 0
    <3>1. arrays' = [arrays EXCEPT ![x].live = FALSE]
      BY <1>1, <1>5, <1>6, <2>1 DEF x
    <3>2. x \in DOMAIN arrays /\ arrays[x] \in ArrayType
      BY <1>8, <2>1 DEF ArraysInv, Typed
    <3>3. /\ DOMAIN arrays' = DOMAIN arrays
          /\ \A a \in DOMAIN arrays : a # x => arrays'[a] = arrays[a]
          /\ arrays'[x] = [arrays[x] EXCEPT !.live = FALSE]
      BY <3>1, <3>2
    <3>4. arrays'[x] \in ArrayType /\ arrays'[x].elem = arrays[x].elem /\ arrays'[x].live = FALSE
      BY <3>2, <3>3 DEF ArrayType
    <3>5. ASSUME NEW a \in DOMAIN arrays
          PROVE  arrays'[a] \in ArrayType /\ arrays'[a].elem = arrays[a].elem
      <4>1. CASE a = x
        BY <3>4, <4>1
      <4>2. CASE a # x
        <5>1. arrays'[a] = arrays[a]
          BY <3>3, <4>2
        <5> QED
          BY <5>1 DEF Typed
      <4> QED
        BY <4>1, <4>2
    <3>6. ~ arrays'[x].live
      BY <3>4
    <3> QED
      BY <2>1, <3>3, <3>5, <3>6
  <2>2. CASE t % m # 0
    BY <1>1, <1>5, <1>6, <2>2 DEF Typed
  <2> QED
    BY <2>1, <2>2
<1>10. Typed'
  BY <1>1, <1>2, <1>9 DEF Typed
<1>11. Place(t)' = Place(t)
  BY <1>1, <1>2 DEF Place, StageOf
<1>12. Advance(t) /\ Quiet(t, 1) /\ Quiet(t, 3)
  BY <1>2, <1>5, <1>11 DEF Advance, Quiet
<1>13. SentKept(t) /\ BarriersKept
  BY <1>1, NothingMoves
<1>14. SyncInv'
  BY <1>1, <1>2, <1>3, <1>5, <1>11, <1>12, <1>13, MoveSync
<1>15. NodesOk(t)' /\ SentOk(t)'
  BY <1>1, <1>2, SameNodes
<1>16. PointOk(t)'
  BY <1>1, <1>2, <1>4 DEF PointOk
<1>17. FreedOk(t)' /\ ReceivedOk(t)'
  BY <1>1, <1>2, <1>4 DEF FreedOk, ReceivedOk
<1>18. ThreadInv'
  BY <1>3, <1>13, <1>15, <1>16, <1>17, ThreadStep
<1>19. CommsInv'
  BY <1>1, <1>3, <1>12, CommsStep
<1>20. ArraysInv'
  <2>1. ASSUME NEW a \in MadeArrays
        PROVE  /\ arrays'[a].elem = arrays[a].elem
               /\ a[3] # t => arrays'[a].live = arrays[a].live
               /\ a[3] = t => (arrays'[a].live <=> Kept(a[1], a[2], t)')
    <3>1. a \in DOMAIN arrays /\ a = <<a[1], a[2], a[3]>> /\ a[2] \in NodesOf(op, a[1])
      BY DEF ArraysInv, MadeArrays
    <3>2. arrays'[a].elem = arrays[a].elem
      BY <1>9, <3>1
    <3>3. CASE a[3] # t
      <4>1. ~ (t % m = 0 /\ a = x)
        BY <1>8, <3>3
      <4> QED
        BY <1>9, <3>1, <3>2, <3>3, <4>1
    <3>4. CASE a[3] = t
      <4>1. arrays[a].live <=> Kept(a[1], a[2], t)
        BY <3>4 DEF ArraysInv
      <4>2. Kept(a[1], a[2], t) <=> a[1] = e /\ (n = a[2] - 1 \/ n = a[2])
        BY <1>1 DEF Kept, e, n
      <4>3. Kept(a[1], a[2], t)' <=> a[1] = e /\ n = a[2] - 1
        BY <1>1, <1>2 DEF Kept, e, n
      <4>4. CASE t % m = 0 /\ a = x
        <5>1. a[2] = n
          BY <1>8, <4>4
        <5> QED
          BY <1>5, <1>9, <3>2, <3>4, <4>3, <4>4, <5>1
      <4>5. CASE ~ (t % m = 0 /\ a = x)
        <5>1. ~ (a[1] = e /\ a[2] = n)
          <6> SUFFICES ASSUME a[1] = e, a[2] = n PROVE FALSE
            OBVIOUS
          <6>1. t % m = 0
            BY <3>4 DEF MadeArrays, m, k
          <6>2. a = x
            BY <1>8, <3>1, <3>4, <6>1
          <6> QED
            BY <4>5, <6>1, <6>2
        <5>2. arrays'[a] = arrays[a]
          BY <1>9, <3>1, <4>5
        <5> QED
          BY <3>2, <3>4, <4>1, <4>2, <4>3, <5>1, <5>2
      <4> QED
        BY <4>4, <4>5
    <3> QED
      BY <3>3, <3>4
  <2> QED
    BY <1>3, <1>9, <1>12, <2>1, ArraysStep
<1> QED
  BY <1>10, <1>14, <1>18, <1>19, <1>20

\* Who reads an array of communicators finds it where the chief keeps it, until the
\* last barrier of the split, and in it the communicator of its new team.
LEMMA ReaderFacts ==
    ASSUME IInv, NEW t \in Threads, pc[t] \in {"fill", "attach"}
    PROVE  LET e == epoch[t]
               i == Len(nodes[t]) + 1
               x == ArrayOf(t, i)
           IN  /\ new_comms[t] = x /\ x \in MadeArrays /\ x \in DOMAIN arrays /\ arrays[x].live
               /\ pc[t] = "attach" =>
                    /\ arrays[x].elem[ChildWork(t)] = CommOf(op, e, i, t)
                    /\ CommOf(op, e, i, t) # NULL
<1> USE DEF IInv
<1> DEFINE e == epoch[t]
           n == Len(nodes[t])
           i == n + 1
           k == Par(op, e, i)
           m == SizeOf(op, e, k)
           s == SizeOf(op, e, i)
           p == Base(t, m)
           x == ArrayOf(t, i)
           b1 == <<e, i - 1, 1>>
           b3 == <<e, i - 1, 3>>
           q == <<e, i, 0>>
<1>1. Point(t) = pc[t] /\ ~ InBarrier(t)
  BY DEF Point, InBarrier
<1>2. i \in NodesOf(op, e) /\ Made(op, e, i) /\ new_comms[t] = x
  BY <1>1 DEF ThreadInv, PointOk, ReceivedOk
<1>3. /\ op \in Operations /\ e \in 1 .. Len(op.trees) /\ e \in Nat /\ n \in Nat \ {0}
      /\ i # 1 /\ i - 1 = n /\ t \in Nat /\ i = n + 1 /\ i \in Nat /\ i # 0
  BY Here, TreeFacts DEF Threads
<1>4. Place(t) = <<e, n, 2>> \/ (Place(t) = <<e, n, 3>> /\ pc[t] = "attach")
  BY <1>1 DEF Place, StageOf
<1>5. pc[t] = "attach" => Place(t) = <<e, n, 3>>
  BY <1>1 DEF Place, StageOf
<1>6. /\ k \in NodesOf(op, e) /\ ChildWork(t) = (t % m) \div s
  <2>1. i \in NodesOf(op, epoch[t])
    BY <1>2
  <2> QED
    BY <2>1, SplitFacts
<1>7. m \in Nat \ {0} /\ p \in Threads /\ s \in Nat \ {0}
  BY <1>2, <1>3, <1>6, CommFacts
<1>8. x = <<e, i, p>>
  BY DEF ArrayOf
<1> HIDE DEF e, n, i, k, m, s, p, x
<1>9. Base(p, m) = p /\ p % m = 0
  BY <1>3, <1>7, BaseFacts DEF p
<1>10. /\ BarrierAt(op, b1) /\ SizeAt(op, b1) = m /\ b1 \in Places(op)
       /\ BarrierAt(op, b3) /\ SizeAt(op, b3) = m /\ b3 \in Places(op)
  <2>1. 1 \in 1 .. 3 /\ 3 \in 1 .. 3
    OBVIOUS
  <2> QED
    BY <1>2, <1>3, <2>1, SplitBarriers DEF m, k
<1>11. BarrierAt(op, q) /\ SizeAt(op, q) = m /\ q \in Places(op) /\ q \in Nat \X Nat \X Nat
  <2>1. q \in Places(op)
    BY <1>3 DEF Places
  <2>2. q[1] = e /\ q[2] = i /\ q[3] = 0
    OBVIOUS
  <2>3. NodeAt(op, q) = k
    BY <2>2 DEF NodeAt, k
  <2>4. SizeOf(op, q[1], NodeAt(op, q)) = m /\ m # 1
    <3>1. m # 1
      BY <1>10 DEF BarrierAt, SizeAt
    <3> QED
      BY <2>2, <2>3, <3>1 DEF m
  <2> HIDE DEF q
  <2>5. BarrierAt(op, q)
    BY <1>2, <1>3, <2>1, <2>2, <2>4 DEF BarrierAt
  <2> QED
    BY <1>3, <2>1, <2>4, <2>5, PlacesAreTriples DEF SizeAt
<1>12. Place(p) \in Nat \X Nat \X Nat /\ Place(p) \in Places(op)
  BY <1>3, <1>7, Here, PlacesAreTriples
<1>13. ~ Before(Place(p), b1)
  <2>1. Past(t, b1)
    BY <1>3, <1>4 DEF Past, Before
  <2>2. Arrived(p, b1)
    BY <1>7, <1>9, <1>10, <2>1 DEF SyncInv, Synced, Peers, p
  <2>3. b1 \in Nat \X Nat \X Nat
    BY <1>3, <1>10, PlacesAreTriples
  <2> QED
    BY <1>12, <2>2, <2>3, Order DEF Arrived
<1>14. x \in MadeArrays
  <2>1. Offered(e, i, p)
    BY <1>13 DEF Offered
  <2>2. i \in Nat
    BY <1>3
  <2> QED
    BY <1>2, <1>3, <1>7, <1>8, <1>9, <2>1, <2>2 DEF MadeArrays, m, k
<1>15. ~ Past(p, q)
  <2> SUFFICES ASSUME Past(p, q) PROVE FALSE
    OBVIOUS
  <2>1. Arrived(t, q)
    BY <1>7, <1>9, <1>11 DEF SyncInv, Synced, Peers, p
  <2>2. Before(q, Place(t)) \/ q = Place(t)
    BY <2>1 DEF Arrived
  <2> QED
    BY <1>3, <1>4, <2>2 DEF Before
<1>16. Kept(e, i, p)
  <2>1. /\ Place(p)[1] = epoch[p] /\ Place(p)[2] = Len(nodes[p]) /\ Point(p) \in Points
        /\ Place(p)[3] = StageOf(op, Point(p), worked[p])
    BY <1>7, Here
  <2>2. ~ Before(q, Place(p)) /\ (q = Place(p) => InBarrier(p))
    BY <1>15 DEF Past
  <2>3. Before(Place(p), q) \/ Place(p) = q
    BY <1>11, <1>12, <2>2, Order
  <2>4. Place(p)[1] = e /\ (Place(p)[2] = n \/ Place(p) = q)
    <3>1. Place(p)[1] \in Nat /\ Place(p)[2] \in Nat /\ Place(p)[3] \in Nat
      BY <1>12
    <3> QED
      BY <1>3, <1>13, <2>3, <3>1 DEF Before
  <2>5. CASE Place(p)[2] = n
    BY <1>3, <2>1, <2>4, <2>5 DEF Kept
  <2>6. CASE Place(p) = q
    <3>1. InBarrier(p) /\ Len(nodes[p]) = i /\ epoch[p] = e
      BY <2>1, <2>2, <2>6
    <3>2. Point(p) \in {"grow", "drop"}
      <4>1. StageOf(op, Point(p), worked[p]) = 0
        BY <2>1, <2>6
      <4>2. Len(op.work) \in Nat /\ worked[p] \in Nat
        BY <1>3, <1>7, TreeFacts DEF Typed
      <4> QED
        BY <2>1, <4>1, <4>2 DEF StageOf, Points
    <3>3. Point(p) # "grow"
      BY <1>2, <1>7, <3>1 DEF ThreadInv, PointOk
    <3> QED
      BY <3>1, <3>2, <3>3 DEF Kept
  <2> QED
    BY <2>4, <2>5, <2>6
<1>17. x \in DOMAIN arrays /\ arrays[x].live
  BY <1>8, <1>14, <1>16 DEF ArraysInv
<1>18. ASSUME pc[t] = "attach"
       PROVE  arrays[x].elem[ChildWork(t)] = CommOf(op, e, i, t)
  <2> DEFINE u == Base(t, s)
  <2>1. /\ u \in Threads /\ Base(u, m) = p /\ u % s = 0
        /\ u % m = s * ((t % m) \div s) /\ (t % m) \div s \in Nat
    <3>1. /\ u \in Threads /\ Base(u, m) = Base(t, m)
          /\ u % m = s * ((t % m) \div s) /\ (t % m) \div s \in 0 .. m - 1
      BY <1>2, <1>3, ParentTeams DEF m, k, s
    <3>2. u % s = 0
      BY <1>3, <1>7, BaseFacts
    <3>3. (t % m) \div s \in Nat
      BY <1>7, <3>1
    <3> QED
      BY <3>1, <3>2, <3>3 DEF p
  <2> HIDE DEF u
  <2>2. Arrived(u, b3)
    <3>1. Past(t, b3)
      BY <1>1, <1>3, <1>5, <1>18 DEF Past
    <3> QED
      BY <1>10, <2>1, <3>1 DEF SyncInv, Synced, Peers, p
  <2>3. Filled(e, i, u)
    <3>1. Place(u) \in Nat \X Nat \X Nat /\ b3 \in Nat \X Nat \X Nat
      BY <1>3, <1>10, <2>1, Here, PlacesAreTriples
    <3> QED
      BY <2>2, <3>1, Order DEF Arrived, Filled
  <2>4. arrays[x].elem[(u % m) \div s] = <<e, i, u>>
    <3>1. x[1] = e /\ x[2] = i /\ x[3] = p
      BY <1>8
    <3> QED
      BY <1>14, <2>1, <2>3, <3>1 DEF ArraysInv, m, k, s
  <2>5. (u % m) \div s = (t % m) \div s
    <3> DEFINE w == (t % m) \div s
               a == u % m
    <3>1. a = s * w /\ w \in Nat
      BY <2>1
    <3> HIDE DEF w, a
    <3>2. a \in Nat
      BY <1>7, <3>1, Product
    <3>3. s * w <= a /\ a < (s * w) + s
      <4> DEFINE z == s * w
      <4>1. a = z /\ s > 0 /\ s \in Nat
        BY <1>7, <3>1
      <4> HIDE DEF z
      <4>2. z <= a /\ a < z + s
        BY <3>2, <4>1
      <4> QED
        BY <4>2 DEF z
    <3>4. a \div s = w
      BY <1>7, <3>1, <3>2, <3>3, Quotient
    <3> QED
      BY <3>4 DEF w, a
  <2>6. CommOf(op, e, i, t) = <<e, i, u>>
    <3>1. Origin(op, e, i) = i /\ s # 1
      BY <1>2, <1>3, OriginFacts DEF Made, s
    <3> QED
      BY <1>3, <3>1 DEF CommOf, u, s
  <2> QED
    BY <1>6, <2>4, <2>5, <2>6
<1>19. CommOf(op, e, i, t) # NULL
  BY <1>2, <1>3, CommFacts
<1> QED
  BY <1>2, <1>14, <1>17, <1>18, <1>19 DEF e, i, n, x

\* SplitAttach keeps the invariant: see ReaderFacts.
LEMMA DoSplitAttach ==
    ASSUME IInv, op' = op, NEW t \in Threads, SplitAttach(t)
    PROVE  IInv'
<1> USE DEF IInv
<1> DEFINE e == epoch[t]
           n == Len(nodes[t])
           i == n + 1
           k == Par(op, e, i)
           q == <<e, i, 0>>
<1>1. /\ pc[t] = "attach"
      /\ Attach(t, arrays[new_comms[t]].elem[ChildWork(t)], TRUE)
      /\ Barrier(t, Parent(t), "drop")
      /\ comms' = comms /\ arrays' = arrays /\ orig_sense' = orig_sense
      /\ epoch' = epoch /\ gone' = gone /\ new_comms' = new_comms /\ worked' = worked
      /\ ~ InBarrier(t) /\ Point(t) = "attach"
  BY DEF SplitAttach, shared, InBarrier, Point
<1>2. PointOk(t) /\ FreedOk(t) /\ ReceivedOk(t)
  BY DEF ThreadInv
<1>3. /\ op \in Operations /\ e \in 1 .. Len(op.trees) /\ e \in Nat /\ n \in Nat \ {0}
      /\ i \in NodesOf(op, e) /\ worked[t] = 0 /\ i # 1 /\ Len(op.work) \in Nat
      /\ Made(op, e, i) /\ i \in Nat /\ i = n + 1
  <2>1. /\ op \in Operations /\ e \in 1 .. Len(op.trees) /\ n \in Nat \ {0} /\ n \in NodesOf(op, e)
    BY Here
  <2>2. Len(op.work) \in Nat
    BY <2>1, TreeFacts
  <2> QED
    BY <1>1, <1>2, <2>1, <2>2 DEF PointOk
<1>4. k \in DOMAIN nodes[t] /\ k \in NodesOf(op, e) /\ Parent(t) = nodes[t][k]
  <2>1. i \in NodesOf(op, epoch[t])
    BY <1>3
  <2> QED
    BY <2>1, SplitFacts
<1>5. /\ arrays[new_comms[t]].elem[ChildWork(t)] = CommOf(op, e, i, t)
      /\ new_comms[t] = ArrayOf(t, i)
  BY <1>1, ReaderFacts
<1>6. /\ Len(nodes'[t]) = i
      /\ nodes'[t] = [j \in 1 .. i |-> NodeOf(op, e, j, t)]
      /\ DOMAIN nodes' = Threads
      /\ \A u \in Threads \ {t} : nodes'[u] = nodes[u]
  <2>1. TRUE = Made(op, e, i)
    BY <1>3 DEF Made
  <2>2. PICK comm : comm = arrays[new_comms[t]].elem[ChildWork(t)]
    OBVIOUS
  <2>3. Attach(t, comm, TRUE) /\ comm = CommOf(op, e, i, t)
    BY <1>1, <1>5, <2>2
  <2> QED
    BY <1>3, <2>1, <2>3, AttachEffect
<1>7. /\ Point(t)' = "drop" /\ pc'[t] # "spin" /\ pc'[t] \in {"drop", "arrive"}
      /\ pc' \in [Threads -> Points \cup {"arrive", "spin"}]
      /\ ret' \in [Threads -> Points] /\ at' \in [Threads -> Nat \X Nat \X Nat]
      /\ \A u \in Threads \ {t} : pc'[u] = pc[u] /\ ret'[u] = ret[u] /\ at'[u] = at[u]
  <2>1. "drop" \in Points
    BY DEF Points
  <2> QED
    BY <1>1, <1>4, <2>1, BarrierEffect
<1>8. Others(t)
  BY <1>1, <1>6, <1>7 DEF Others
<1>9. Typed'
  BY <1>1, <1>6, <1>7 DEF Typed
<1>10. Place(t) = <<e, n, 3>> /\ Place(t)' = q
  BY <1>1, <1>6, <1>7 DEF Place, StageOf
<1> HIDE DEF e, n, k
<1>11. q \in Places(op)
  BY <1>3 DEF Places
<1>12. /\ InBarrier(t)' <=> BarrierAt(op, Place(t)')
       /\ at'[t] = CommAt(op, Place(t)', t)
  <2>1. q[1] = epoch[t] /\ q[2] \in NodesOf(op, q[1]) /\ q[3] = 0 /\ q[2] # 1
    BY <1>3 DEF e
  <2>2. NodeAt(op, q) = k
    BY DEF NodeAt, k
  <2>3. "drop" \in Points /\ Barrier(t, nodes[t][k], "drop")
    BY <1>1, <1>4 DEF Points
  <2> HIDE DEF q
  <2> QED
    BY <1>4, <1>10, <1>11, <2>1, <2>2, <2>3, BarrierMove
<1>13. Advance(t) /\ Quiet(t, 1) /\ Quiet(t, 3)
  <2>1. Before(Place(t), Place(t)')
    BY <1>3, <1>10 DEF Before
  <2>2. ASSUME NEW b \in Places(op), BarrierAt(op, b), Before(Place(t), b), Before(b, Place(t)')
        PROVE  FALSE
    <3>1. b[1] \in Nat /\ b[2] \in Nat /\ b[3] \in Nat
      BY <1>3, PlacesAreTriples
    <3>2. b[1] = e /\ b[2] = n /\ b[3] > 3
      BY <1>3, <1>10, <2>2, <3>1 DEF Before
    <3>3. b[2] # Len(op.trees[b[1]]) + 1
      BY <1>3, <3>2 DEF NodesOf
    <3> QED
      BY <2>2, <3>1, <3>2, <3>3 DEF BarrierAt
  <2>3. (Place(t)')[3] # 1 /\ (Place(t)')[3] # 3
    BY <1>10
  <2> QED
    BY <1>10, <1>11, <1>12, <2>1, <2>2, <2>3, Advances
<1>14. SyncInv'
  BY <1>1, <1>7, <1>8, <1>10, <1>11, <1>13, NothingMoves, MoveSync
<1>15. NodesOk(t)'
  BY <1>1, <1>3, <1>6 DEF NodesOk, e
<1>16. PointOk(t)'
  BY <1>1, <1>3, <1>6, <1>7, <1>12 DEF PointOk, e
<1>17. FreedOk(t)'
  BY <1>1, <1>2, <1>7 DEF FreedOk
<1>18. ReceivedOk(t)'
  BY <1>1, <1>5, <1>6, <1>7 DEF ReceivedOk, ArrayOf
<1>19. SentOk(t)'
  BY <1>7 DEF SentOk
<1>20. ASSUME NEW a \in MadeArrays, a[3] = t
       PROVE  Kept(a[1], a[2], t)' <=> Kept(a[1], a[2], t)
  <2>1. /\ a[1] \in Nat /\ a[2] \in Nat
        /\ ~ Before(Place(t), <<a[1], a[2] - 1, 1>>)
    BY <1>20 DEF MadeArrays, Offered
  <2>2. Len(nodes[t]) = n /\ epoch[t] = e
    BY DEF n, e
  <2>3. ~ (a[1] = e /\ i = a[2] - 1)
    BY <1>3, <1>10, <2>1 DEF Before
  <2>4. Kept(a[1], a[2], t) <=> a[1] = e /\ n = a[2] - 1
    BY <1>1, <2>2 DEF Kept
  <2>5. Kept(a[1], a[2], t)' <=> a[1] = e /\ (i = a[2] - 1 \/ i = a[2])
    BY <1>1, <1>6, <1>7, <2>2 DEF Kept
  <2>6. n = a[2] - 1 <=> i = a[2]
    BY <1>3, <2>1
  <2> QED
    BY <2>3, <2>4, <2>5, <2>6
<1>21. pc[t] # "done" /\ epoch'[t] = epoch[t] /\ gone'[t] = gone[t]
  BY <1>1
<1> HIDE DEF IInv
<1> QED
  BY <1>1, <1>8, <1>9, <1>13, <1>14, <1>15, <1>16, <1>17, <1>18, <1>19, <1>20, <1>21, ThreadOnly

\* The chiefs of different teams use different communicators.
LEMMA OtherChiefs ==
    ASSUME NEW o \in Operations, NEW t \in Threads, NEW u \in Threads, t # u,
           NEW e \in 1 .. Len(o.trees), NEW i \in NodesOf(o, e), SizeOf(o, e, i) # 1,
           NEW d \in 1 .. Len(o.trees), NEW j \in NodesOf(o, d),
           t % SizeOf(o, e, i) = 0, u % SizeOf(o, d, j) = 0
    PROVE  CommOf(o, e, i, t) # CommOf(o, d, j, u)
<1> SUFFICES ASSUME CommOf(o, e, i, t) = CommOf(o, d, j, u) PROVE FALSE
  OBVIOUS
<1>1. t \in Nat /\ u \in Nat /\ NT \in Nat \ {0}
  BY TreesAssumption DEF Threads
<1>2. SizeOf(o, d, j) # 1
  <2> SUFFICES ASSUME SizeOf(o, d, j) = 1 PROVE FALSE
    OBVIOUS
  <2>1. CommOf(o, d, j, u) \in {GL_COMM, SINGLE_COMM}
    BY CommFacts
  <2>2. CommOf(o, e, i, t) # SINGLE_COMM
    BY CommFacts
  <2>3. CommOf(o, d, j, u) = GL_COMM /\ CommOf(o, e, i, t) = GL_COMM
    BY <2>1, <2>2
  <2>4. SizeOf(o, d, j) = NT
    BY <2>3, CommFacts
  <2>5. SizeOf(o, e, i) = NT
    BY <2>3, CommFacts
  <2> QED
    BY <2>4, <2>5
<1>3. SizeOf(o, e, i) = SizeOf(o, d, j)
      /\ Base(t, SizeOf(o, e, i)) = Base(u, SizeOf(o, e, i))
  BY <1>2, SameComm
<1>4. t - 0 = u - 0
  BY <1>3 DEF Base
<1> QED
  BY <1>1, <1>4

\* How far a thread is with the barriers of splits when it comes to the next
LEMMA StageCrossed ==
    ASSUME NEW t, NEW e \in Nat, NEW n \in Nat, NEW d \in Nat, NEW j \in Nat
    PROVE  /\ Place(t) = <<e, n, 0>> /\ Place(t)' = <<e, n, 1>> =>
                (Offered(d, j, t)' <=> Offered(d, j, t) \/ (d = e /\ j = n + 1))
           /\ Place(t) = <<e, n, 2>> /\ Place(t)' = <<e, n, 3>> =>
                (Filled(d, j, t)' <=> Filled(d, j, t) \/ (d = e /\ j = n + 1))
<1> PICK p, q : p = Place(t) /\ q = Place(t)'
  OBVIOUS
<1>1. p = <<e, n, 0>> /\ q = <<e, n, 1>> =>
        (~ Before(q, <<d, j - 1, 1>>) <=> ~ Before(p, <<d, j - 1, 1>>) \/ (d = e /\ j = n + 1))
  BY DEF Before
<1>2. p = <<e, n, 2>> /\ q = <<e, n, 3>> =>
        (~ Before(q, <<d, j - 1, 3>>) <=> ~ Before(p, <<d, j - 1, 3>>) \/ (d = e /\ j = n + 1))
  BY DEF Before
<1> QED
  BY <1>1, <1>2 DEF Offered, Filled

\* SplitBcast keeps the invariant: the chief's array is new.
LEMMA DoSplitBcast ==
    ASSUME IInv, op' = op, NEW t \in Threads, SplitBcast(t)
    PROVE  IInv'
<1> USE DEF IInv
<1> DEFINE e == epoch[t]
           n == Len(nodes[t])
           i == n + 1
           k == Par(op, e, i)
           m == SizeOf(op, e, k)
           c == CommOf(op, e, k, t)
           x == <<e, i, t>>
           chief == t % m = 0
           object == [live |-> TRUE, elem |-> NoComms]
<1>1. /\ pc[t] = "grow" /\ n # Len(op.trees[e]) + 1
      /\ Split(t).way \notin {1, Parent(t).num_threads}
      /\ IF Parent(t).thread_id = 0
           THEN /\ arrays' = With(arrays, Name(t), object)
                /\ comms' = [comms EXCEPT ![Parent(t).comm].sent_object = Name(t)]
           ELSE arrays' = arrays /\ comms' = comms
      /\ Barrier(t, Parent(t), "receive")
      /\ orig_sense' = orig_sense /\ nodes' = nodes
      /\ epoch' = epoch /\ gone' = gone /\ new_comms' = new_comms /\ worked' = worked
      /\ ~ InBarrier(t) /\ Point(t) = "grow"
  BY DEF SplitBcast, TreeDone, shared, treeVars, InBarrier, Point
<1>2. /\ op \in Operations /\ e \in 1 .. Len(op.trees) /\ e \in Nat /\ n \in Nat \ {0}
      /\ i \in NodesOf(op, e) /\ i # 1 /\ i \in Nat /\ i - 1 = n /\ t \in Nat /\ i = n + 1
  <2>1. /\ op \in Operations /\ e \in 1 .. Len(op.trees) /\ n \in Nat \ {0} /\ n \in NodesOf(op, e)
    BY Here
  <2>2. Len(op.trees[e]) \in Nat
    BY <2>1, TreeFacts
  <2> QED
    BY <1>1, <2>1, <2>2 DEF NodesOf, Threads
<1>3. /\ k \in DOMAIN nodes[t] /\ k \in NodesOf(op, e)
      /\ Parent(t).comm = c /\ Name(t) = x /\ Made(op, e, i)
      /\ (Parent(t).thread_id = 0 <=> chief)
  <2>1. i \in NodesOf(op, epoch[t])
    BY <1>2
  <2> QED
    BY <1>1, <2>1, SplitFacts
<1>4. c \in DOMAIN comms /\ m # 1
  <2>1. c \in DOMAIN comms
    BY <1>3, TeamComms
  <2>2. m # 1
    <3>1. 1 \in 1 .. 3
      OBVIOUS
    <3>2. BarrierAt(op, <<e, i - 1, 1>>) /\ SizeAt(op, <<e, i - 1, 1>>) = m
      BY <1>2, <1>3, <3>1, SplitBarriers
    <3> QED
      BY <3>2 DEF BarrierAt, SizeAt
  <2> QED
    BY <2>1, <2>2
<1>5. /\ Place(t) = <<e, n, 0>> /\ Place(t)' = <<e, n, 0 + 1>>
      /\ Place(t)' \in Places(op) /\ Point(t)' = "receive"
      /\ pc'[t] # "spin"
      /\ pc' \in [Threads -> Points \cup {"arrive", "spin"}]
      /\ ret' \in [Threads -> Points] /\ at' \in [Threads -> Nat \X Nat \X Nat]
      /\ \A u \in Threads \ {t} : pc'[u] = pc[u] /\ ret'[u] = ret[u] /\ at'[u] = at[u]
      /\ Advance(t) /\ Quiet(t, 3)
      /\ NodesOk(t)' /\ PointOk(t)' /\ FreedOk(t)'
  <2>1. 0 \in 0 .. 2 /\ 3 \in Nat \ {0 + 1}
    OBVIOUS
  <2>2. i \in NodesOf(op, epoch[t]) /\ Made(op, epoch[t], i)
    BY <1>2, <1>3
  <2> QED
    BY <1>1, <2>1, <2>2, StageStep
<1>6. /\ chief => /\ arrays' = With(arrays, x, object)
                  /\ comms' = [comms EXCEPT ![c].sent_object = x]
      /\ ~ chief => arrays' = arrays /\ comms' = comms
  BY <1>1, <1>3
<1>7. epoch[t] = e /\ Len(nodes[t]) = n
  OBVIOUS
<1>8. x \in Nat \X Nat \X Nat /\ NoComms \in [Threads -> (Nat \X Nat \X Nat) \cup {NULL}]
  BY <1>2 DEF NoComms
<1> HIDE DEF e, n, i, k, m, c, chief
<1>9. /\ DOMAIN comms' = DOMAIN comms
      /\ \A d \in DOMAIN comms :
            /\ comms'[d] \in CommType /\ comms'[d].live = comms[d].live
            /\ comms'[d].n_threads = comms[d].n_threads
            /\ comms'[d].arrived = comms[d].arrived /\ comms'[d].sense = comms[d].sense
            /\ ~ (chief /\ d = c) => comms'[d].sent_object = comms[d].sent_object
      /\ chief => comms'[c].sent_object = x
  <2>1. CASE chief
    <3>1. /\ DOMAIN comms' = DOMAIN comms
          /\ \A d \in DOMAIN comms : d # c => comms'[d] = comms[d]
          /\ comms'[c] = [comms[c] EXCEPT !.sent_object = x]
      BY <1>4, <1>6, <2>1
    <3>2. /\ comms'[c] \in CommType /\ comms'[c].live = comms[c].live
          /\ comms'[c].n_threads = comms[c].n_threads
          /\ comms'[c].arrived = comms[c].arrived /\ comms'[c].sense = comms[c].sense
          /\ comms'[c].sent_object = x
      <4>1. comms[c] \in CommType
        BY <1>4 DEF Typed
      <4> QED
        BY <1>8, <3>1, <4>1 DEF CommType
    <3> QED
      BY <2>1, <3>1, <3>2 DEF Typed
  <2>2. CASE ~ chief
    BY <1>6, <2>2 DEF Typed
  <2> QED
    BY <2>1, <2>2
<1>10. /\ DOMAIN arrays' = DOMAIN arrays \cup (IF chief THEN {x} ELSE {})
       /\ \A a \in DOMAIN arrays : ~ (chief /\ a = x) => arrays'[a] = arrays[a]
       /\ chief => arrays'[x] = object
  <2>1. CASE chief
    <3> HIDE DEF x, object
    <3>1. arrays' = With(arrays, x, object)
      BY <1>6, <2>1
    <3>2. /\ DOMAIN arrays' = DOMAIN arrays \cup {x} /\ arrays'[x] = object
          /\ \A a \in DOMAIN arrays : a # x => arrays'[a] = arrays[a]
      BY <3>1 DEF With
    <3> QED
      BY <2>1, <3>2
  <2>2. CASE ~ chief
    BY <1>6, <2>2
  <2> QED
    BY <2>1, <2>2
<1>11. \A a \in DOMAIN arrays' : arrays'[a] \in ArrayType
  <2>1. object \in ArrayType
    BY <1>8 DEF ArrayType
  <2> QED
    BY <1>10, <2>1 DEF Typed
<1>12. Typed'
  BY <1>1, <1>5, <1>9, <1>11 DEF Typed
<1>13. Others(t)
  BY <1>1, <1>5 DEF Others
<1>14. BarriersKept
  BY <1>9, BarriersKeptAll
<1>15. SyncInv'
  BY <1>1, <1>5, <1>13, <1>14, MoveSync
\* Another chief has another communicator.
<1>16. SentKept(t)
  <2>1. ASSUME NEW u \in Threads \ {t}, NEW j \in DOMAIN nodes[u], u % SizeOf(op, epoch[u], j) = 0
        PROVE  comms'[CommOf(op, epoch[u], j, u)].sent_object
                    = comms[CommOf(op, epoch[u], j, u)].sent_object
    <3>1. /\ u \in Nat /\ epoch[u] \in 1 .. Len(op.trees) /\ j \in NodesOf(op, epoch[u])
          /\ CommOf(op, epoch[u], j, u) \in DOMAIN comms
      BY Here, TeamComms DEF Threads
    <3>2. ~ (chief /\ CommOf(op, epoch[u], j, u) = c)
      <4>1. e \in 1 .. Len(op.trees) /\ k \in NodesOf(op, e) /\ SizeOf(op, e, k) # 1
        BY <1>2, <1>3, <1>4 DEF m
      <4>2. t % SizeOf(op, e, k) = 0 => CommOf(op, e, k, t) # CommOf(op, epoch[u], j, u)
        BY <1>2, <2>1, <3>1, <4>1, OtherChiefs
      <4> QED
        BY <4>2 DEF chief, m, c
    <3> QED
      BY <1>9, <3>1, <3>2
  <2> QED
    BY <2>1 DEF SentKept
<1>17. ReceivedOk(t)'
  BY <1>5 DEF ReceivedOk
<1>18. SentOk(t)'
  <2>1. /\ epoch'[t] = e /\ Len(nodes'[t]) = n
    BY <1>1, <1>7
  <2>2. Par(op, e, n + 1) = k /\ n + 1 = i
    BY DEF k, i
  <2>3. t % SizeOf(op, e, k) = 0 => comms'[CommOf(op, e, k, t)].sent_object = <<e, n + 1, t>>
    BY <1>9, <2>2 DEF chief, c, m
  <2> QED
    BY <2>1, <2>2, <2>3 DEF SentOk
<1>19. ThreadInv'
  BY <1>5, <1>13, <1>16, <1>17, <1>18, ThreadStep
<1>20. CommsInv'
  BY <1>1, <1>5, <1>9, <1>13, CommsStep
<1>21. chief => x \notin MadeArrays
  <2> SUFFICES ASSUME x \in MadeArrays PROVE FALSE
    OBVIOUS
  <2>1. ~ Before(Place(t), <<e, i - 1, 1>>)
    BY DEF MadeArrays, Offered
  <2> QED
    BY <1>2, <1>5, <2>1 DEF Before
<1>22. MadeArrays' = MadeArrays \cup (IF chief THEN {x} ELSE {})
  <2>1. ASSUME NEW a \in (1 .. Len(op.trees)) \X Nat \X Threads,
               a[2] \in NodesOf(op, a[1]), Made(op, a[1], a[2]),
               a[3] % SizeOf(op, a[1], Par(op, a[1], a[2])) = 0
        PROVE  Offered(a[1], a[2], a[3])'
                <=> Offered(a[1], a[2], a[3]) \/ (chief /\ a = x)
    <3>1. a[1] \in Nat /\ a[2] \in Nat /\ a[3] \in Threads /\ a = <<a[1], a[2], a[3]>>
      BY <1>2
    <3>2. CASE a[3] # t
      <4>1. a # x
        BY <3>1, <3>2
      <4> QED
        BY <3>1, <3>2, <4>1, OtherPlaces, <1>13 DEF Offered
    <3>3. CASE a[3] = t
      <4>1. Offered(a[1], a[2], t)'
                <=> Offered(a[1], a[2], t) \/ (a[1] = e /\ a[2] = n + 1)
        <5>1. Place(t) = <<e, n, 0>> /\ Place(t)' = <<e, n, 1>>
          BY <1>5
        <5>2. PICK f, g : f = e /\ g = n
          OBVIOUS
        <5>3. f \in Nat /\ g \in Nat /\ a[1] \in Nat /\ a[2] \in Nat
          BY <1>2, <3>1, <5>2
        <5>4. Offered(a[1], a[2], t)' <=> Offered(a[1], a[2], t) \/ (a[1] = f /\ a[2] = g + 1)
          BY <5>1, <5>2, <5>3, StageCrossed
        <5> QED
          BY <5>2, <5>4
      <4>2. (a[1] = e /\ a[2] = n + 1) <=> a = x
        BY <1>2, <3>1, <3>3
      <4>3. a = x => chief
        BY <1>2, <2>1, <3>1, <3>3, <4>2 DEF chief, m, k
      <4> QED
        BY <3>3, <4>1, <4>2, <4>3
    <3> QED
      BY <3>2, <3>3
  <2>2. chief => /\ x \in (1 .. Len(op.trees)) \X Nat \X Threads
                 /\ x[2] \in NodesOf(op, x[1]) /\ Made(op, x[1], x[2])
                 /\ x[3] % SizeOf(op, x[1], Par(op, x[1], x[2])) = 0
    BY <1>2, <1>3 DEF chief, m, k
  <2> HIDE DEF x
  <2> QED
    BY <2>1, <2>2 DEF MadeArrays
<1>23. ArraysInv'
  <2>1. DOMAIN arrays' = MadeArrays'
    BY <1>10, <1>22 DEF ArraysInv
  <2>2. ASSUME NEW a \in MadeArrays'
        PROVE  arrays'[a].live <=> Kept(a[1], a[2], a[3])'
    <3>1. CASE chief /\ a = x
      <4>1. a[1] = e /\ a[2] = i /\ a[3] = t
        BY <3>1
      <4>2. epoch'[t] = e /\ Len(nodes'[t]) = n /\ n = i - 1
        BY <1>1, <1>2, <1>7
      <4>3. Kept(a[1], a[2], a[3])'
        BY <4>1, <4>2 DEF Kept
      <4>4. arrays'[a].live
        BY <1>10, <3>1
      <4> QED
        BY <4>3, <4>4
    <3>2. CASE ~ (chief /\ a = x)
      <4>1. a \in MadeArrays /\ a \in DOMAIN arrays /\ a[3] \in Threads
        BY <1>22, <3>2 DEF ArraysInv, MadeArrays
      <4>2. Kept(a[1], a[2], a[3])' <=> Kept(a[1], a[2], a[3])
        <5>1. CASE a[3] = t
          BY <1>1, <1>5, <5>1 DEF Kept
        <5>2. CASE a[3] # t
          BY <1>13, <4>1, <5>2, OtherPlaces DEF Kept, Others
        <5> QED
          BY <5>1, <5>2
      <4>3. arrays'[a] = arrays[a]
        BY <1>10, <3>2, <4>1
      <4> QED
        BY <4>1, <4>2, <4>3 DEF ArraysInv
    <3> QED
      BY <3>1, <3>2
  <2>3. ASSUME NEW a \in MadeArrays', NEW u \in Threads,
               Base(u, SizeOf(op, a[1], Par(op, a[1], a[2]))) = a[3],
               u % SizeOf(op, a[1], a[2]) = 0, Filled(a[1], a[2], u)'
        PROVE  arrays'[a].elem[(u % SizeOf(op, a[1], Par(op, a[1], a[2])))
                                  \div SizeOf(op, a[1], a[2])] = <<a[1], a[2], u>>
    <3>1. /\ a[1] \in 1 .. Len(op.trees) /\ a[2] \in NodesOf(op, a[1]) /\ Made(op, a[1], a[2])
      <4>1. a \in MadeArrays \/ (chief /\ a = x)
        BY <1>22
      <4>2. x[1] = e /\ x[2] = i
        OBVIOUS
      <4> QED
        BY <1>2, <1>3, <4>1, <4>2 DEF MadeArrays
    <3>2. Filled(a[1], a[2], u)
      BY <1>5, <1>13, <2>3, <3>1, FilledSame
    <3>3. ~ (chief /\ a = x)
      <4> SUFFICES ASSUME chief, a = x PROVE FALSE
        OBVIOUS
      <4>1. a[1] = e /\ a[2] = i /\ a[3] = t
        OBVIOUS
      <4> DEFINE b == <<e, i - 1, 1>>
                 r == <<e, i - 1, 3>>
      <4>2. BarrierAt(op, b) /\ SizeAt(op, b) = m /\ b \in Places(op) /\ b \in Nat \X Nat \X Nat
        <5>1. 1 \in 1 .. 3
          OBVIOUS
        <5> QED
          BY <1>2, <1>3, <5>1, SplitBarriers, PlacesAreTriples DEF m, k
      <4>3. Base(u, m) = t /\ Base(t, m) = t
        BY <1>2, <2>3, <4>1 DEF m, k, Base, chief
      <4>4. Before(b, Place(u))
        <5>1. ~ Before(Place(u), r)
          BY <3>2, <4>1 DEF Filled
        <5>2. Before(b, r) /\ r \in Nat \X Nat \X Nat
          BY <1>2 DEF Before
        <5>3. Place(u) \in Nat \X Nat \X Nat
          BY <1>2, Here, PlacesAreTriples
        <5> QED
          BY <4>2, <5>1, <5>2, <5>3, Order
      <4>5. Arrived(t, b)
        BY <4>2, <4>3, <4>4 DEF SyncInv, Synced, Peers, Past
      <4>6. Before(b, Place(t)) \/ b = Place(t)
        BY <4>5 DEF Arrived
      <4> QED
        BY <1>2, <1>5, <4>6 DEF Before
    <3>4. a \in MadeArrays /\ a \in DOMAIN arrays
      BY <1>22, <3>3 DEF ArraysInv
    <3>5. arrays'[a] = arrays[a]
      BY <1>10, <3>3, <3>4
    <3> QED
      BY <2>3, <3>2, <3>4, <3>5 DEF ArraysInv
  <2> QED
    BY <2>1, <2>2, <2>3 DEF ArraysInv
<1> QED
  BY <1>12, <1>15, <1>19, <1>20, <1>23

\* The new teams have different work ids.
LEMMA OneChief ==
    ASSUME NEW o \in Operations, NEW e \in 1 .. Len(o.trees), NEW i \in NodesOf(o, e), i # 1,
           NEW t \in Threads, NEW u \in Threads,
           NEW m, m = SizeOf(o, e, Par(o, e, i)), NEW s, s = SizeOf(o, e, i),
           Base(t, m) = Base(u, m), (t % m) \div s = (u % m) \div s,
           t % s = 0, u % s = 0
    PROVE  t = u
<1>1. Base(t, s) = Base(t, m) + s * ((t % m) \div s)
  BY ParentTeams
<1>2. Base(u, s) = Base(u, m) + s * ((u % m) \div s)
  BY ParentTeams
<1>3. Base(t, s) = Base(u, s)
  BY <1>1, <1>2
<1>4. t - 0 = u - 0
  BY <1>3 DEF Base
<1>5. t \in Nat /\ u \in Nat
  BY TreesAssumption DEF Threads
<1> QED
  BY <1>4, <1>5

\* SplitFill keeps the invariant: no two chiefs write the same element.
LEMMA DoSplitFill ==
    ASSUME IInv, op' = op, NEW t \in Threads, SplitFill(t)
    PROVE  IInv'
<1> USE DEF IInv
<1> DEFINE e == epoch[t]
           n == Len(nodes[t])
           i == n + 1
           k == Par(op, e, i)
           m == SizeOf(op, e, k)
           s == SizeOf(op, e, i)
           c == CommOf(op, e, k, t)
           w == (t % m) \div s
           x == ArrayOf(t, i)
           y == <<e, i, t>>
           chief == t % s = 0
           new == NewComm(s)
<1>1. /\ pc[t] = "fill"
      /\ IF ChildId(t) = 0
           THEN /\ comms' = With(comms, Name(t), NewComm(ChildSize(t)))
                /\ arrays' = [arrays EXCEPT ![new_comms[t]].elem[ChildWork(t)] = Name(t)]
           ELSE arrays' = arrays /\ comms' = comms
      /\ Barrier(t, Parent(t), "attach")
      /\ orig_sense' = orig_sense /\ nodes' = nodes
      /\ epoch' = epoch /\ gone' = gone /\ new_comms' = new_comms /\ worked' = worked
      /\ ~ InBarrier(t) /\ Point(t) = "fill"
  BY DEF SplitFill, shared, treeVars, InBarrier, Point
<1>2. /\ op \in Operations /\ e \in 1 .. Len(op.trees) /\ e \in Nat /\ e # 0 /\ n \in Nat \ {0}
      /\ i \in NodesOf(op, e) /\ i # 1 /\ i \in Nat /\ i - 1 = n /\ t \in Nat /\ i = n + 1
      /\ Made(op, e, i) /\ gone[t] = {}
  <2>1. /\ op \in Operations /\ e \in 1 .. Len(op.trees) /\ n \in Nat \ {0}
    BY Here
  <2>2. i \in NodesOf(op, e) /\ Made(op, e, i) /\ gone[t] = {}
    BY <1>1 DEF ThreadInv, PointOk, FreedOk
  <2> QED
    BY <2>1, <2>2 DEF Threads
<1>3. /\ k \in DOMAIN nodes[t] /\ k \in NodesOf(op, e)
      /\ Name(t) = y /\ ChildSize(t) = s /\ ChildWork(t) = w
      /\ (ChildId(t) = 0 <=> chief)
  <2>1. i \in NodesOf(op, epoch[t])
    BY <1>2
  <2> QED
    BY <2>1, SplitFacts
<1>4. new_comms[t] = x /\ x \in MadeArrays /\ x \in DOMAIN arrays /\ x = <<e, i, Base(t, m)>>
  BY <1>1, ReaderFacts DEF ArrayOf
<1>5. /\ Place(t) = <<e, n, 2>> /\ Place(t)' = <<e, n, 3>>
      /\ Place(t)' \in Places(op) /\ Point(t)' = "attach"
      /\ pc'[t] # "spin"
      /\ pc' \in [Threads -> Points \cup {"arrive", "spin"}]
      /\ ret' \in [Threads -> Points] /\ at' \in [Threads -> Nat \X Nat \X Nat]
      /\ \A u \in Threads \ {t} : pc'[u] = pc[u] /\ ret'[u] = ret[u] /\ at'[u] = at[u]
      /\ Advance(t) /\ Quiet(t, 1)
      /\ NodesOk(t)' /\ PointOk(t)' /\ FreedOk(t)'
  <2>1. 2 \in 0 .. 2 /\ 1 \in Nat \ {2 + 1} /\ 2 + 1 = 3
    OBVIOUS
  <2>2. i \in NodesOf(op, epoch[t]) /\ Made(op, epoch[t], i)
    BY <1>2
  <2> QED
    <3>1. /\ Place(t) = <<epoch[t], Len(nodes[t]), 2>> /\ Place(t)' = <<epoch[t], Len(nodes[t]), 2 + 1>>
          /\ Place(t)' \in Places(op) /\ Point(t)' = "attach"
          /\ pc'[t] # "spin"
          /\ pc' \in [Threads -> Points \cup {"arrive", "spin"}]
          /\ ret' \in [Threads -> Points] /\ at' \in [Threads -> Nat \X Nat \X Nat]
          /\ \A u \in Threads \ {t} : pc'[u] = pc[u] /\ ret'[u] = ret[u] /\ at'[u] = at[u]
          /\ Advance(t) /\ Quiet(t, 1)
          /\ NodesOk(t)' /\ PointOk(t)' /\ FreedOk(t)'
      <4>1. /\ pc[t] = IF 2 = 0 THEN "grow" ELSE IF 2 = 1 THEN "receive" ELSE "fill"
            /\ "attach" = IF 2 = 0 THEN "receive" ELSE IF 2 = 1 THEN "fill" ELSE "attach"
            /\ Barrier(t, Parent(t), "attach") /\ nodes'[t] = nodes[t] /\ epoch'[t] = epoch[t]
            /\ worked'[t] = worked[t] /\ gone'[t] = gone[t]
        BY <1>1
      <4>2. Len(nodes[t]) + 1 \in NodesOf(op, epoch[t]) /\ Made(op, epoch[t], Len(nodes[t]) + 1)
        BY <2>2
      <4> HIDE DEF e, n, i, k, m, s, c, w, x, y, chief, new
      <4> QED
        BY <2>1, <4>1, <4>2, StageStep
    <3> QED
      BY <2>1, <3>1
<1>6. /\ chief => /\ arrays' = [arrays EXCEPT ![x].elem[w] = y]
                  /\ comms' = With(comms, y, new)
      /\ ~ chief => arrays' = arrays /\ comms' = comms
  BY <1>1, <1>3, <1>4
<1>7. epoch[t] = e /\ Len(nodes[t]) = n
  OBVIOUS
<1>8. /\ m \in Nat \ {0} /\ s \in Nat \ {0} /\ w \in Threads
      /\ y \in Nat \X Nat \X Nat
      /\ new \in CommType /\ new.live /\ new.n_threads = s /\ new.arrived = 0
  <2>1. m \in Nat \ {0} /\ s \in Nat \ {0} /\ w \in Threads
    BY <1>2, ParentTeams
  <2> HIDE DEF s
  <2> QED
    BY <1>2, <2>1 DEF NewComm, CommType
<1>9. c \in DOMAIN comms
  BY <1>3, TeamComms
<1>10. y[1] = e /\ y[2] = i /\ y[3] = t /\ x[1] = e /\ x[2] = i /\ x[3] = Base(t, m)
  BY <1>4
<1> HIDE DEF e, n, i, k, m, s, c, w, x, chief, new
<1>11. y \notin DOMAIN comms
  <2>1. y # GL_COMM /\ y # SINGLE_COMM
    BY <1>2 DEF GL_COMM, SINGLE_COMM
  <2>2. y \notin MadeComms
    <3> SUFFICES ASSUME y \in MadeComms PROVE FALSE
      OBVIOUS
    <3>1. ~ Before(Place(t), <<e, i - 1, 3>>)
      BY DEF MadeComms, Filled
    <3> QED
      BY <1>2, <1>5, <3>1 DEF Before
  <2> QED
    BY <2>1, <2>2 DEF CommsInv
<1>12. /\ DOMAIN comms' = DOMAIN comms \cup (IF chief THEN {y} ELSE {})
       /\ \A d \in DOMAIN comms : comms'[d] = comms[d]
       /\ chief => comms'[y] = new
  <2>1. CASE chief
    <3> HIDE DEF y
    <3>1. comms' = With(comms, y, new)
      BY <1>6, <2>1
    <3>2. /\ DOMAIN comms' = DOMAIN comms \cup {y} /\ comms'[y] = new
          /\ \A d \in DOMAIN comms : d # y => comms'[d] = comms[d]
      BY <3>1 DEF With
    <3> QED
      BY <1>11, <2>1, <3>2
  <2>2. CASE ~ chief
    BY <1>6, <2>2
  <2> QED
    BY <2>1, <2>2
<1>13. /\ DOMAIN arrays' = DOMAIN arrays
       /\ \A a \in DOMAIN arrays :
            /\ arrays'[a] \in ArrayType /\ arrays'[a].live = arrays[a].live
            /\ ~ (chief /\ a = x) => arrays'[a] = arrays[a]
       /\ chief => /\ arrays'[x].elem[w] = y
                   /\ \A v \in Threads : v # w => arrays'[x].elem[v] = arrays[x].elem[v]
  <2>1. CASE chief
    <3>1. arrays' = [arrays EXCEPT ![x].elem[w] = y]
      BY <1>6, <2>1
    <3>2. arrays[x] \in ArrayType /\ \A a \in DOMAIN arrays : arrays[a] \in ArrayType
      BY <1>4 DEF Typed
    <3>3. /\ DOMAIN arrays' = DOMAIN arrays /\ \A a \in DOMAIN arrays : a # x => arrays'[a] = arrays[a]
          /\ arrays'[x] \in ArrayType /\ arrays'[x].live = arrays[x].live
          /\ arrays'[x].elem[w] = y
          /\ \A v \in Threads : v # w => arrays'[x].elem[v] = arrays[x].elem[v]
      <4> PICK f, g, a, z, v : f = arrays /\ g = arrays' /\ a = x /\ z = y /\ v = w
        OBVIOUS
      <4>1. g = [f EXCEPT ![a].elem[v] = z]
        BY <3>1
      <4>2. a \in DOMAIN f
        BY <1>4
      <4>3. f[a] \in ArrayType
        BY <3>2
      <4>4. v \in Threads
        BY <1>8
      <4>5. z \in Nat \X Nat \X Nat
        BY <1>8
      <4>6. /\ DOMAIN g = DOMAIN f /\ \A b \in DOMAIN f : b # a => g[b] = f[b]
            /\ g[a] \in ArrayType /\ g[a].live = f[a].live
            /\ g[a].elem[v] = z
            /\ \A b \in Threads : b # v => g[a].elem[b] = f[a].elem[b]
        <5>1. DOMAIN g = DOMAIN f /\ \A b \in DOMAIN f : b # a => g[b] = f[b]
          BY <4>1
        <5>2. g[a] = [f[a] EXCEPT !.elem[v] = z]
          BY <4>1, <4>2
        <5> DEFINE r == f[a]
        <5>3. r \in ArrayType /\ g[a] = [r EXCEPT !.elem[v] = z]
          BY <4>3, <5>2
        <5> HIDE DEF r
        <5>4. /\ r.elem \in [Threads -> (Nat \X Nat \X Nat) \cup {NULL}] /\ r.live \in BOOLEAN
              /\ g[a] = [live |-> r.live, elem |-> [r.elem EXCEPT ![v] = z]]
          BY <5>3 DEF ArrayType
        <5> DEFINE h == [r.elem EXCEPT ![v] = z]
        <5>5. /\ h \in [Threads -> (Nat \X Nat \X Nat) \cup {NULL}] /\ h[v] = z
              /\ \A b \in Threads : b # v => h[b] = r.elem[b]
          BY <4>4, <4>5, <5>4
        <5>6. g[a] = [live |-> r.live, elem |-> h]
          BY <5>4
        <5> HIDE DEF h
        <5>7. g[a].elem = h /\ g[a].live = r.live /\ g[a] \in ArrayType
          <6> DEFINE l == r.live
          <6>1. l \in BOOLEAN /\ g[a] = [live |-> l, elem |-> h]
            BY <5>4, <5>6
          <6> HIDE DEF l
          <6>2. g[a].elem = h /\ g[a].live = l
            BY <6>1
          <6>3. g[a] \in ArrayType
            BY <5>5, <6>1 DEF ArrayType
          <6> QED
            BY <6>2, <6>3 DEF l
        <5> QED
          BY <5>1, <5>5, <5>7 DEF r
      <4> QED
        BY <4>6
    <3> QED
      BY <2>1, <3>2, <3>3
  <2>2. CASE ~ chief
    BY <1>6, <2>2 DEF Typed
  <2> QED
    BY <2>1, <2>2
<1>14. Typed'
  <2>1. \A d \in DOMAIN comms' : comms'[d] \in CommType
    <3> HIDE DEF y
    <3> QED
      BY <1>8, <1>12 DEF Typed
  <2>2. \A a \in DOMAIN arrays' : arrays'[a] \in ArrayType
    BY <1>13
  <2> QED
    BY <1>1, <1>5, <2>1, <2>2 DEF Typed
<1>15. Others(t)
  BY <1>1, <1>5 DEF Others
<1>16. BarriersKept
  <2> HIDE DEF y
  <2> QED
    BY <1>8, <1>12 DEF BarriersKept
<1>17. SyncInv'
  BY <1>1, <1>5, <1>15, <1>16, MoveSync
<1>18. SentKept(t)
  BY <1>12, TeamComms DEF SentKept
<1>19. ReceivedOk(t)'
  <2>1. epoch'[t] = e /\ Len(nodes'[t]) = n /\ new_comms'[t] = x /\ Point(t)' = "attach"
    BY <1>1, <1>4, <1>5, <1>7
  <2>2. x = <<e, n + 1, Base(t, SizeOf(op, e, Par(op, e, n + 1)))>>
    BY <1>2, <1>4 DEF k, m
  <2> QED
    BY <2>1, <2>2 DEF ReceivedOk, ArrayOf
<1>20. SentOk(t)'
  <2>1. epoch'[t] = e /\ Len(nodes'[t]) = n
    BY <1>1, <1>7
  <2>2. Par(op, e, n + 1) = k /\ n + 1 = i
    BY DEF k, i
  <2>3. t % SizeOf(op, e, k) = 0 => comms[CommOf(op, e, k, t)].sent_object = <<e, n + 1, t>>
    BY <1>1, <1>7, <2>2 DEF ThreadInv, SentOk
  <2>4. comms'[CommOf(op, e, k, t)] = comms[CommOf(op, e, k, t)]
    BY <1>9, <1>12 DEF c
  <2> QED
    BY <2>1, <2>2, <2>3, <2>4 DEF SentOk
<1>21. ThreadInv'
  BY <1>5, <1>15, <1>18, <1>19, <1>20, ThreadStep
\* What t fills in, it and nobody else
<1>22. ASSUME NEW d \in Nat, NEW j \in Nat, NEW u \in Threads
       PROVE  Filled(d, j, u)' <=> Filled(d, j, u) \/ (u = t /\ d = e /\ j = i)
  <2>1. CASE u # t
    BY <1>15, <2>1, OtherPlaces DEF Filled
  <2>2. CASE u = t
    <3> PICK f, g : f = e /\ g = n
      OBVIOUS
    <3>1. f \in Nat /\ g \in Nat /\ Place(t) = <<f, g, 2>> /\ Place(t)' = <<f, g, 3>>
      BY <1>2, <1>5
    <3>2. Filled(d, j, t)' <=> Filled(d, j, t) \/ (d = f /\ j = g + 1)
      BY <3>1, StageCrossed
    <3> QED
      BY <1>2, <2>2, <3>2
  <2> QED
    BY <2>1, <2>2
<1>23. MadeComms' = MadeComms \cup (IF chief THEN {y} ELSE {})
  <2>1. ASSUME NEW b \in (1 .. Len(op.trees)) \X Nat \X Threads, b[2] \in ChiefOf(op, b[1], b[3])
        PROVE  Filled(b[1], b[2], b[3])' <=> Filled(b[1], b[2], b[3]) \/ (chief /\ b = y)
    <3>1. b[1] \in Nat /\ b[2] \in Nat /\ b[3] \in Threads /\ b = <<b[1], b[2], b[3]>>
      BY <1>2
    <3>2. (b[3] = t /\ b[1] = e /\ b[2] = i) <=> b = y
      BY <3>1
    <3>3. b = y => chief
      BY <2>1, <3>2 DEF ChiefOf, chief, s
    <3> QED
      BY <3>1, <1>22, <3>2, <3>3
  <2>2. chief => /\ y \in (1 .. Len(op.trees)) \X Nat \X Threads
                 /\ y[2] \in ChiefOf(op, y[1], y[3])
    BY <1>2 DEF chief, s, ChiefOf
  <2> HIDE DEF y
  <2> QED
    BY <2>1, <2>2 DEF MadeComms
<1>24. CommsInv'
  <2> HIDE DEF y
  <2>1. /\ GL_COMM \in DOMAIN comms /\ SINGLE_COMM \in DOMAIN comms /\ MadeComms \subseteq DOMAIN comms
    BY DEF CommsInv
  <2>2. DOMAIN comms' = {GL_COMM, SINGLE_COMM} \cup MadeComms'
    BY <1>12, <1>23 DEF CommsInv
  <2>3. comms'[GL_COMM].n_threads = NT
    BY <1>12, <2>1 DEF CommsInv
  <2>4. comms'[SINGLE_COMM].n_threads = 1 /\ comms'[SINGLE_COMM].live
    BY <1>12, <2>1 DEF CommsInv
  <2>5. comms'[GL_COMM].live
    BY <1>1, <1>12, <2>1 DEF CommsInv
  <2>6. ASSUME NEW b \in MadeComms'
        PROVE  /\ comms'[b].n_threads = SizeOf(op, b[1], b[2])
               /\ comms'[b].live <=> epoch[b[3]] = b[1] /\ b[2] \notin gone[b[3]]
    <3>1. CASE chief /\ b = y
      BY <1>2, <1>7, <1>8, <1>10, <1>12, <3>1 DEF s
    <3>2. CASE ~ (chief /\ b = y)
      <4>1. b \in MadeComms
        BY <1>23, <3>2
      <4> QED
        BY <1>12, <2>1, <4>1 DEF CommsInv
    <3> QED
      BY <3>1, <3>2
  <2> QED
    BY <1>1, <2>2, <2>3, <2>4, <2>5, <2>6 DEF CommsInv
<1>25. MadeArrays' = MadeArrays
  BY <1>5, <1>15, MadeArraysSame
<1>26. ArraysInv'
  <2>1. ASSUME NEW a \in MadeArrays
        PROVE  arrays'[a].live <=> Kept(a[1], a[2], a[3])'
    <3>1. a \in DOMAIN arrays /\ a[3] \in Threads
      BY DEF ArraysInv, MadeArrays
    <3>2. Kept(a[1], a[2], a[3])' <=> Kept(a[1], a[2], a[3])
      <4>1. CASE a[3] = t
        BY <1>1, <1>5, <4>1 DEF Kept
      <4>2. CASE a[3] # t
        BY <1>15, <3>1, <4>2, OtherPlaces DEF Kept, Others
      <4> QED
        BY <4>1, <4>2
    <3>3. arrays'[a].live = arrays[a].live
      BY <1>13, <3>1
    <3> QED
      BY <3>2, <3>3 DEF ArraysInv
  <2>2. ASSUME NEW a \in MadeArrays, NEW u \in Threads,
               NEW f, f = SizeOf(op, a[1], Par(op, a[1], a[2])), NEW g, g = SizeOf(op, a[1], a[2]),
               Base(u, f) = a[3], u % g = 0, Filled(a[1], a[2], u)'
        PROVE  arrays'[a].elem[(u % f) \div g] = <<a[1], a[2], u>>
    <3>1. /\ a[1] \in 1 .. Len(op.trees) /\ a[2] \in NodesOf(op, a[1]) /\ Made(op, a[1], a[2])
          /\ a[1] \in Nat /\ a[2] \in Nat /\ a = <<a[1], a[2], a[3]>> /\ a \in DOMAIN arrays /\ a[2] # 1
      BY <1>2 DEF MadeArrays, ArraysInv, Made
    <3>2. (u % f) \div g \in Threads
      BY <1>2, <2>2, <3>1, ParentTeams
    <3>3. CASE u = t /\ a[1] = e /\ a[2] = i
      <4>1. f = m /\ g = s
        BY <2>2, <3>3 DEF m, k, s
      <4>2. a = x /\ chief
        BY <1>4, <2>2, <3>1, <3>3, <4>1 DEF chief
      <4>3. (u % f) \div g = w
        BY <3>3, <4>1 DEF w
      <4> QED
        BY <1>13, <3>3, <4>2, <4>3
    <3>4. CASE ~ (u = t /\ a[1] = e /\ a[2] = i)
      <4>1. Filled(a[1], a[2], u)
        BY <1>22, <2>2, <3>1, <3>4
      <4>2. arrays[a].elem[(u % f) \div g] = <<a[1], a[2], u>>
        BY <2>2, <4>1 DEF ArraysInv
      <4>3. CASE chief /\ a = x
        <5>1. f = m /\ g = s /\ a[1] = e /\ a[2] = i /\ Base(u, m) = Base(t, m)
          BY <1>10, <2>2, <4>3 DEF m, k, s
        <5>2. (u % f) \div g # w
          <6> SUFFICES ASSUME (u % m) \div s = (t % m) \div s PROVE FALSE
            BY <5>1 DEF w
          <6>1. u % s = 0 /\ t % s = 0
            BY <2>2, <4>3, <5>1 DEF chief
          <6>2. u = t
            BY <1>2, <5>1, <6>1, OneChief DEF m, k, s
          <6> QED
            BY <3>4, <5>1, <6>2
        <5> QED
          BY <1>13, <3>2, <4>2, <4>3, <5>2
      <4>4. CASE ~ (chief /\ a = x)
        BY <1>13, <3>1, <4>2, <4>4
      <4> QED
        BY <4>3, <4>4
    <3> QED
      BY <3>3, <3>4
  <2>3. ASSUME NEW a \in MadeArrays', NEW u \in Threads,
               Base(u, SizeOf(op, a[1], Par(op, a[1], a[2]))) = a[3],
               u % SizeOf(op, a[1], a[2]) = 0, Filled(a[1], a[2], u)'
        PROVE  arrays'[a].elem[(u % SizeOf(op, a[1], Par(op, a[1], a[2])))
                                  \div SizeOf(op, a[1], a[2])] = <<a[1], a[2], u>>
    BY <1>25, <2>2, <2>3
  <2>4. DOMAIN arrays' = MadeArrays'
    BY <1>13, <1>25 DEF ArraysInv
  <2>5. ASSUME NEW a \in MadeArrays'
        PROVE  arrays'[a].live <=> Kept(a[1], a[2], a[3])'
    BY <1>25, <2>1
  <2> QED
    BY <2>3, <2>4, <2>5 DEF ArraysInv
<1> QED
  BY <1>14, <1>17, <1>21, <1>24, <1>26

\* Stuttering, the join and the initial states
LEMMA NothingChanges ==
    ASSUME IInv, UNCHANGED vars
    PROVE  IInv'
<1>1. /\ op' = op /\ comms' = comms /\ arrays' = arrays /\ pc' = pc /\ ret' = ret /\ at' = at
      /\ orig_sense' = orig_sense /\ epoch' = epoch /\ nodes' = nodes /\ gone' = gone
      /\ new_comms' = new_comms /\ worked' = worked
  BY DEF vars, shared, treeVars
<1>2. /\ \A t : Place(t)' = Place(t)
      /\ \A t : Point(t)' = Point(t)
      /\ \A t : InBarrier(t)' <=> InBarrier(t)
      /\ \A t : Waits(t)' <=> Waits(t)
  BY <1>1 DEF Place, Point, InBarrier, Waits
<1>3. Typed'
  BY <1>1 DEF IInv, Typed
<1>4. ThreadInv'
  <2>1. ASSUME NEW t \in Threads
        PROVE  NodesOk(t)' /\ PointOk(t)' /\ FreedOk(t)' /\ ReceivedOk(t)' /\ SentOk(t)'
    <3>1. NodesOk(t) /\ PointOk(t) /\ FreedOk(t) /\ ReceivedOk(t) /\ SentOk(t)
      BY DEF IInv, ThreadInv
    <3>2. NodesOk(t)'
      BY <1>1, <3>1 DEF NodesOk
    <3>3. PointOk(t)'
      BY <1>1, <1>2, <3>1 DEF PointOk
    <3>4. FreedOk(t)'
      BY <1>1, <1>2, <3>1 DEF FreedOk
    <3>5. ReceivedOk(t)'
      BY <1>1, <1>2, <3>1 DEF ReceivedOk, ArrayOf
    <3>6. SentOk(t)'
      BY <1>1, <1>2, <3>1 DEF SentOk
    <3> QED
      BY <3>2, <3>3, <3>4, <3>5, <3>6
  <2> QED
    BY <1>1, <2>1 DEF ThreadInv
<1>5. CommsInv'
  BY <1>1, <1>2 DEF IInv, CommsInv, MadeComms, Filled
<1>6. ArraysInv'
  BY <1>1, <1>2 DEF IInv, ArraysInv, MadeArrays, Filled, Offered, Kept
<1>7. SyncInv'
  BY <1>1, <1>2 DEF IInv, SyncInv, Peers, Synced, Past, Arrived, Waiting
<1> QED
  BY <1>3, <1>4, <1>5, <1>6, <1>7 DEF IInv

LEMMA DoJoin ==
    ASSUME IInv, Join
    PROVE  IInv'
<1>1. /\ op' = op /\ arrays' = arrays /\ pc' = pc /\ ret' = ret /\ at' = at
      /\ orig_sense' = orig_sense /\ epoch' = epoch /\ nodes' = nodes /\ gone' = gone
      /\ new_comms' = new_comms /\ worked' = worked
      /\ \A t \in Threads : pc[t] = "done"
      /\ comms' = [comms EXCEPT ![GL_COMM].live = FALSE]
  <2>1. /\ AllDone /\ comms' = [comms EXCEPT ![GL_COMM].live = FALSE]
        /\ UNCHANGED <<op, arrays, pc, ret, at, orig_sense, treeVars, worked>>
    BY DEF Join
  <2> DEFINE new == [comms EXCEPT ![GL_COMM].live = FALSE]
  <2>2. comms' = new
    BY <2>1
  <2> HIDE DEF new
  <2>3. /\ op' = op /\ arrays' = arrays /\ pc' = pc /\ ret' = ret /\ at' = at
        /\ orig_sense' = orig_sense /\ epoch' = epoch /\ nodes' = nodes /\ gone' = gone
        /\ new_comms' = new_comms /\ worked' = worked
    BY <2>1 DEF treeVars
  <2> QED
    BY <2>1, <2>2, <2>3 DEF AllDone, new
<1>2. /\ \A t : Place(t)' = Place(t)
      /\ \A t : Point(t)' = Point(t)
      /\ \A t : InBarrier(t)' <=> InBarrier(t)
      /\ \A t \in Threads : ~ Waits(t) /\ ~ Waits(t)' /\ Point(t) = "done"
  BY <1>1 DEF Place, Point, InBarrier, Waits
<1>3. /\ DOMAIN comms' = DOMAIN comms
      /\ \A c \in DOMAIN comms : c # GL_COMM => comms'[c] = comms[c]
      /\ \A c \in DOMAIN comms :
            /\ comms'[c] \in CommType /\ comms'[c].n_threads = comms[c].n_threads
            /\ comms'[c].arrived = comms[c].arrived
  <2>1. GL_COMM \in DOMAIN comms /\ comms[GL_COMM] \in CommType
    BY DEF IInv, CommsInv, Typed
  <2>2. DOMAIN comms' = DOMAIN comms /\ \A c \in DOMAIN comms : c # GL_COMM => comms'[c] = comms[c]
    BY <1>1
  <2>3. comms'[GL_COMM] = [comms[GL_COMM] EXCEPT !.live = FALSE]
    BY <1>1, <2>1
  <2>4. /\ comms'[GL_COMM] \in CommType /\ comms'[GL_COMM].n_threads = comms[GL_COMM].n_threads
        /\ comms'[GL_COMM].arrived = comms[GL_COMM].arrived
    BY <2>1, <2>3 DEF CommType
  <2> QED
    BY <2>2, <2>4 DEF IInv, Typed
<1>4. Typed'
  BY <1>1, <1>3 DEF IInv, Typed
<1>5. ThreadInv'
  <2>1. ASSUME NEW t \in Threads
        PROVE  NodesOk(t)' /\ PointOk(t)' /\ FreedOk(t)' /\ ReceivedOk(t)' /\ SentOk(t)'
    <3>1. NodesOk(t) /\ PointOk(t) /\ FreedOk(t) /\ Point(t)' = "done"
      BY <1>2 DEF IInv, ThreadInv
    <3>2. NodesOk(t)' /\ PointOk(t)' /\ FreedOk(t)'
      BY <1>1, <1>2, <3>1 DEF NodesOk, PointOk, FreedOk
    <3>3. ReceivedOk(t)' /\ SentOk(t)'
      BY <3>1 DEF ReceivedOk, SentOk
    <3> QED
      BY <3>2, <3>3
  <2> QED
    BY <2>1 DEF ThreadInv
<1>6. CommsInv'
  <2>1. MadeComms' = MadeComms
    BY <1>1, <1>2 DEF MadeComms, Filled
  <2>2. GL_COMM # SINGLE_COMM /\ GL_COMM \notin MadeComms
    <3>1. GL_COMM \notin (1 .. Len(op.trees)) \X Nat \X Threads
      BY DEF GL_COMM
    <3> QED
      BY <3>1 DEF GL_COMM, SINGLE_COMM, MadeComms
  <2> QED
    BY <1>1, <1>3, <2>1, <2>2 DEF IInv, CommsInv
<1>7. ArraysInv'
  BY <1>1, <1>2 DEF IInv, ArraysInv, MadeArrays, Filled, Offered, Kept
<1>8. SyncInv'
  <2>1. \A c : Waiting(c) = {} /\ Waiting(c)' = {}
    BY <1>2 DEF Waiting
  <2>2. \A c \in DOMAIN comms' : comms'[c].arrived = Cardinality(Waiting(c)')
    BY <1>3, <2>1 DEF IInv, SyncInv
  <2>3. \A t, u \in Threads : \A b \in Places(op) : Peers(t, u, b)' => Synced(t, u, b)'
    BY <1>1, <1>2 DEF IInv, SyncInv, Peers, Synced, Past, Arrived
  <2> QED
    BY <1>1, <2>2, <2>3 DEF SyncInv
<1> QED
  BY <1>4, <1>5, <1>6, <1>7, <1>8 DEF IInv

LEMMA StartsRight ==
    ASSUME Init
    PROVE  IInv
<1>1. /\ op \in Operations /\ arrays = <<>>
      /\ comms = [c \in {GL_COMM, SINGLE_COMM} |-> NewComm(IF c = GL_COMM THEN NT ELSE 1)]
      /\ \A t \in Threads :
            /\ pc[t] = "grow" /\ ret[t] = "grow" /\ epoch[t] = 1 /\ gone[t] = {} /\ worked[t] = 0
            /\ nodes[t] = <<Node(GL_COMM, NT, t, 1, 0, FALSE)>>
            /\ new_comms[t] = NULL
            /\ Point(t) = "grow" /\ ~ InBarrier(t) /\ ~ Waits(t)
            /\ Place(t) = <<1, 1, 0>>
  BY DEF Init, Point, InBarrier, Waits, Place, StageOf
<1>2. /\ Len(op.trees) \in Nat \ {0} /\ 1 \in 1 .. Len(op.trees) /\ 1 \in NodesOf(op, 1)
      /\ Len(op.work) \in Nat /\ NT \in Nat \ {0}
  <2>1. Len(op.trees) \in Nat \ {0}
    BY <1>1, TreesAssumption
  <2>2. 1 \in 1 .. Len(op.trees)
    BY <2>1
  <2>3. Len(op.work) \in Nat /\ Len(op.trees[1]) \in Nat
    BY <1>1, <2>2, TreeFacts
  <2> QED
    BY <2>1, <2>2, <2>3, TreesAssumption DEF NodesOf
<1>3. GL_COMM # SINGLE_COMM /\ \A c \in {GL_COMM, SINGLE_COMM} : c \in Nat \X Nat \X Nat
  BY DEF GL_COMM, SINGLE_COMM
<1>4. /\ DOMAIN comms = {GL_COMM, SINGLE_COMM}
      /\ comms[GL_COMM] = NewComm(NT) /\ comms[SINGLE_COMM] = NewComm(1)
  BY <1>1, <1>3
<1>5. Typed
  <2>1. NewComm(NT) \in CommType /\ NewComm(1) \in CommType
    BY <1>2 DEF NewComm, CommType
  <2>2. \A c \in DOMAIN comms : comms[c] \in CommType
    BY <1>4, <2>1
  <2>3. \A a \in DOMAIN arrays : arrays[a] \in ArrayType
    BY <1>1
  <2> QED
    BY <1>1, <1>2, <1>3, <2>2, <2>3 DEF Init, Typed, Points
<1>6. ThreadInv
  <2>1. ASSUME NEW t \in Threads
        PROVE  NodesOk(t) /\ PointOk(t) /\ FreedOk(t) /\ ReceivedOk(t) /\ SentOk(t)
    <3> PICK q : q = Node(GL_COMM, NT, t, 1, 0, FALSE)
      OBVIOUS
    <3>1. Len(nodes[t]) = 1 /\ epoch[t] = 1 /\ nodes[t] = [i \in 1 .. 1 |-> q]
      <4>1. nodes[t] = <<q>> /\ epoch[t] = 1
        BY <1>1
      <4>2. Len(<<q>>) = 1 /\ <<q>> = [i \in 1 .. 1 |-> q]
        <5> DEFINE f == <<q>>
                   g == [i \in 1 .. 1 |-> q]
        <5>1. Len(f) = 1 /\ f \in Seq({q}) /\ f[1] = q
          OBVIOUS
        <5>2. f = [i \in 1 .. Len(f) |-> f[i]]
          BY <5>1
        <5> HIDE DEF f
        <5>3. DOMAIN f = 1 .. 1
          BY <5>1, <5>2
        <5>4. f = [i \in 1 .. 1 |-> f[i]]
          BY <5>1, <5>2
        <5>5. \A i \in 1 .. 1 : f[i] = g[i]
          <6> TAKE i \in 1 .. 1
          <6>1. i = 1 /\ g[i] = q
            OBVIOUS
          <6> HIDE DEF g
          <6> QED
            BY <5>1, <6>1
        <5>6. f = g
          BY <5>4, <5>5
        <5> QED
          BY <5>1, <5>6 DEF f
      <4> QED
        BY <4>1, <4>2
    <3>2. nodes[t] = [i \in 1 .. 1 |-> NodeOf(op, 1, i, t)]
      <4>1. NodeOf(op, 1, 1, t) = Node(GL_COMM, NT, t, 1, 0, FALSE)
        BY <1>1, <1>2, RootNode
      <4>2. [i \in 1 .. 1 |-> NodeOf(op, 1, i, t)] = [i \in 1 .. 1 |-> q]
        <5>1. \A i \in 1 .. 1 : NodeOf(op, 1, i, t) = q
          <6> TAKE i \in 1 .. 1
          <6>1. i = 1
            OBVIOUS
          <6> QED
            BY <4>1, <6>1
        <5> QED
          BY <5>1
      <4> QED
        BY <3>1, <4>2
    <3>3. NodesOk(t)
      BY <1>2, <3>1, <3>2 DEF NodesOk
    <3>4. PointOk(t) /\ FreedOk(t) /\ ReceivedOk(t) /\ SentOk(t)
      <4>1. /\ Point(t) = "grow" /\ ~ InBarrier(t) /\ worked[t] = 0 /\ gone[t] = {} /\ pc[t] = "grow"
            /\ 0 <= Len(op.work)
        <5>1. 0 <= Len(op.work)
          BY <1>2
        <5> QED
          BY <1>1, <5>1
      <4> QED
        BY <4>1 DEF PointOk, FreedOk, ReceivedOk, SentOk
    <3> QED
      BY <3>3, <3>4
  <2> QED
    BY <2>1 DEF ThreadInv
<1>7. ASSUME NEW e \in 1 .. Len(op.trees), NEW i \in NodesOf(op, e), Made(op, e, i),
             NEW t \in Threads
      PROVE  ~ Filled(e, i, t) /\ ~ Offered(e, i, t)
  <2>1. e \in Nat /\ e > 0 /\ i \in Nat /\ i > 1
    <3>1. Len(op.trees[e]) \in Nat
      BY <1>1, TreeFacts
    <3> QED
      BY <1>2, <1>7, <3>1 DEF Made, NodesOf
  <2>2. Place(t) = <<1, 1, 0>>
    BY <1>1
  <2> QED
    BY <2>1, <2>2 DEF Filled, Offered, Before
<1>8. MadeComms = {} /\ MadeArrays = {}
  BY <1>7 DEF MadeComms, MadeArrays, ChiefOf
<1>9. CommsInv
  BY <1>3, <1>4, <1>8 DEF CommsInv, NewComm
<1>10. ArraysInv
  BY <1>1, <1>8 DEF ArraysInv
<1>11. SyncInv
  <2>1. ASSUME NEW t \in Threads, NEW b \in Places(op), BarrierAt(op, b)
        PROVE  ~ Past(t, b) /\ b # Place(t)
    <3>1. b[1] \in Nat /\ b[1] > 0 /\ b[2] \in Nat /\ b[2] > 0 /\ b[3] \in Nat
      BY <1>2 DEF Places
    <3>2. ~ (b[2] = 1 /\ b[3] = 0)
      BY <2>1, <1>2 DEF BarrierAt
    <3>3. Place(t) = <<1, 1, 0>>
      BY <1>1
    <3> QED
      BY <3>1, <3>2, <3>3 DEF Past, Before
  <2>2. \A t, u \in Threads : \A b \in Places(op) : Peers(t, u, b) => Synced(t, u, b)
    BY <2>1 DEF Peers, Synced
  <2>3. \A c : Waiting(c) = {}
    BY <1>1 DEF Waiting
  <2>4. \A c \in DOMAIN comms : comms[c].arrived = Cardinality(Waiting(c))
    BY <1>4, <2>3, FS_EmptySet DEF NewComm
  <2> QED
    BY <2>2, <2>4 DEF SyncInv
<1> QED
  BY <1>5, <1>6, <1>9, <1>10, <1>11 DEF IInv

\* Every step of a thread keeps the invariant.
LEMMA StepKeeps ==
    ASSUME IInv, NEW t \in Threads, Step(t)
    PROVE  IInv'
<1>1. op' = op
  BY DEF Step
<1>2. \/ Arrive(t) \/ SpinExit(t) \/ SplitTrivial(t) \/ SplitBcast(t) \/ SplitReceive(t)
      \/ SplitFill(t) \/ SplitAttach(t) \/ SplitDrop(t) \/ TreeReady(t) \/ DoWork(t)
      \/ Close(t) \/ FreeComm(t) \/ Regrow(t) \/ Finish(t)
  BY DEF Step
<1>3. CASE Arrive(t) \/ SpinExit(t)
  BY <1>1, <1>3, DoArrive, DoSpinExit
<1>4. CASE SplitTrivial(t) \/ SplitBcast(t) \/ SplitReceive(t)
  BY <1>1, <1>4, DoSplitTrivial, DoSplitBcast, DoSplitReceive
<1>5. CASE SplitFill(t) \/ SplitAttach(t) \/ SplitDrop(t)
  BY <1>1, <1>5, DoSplitFill, DoSplitAttach, DoSplitDrop
<1>6. CASE TreeReady(t) \/ DoWork(t) \/ Close(t)
  BY <1>1, <1>6, DoTreeReady, DoDoWork, DoClose
<1>7. CASE FreeComm(t) \/ Regrow(t) \/ Finish(t)
  BY <1>1, <1>7, DoFreeComm, DoRegrow, DoFinish
<1> QED
  BY <1>2, <1>3, <1>4, <1>5, <1>6, <1>7

\* Every thread's tree, barriers, communicators and arrays are at every moment what the
\* operation and the threads' places in it say.
THEOREM Invariant == Spec => []IInv
<1>1. Init => IInv
  BY StartsRight
<1>2. IInv /\ [Next]_vars => IInv'
  <2> SUFFICES ASSUME IInv, [Next]_vars PROVE IInv'
    OBVIOUS
  <2>1. CASE \E t \in Threads : Step(t)
    BY <2>1, StepKeeps
  <2>2. CASE Join
    BY <2>2, DoJoin
  <2>3. CASE UNCHANGED vars
    BY <2>3, NothingChanges
  <2> QED
    BY <2>1, <2>2, <2>3 DEF Next, Terminated
<1> QED
  BY <1>1, <1>2, PTL DEF Spec

-----------------------------------------------------------------------------
(***************************************************************************)
(* What follows from the invariant                                         *)
(***************************************************************************)

\* The closing barrier holds back the chiefs of the teams until all have come.
LEMMA ClosedHere ==
    ASSUME IInv, NEW t \in Threads, InBarrier(t), epoch[t] = Len(op.trees)
    PROVE  comms[at[t]].live
<1> USE DEF IInv
<1> DEFINE e == epoch[t]
           b == Place(t)
           k == NodeAt(op, b)
           s == SizeOf(op, e, k)
           j == Origin(op, e, k)
           p == Base(t, s)
           z == <<e, Len(op.trees[e]) + 1, 5 + Len(op.work)>>
<1> SUFFICES ASSUME ~ comms[at[t]].live PROVE FALSE
  OBVIOUS
<1>1. /\ BarrierAt(op, b) /\ b \in Places(op) /\ at[t] = CommAt(op, b, t) /\ at[t] \in DOMAIN comms
      /\ b[1] = e /\ b[2] = Len(nodes[t]) /\ op \in Operations /\ e \in 1 .. Len(op.trees)
      /\ Len(op.work) \in Nat /\ Len(op.trees[e]) \in Nat
  BY BarrierOf, Here, TreeFacts
<1>2. k \in NodesOf(op, e) /\ s # 1 /\ s \in Nat \ {0}
  <2>1. /\ NodeAt(op, b) \in NodesOf(op, b[1]) /\ SizeAt(op, b) # 1 /\ SizeAt(op, b) \in Nat \ {0}
        /\ SizeAt(op, b) = SizeOf(op, b[1], NodeAt(op, b))
    BY <1>1, BarrierFacts
  <2> QED
    BY <1>1, <2>1
<1>3. at[t] = CommOf(op, e, k, t)
  BY <1>1 DEF CommAt
<1>4. pc[t] # "done"
  BY DEF InBarrier
<1>5. at[t] # GL_COMM
  BY <1>4 DEF CommsInv
<1> HIDE DEF k, e, b
<1>6. at[t] = <<e, j, p>> /\ p \in Threads /\ j \in NodesOf(op, e)
  BY <1>1, <1>2, <1>3, <1>5, CommFacts
<1> DEFINE c == <<e, j, p>>
<1>7. c \in MadeComms
  <2>1. c # SINGLE_COMM
    BY <1>1 DEF SINGLE_COMM
  <2> QED
    BY <1>1, <1>5, <1>6, <2>1 DEF CommsInv
<1>8. c[1] = e /\ c[2] = j /\ c[3] = p
  OBVIOUS
<1> HIDE DEF c, j, p, s
<1>9. epoch[p] # e \/ j \in gone[p]
  BY <1>6, <1>7, <1>8 DEF CommsInv, c
<1>10. epoch[p] = e
  <2> SUFFICES ASSUME epoch[p] # e PROVE FALSE
    OBVIOUS
  <2>1. epoch[p] \in 1 .. Len(op.trees) /\ e = Len(op.trees)
    BY <1>6, Here DEF e
  <2>2. ~ Before(Place(p), <<e, j - 1, 3>>)
    BY <1>7, <1>8 DEF MadeComms, Filled
  <2>3. Place(p)[1] = epoch[p]
    BY DEF Place
  <2>4. epoch[p] < e
    BY <1>1, <2>1
  <2> QED
    BY <2>2, <2>3, <2>4 DEF Before
<1>11. Point(p) \in {"free", "done"} /\ ~ InBarrier(p) /\ Len(nodes[p]) = Len(op.trees[e]) + 1
  <2>1. FreedOk(p) /\ PointOk(p) /\ j \in gone[p]
    BY <1>6, <1>9, <1>10 DEF ThreadInv
  <2>2. Point(p) \in {"update", "free", "done"} /\ ~ InBarrier(p)
    BY <2>1 DEF FreedOk
  <2>3. Point(p) # "update"
    <3>1. ~ (epoch[p] < Len(op.trees))
      BY <1>1, <1>10 DEF e
    <3> QED
      BY <2>1, <3>1 DEF PointOk
  <2> QED
    BY <1>10, <2>1, <2>2, <2>3 DEF PointOk
<1>12. Place(p) = z
  BY <1>10, <1>11 DEF Place, StageOf
<1>13. NT \in Nat \ {0} /\ NT # 1
  <2>1. s \in 1 .. NT /\ NT \in Nat \ {0}
    BY <1>1, <1>2, Sizes, TreesAssumption DEF s
  <2> QED
    BY <1>2, <2>1
<1>14. /\ NodeAt(op, z) = 1 /\ SizeAt(op, z) = NT /\ BarrierAt(op, z) /\ z \in Places(op)
       /\ z \in Nat \X Nat \X Nat
  <2>1. z[1] = e /\ z[2] = Len(op.trees[e]) + 1 /\ z[3] = 5 + Len(op.work)
    OBVIOUS
  <2>2. z \in Places(op)
    BY <1>1 DEF Places
  <2> HIDE DEF z
  <2>3. NodeAt(op, z) = 1
    BY <1>1, <2>1 DEF NodeAt
  <2>4. 1 \in NodesOf(op, e) /\ Len(op.trees[e]) + 1 \in NodesOf(op, e)
    BY <1>1 DEF NodesOf
  <2>5. SizeOf(op, e, 1) = NT
    BY <1>1, <2>4, SizeRecursion
  <2>6. e = Len(op.trees)
    BY DEF e
  <2>7. z[3] \in 5 .. 5 + Len(op.work)
    BY <1>1, <2>1
  <2> QED
    BY <1>1, <1>13, <2>1, <2>2, <2>3, <2>4, <2>5, <2>6, <2>7, PlacesAreTriples
      DEF SizeAt, BarrierAt
<1>15. Arrived(t, z)
  <2>1. Past(p, z)
    BY <1>11, <1>12 DEF Past
  <2>2. Base(p, NT) = Base(t, NT)
    BY <1>6, AllThreads
  <2> QED
    BY <1>6, <1>14, <2>1, <2>2 DEF SyncInv, Synced, Peers
<1>16. b # z
  <2> SUFFICES ASSUME b = z PROVE FALSE
    OBVIOUS
  <2>1. k = 1
    BY <1>14 DEF k
  <2>2. 1 \in NodesOf(op, e)
    BY <1>1 DEF NodesOf
  <2>3. Origin(op, e, 1) = 1
    BY <1>1, <2>2, OriginRecursion
  <2> QED
    BY <1>3, <1>5, <2>1, <2>3 DEF CommOf
<1>17. ~ Before(z, b)
  <2>1. b[2] = Len(nodes[t]) /\ b[2] <= Len(op.trees[e]) + 1 /\ b[2] \in Nat
    <3>1. Len(nodes[t]) \in NodesOf(op, e) /\ Len(nodes[t]) \in Nat \ {0}
      BY Here DEF e
    <3> QED
      BY <1>1, <3>1 DEF NodesOf
  <2>2. b[3] = StageOf(op, Point(t), worked[t]) /\ b[3] <= 5 + Len(op.work)
    <3>1. b[3] = StageOf(op, Point(t), worked[t])
      BY Here DEF b
    <3>2. worked[t] \in Nat /\ worked[t] <= Len(op.work)
      BY DEF Typed, ThreadInv, PointOk
    <3> QED
      BY <1>1, <3>1, <3>2 DEF StageOf
  <2>3. b[1] = e
    BY <1>1
  <2> QED
    <3> DEFINE l == Len(op.trees[e]) + 1
               r == 5 + Len(op.work)
    <3>1. l \in Nat /\ r \in Nat /\ e \in Nat
      BY <1>1
    <3>2. b[2] <= l /\ b[3] <= r /\ b[2] \in Nat
      BY <2>1, <2>2
    <3>3. b[3] \in Nat
      BY Here DEF b
    <3> HIDE DEF l, r
    <3>4. ~ Before(<<e, l, r>>, b)
      BY <2>3, <3>1, <3>2, <3>3 DEF Before
    <3> QED
      BY <3>4 DEF l, r
<1> QED
  BY <1>15, <1>16, <1>17 DEF Arrived, b

\* What the other properties say, at one moment
LEMMA ReadersHere ==
    ASSUME IInv
    PROVE  ArrayOutlivesReaders
<1>1. ASSUME NEW t \in Threads, pc[t] \in {"fill", "attach"}
      PROVE  /\ new_comms[t] \in DOMAIN arrays /\ arrays[new_comms[t]].live
             /\ pc[t] = "attach" => arrays[new_comms[t]].elem[ChildWork(t)] # NULL
  <2> DEFINE x == ArrayOf(t, Len(nodes[t]) + 1)
  <2>1. /\ new_comms[t] = x /\ x \in DOMAIN arrays /\ arrays[x].live
        /\ pc[t] = "attach" =>
             /\ arrays[x].elem[ChildWork(t)] = CommOf(op, epoch[t], Len(nodes[t]) + 1, t)
             /\ CommOf(op, epoch[t], Len(nodes[t]) + 1, t) # NULL
    BY <1>1, ReaderFacts
  <2> HIDE DEF x
  <2> QED
    BY <2>1
<1> QED
  BY <1>1 DEF ArrayOutlivesReaders

LEMMA FreedHere ==
    ASSUME IInv
    PROVE  FreedOnce
<1> USE DEF IInv
<1>1. NoDoubleFree
  BY OwnComm DEF NoDoubleFree
<1>2. ASSUME AllDone, NEW c \in DOMAIN comms \ {GL_COMM, SINGLE_COMM}
      PROVE  ~ comms[c].live
  <2>1. c \in MadeComms
    BY <1>2 DEF CommsInv
  <2>2. c[2] \in ChiefOf(op, c[1], c[3]) /\ c[3] \in Threads
    BY <2>1 DEF MadeComms
  <2>3. gone[c[3]] = ChiefOf(op, epoch[c[3]], c[3])
    BY <1>2, <2>2 DEF AllDone, ThreadInv, FreedOk
  <2> QED
    BY <2>1, <2>2, <2>3 DEF CommsInv
<1>3. ASSUME AllDone, NEW a \in DOMAIN arrays
      PROVE  ~ arrays[a].live
  <2>1. a \in MadeArrays
    BY DEF ArraysInv
  <2>2. a[3] \in Threads /\ a[2] \in NodesOf(op, a[1]) /\ a[1] \in 1 .. Len(op.trees)
    BY <2>1 DEF MadeArrays
  <2>3. pc[a[3]] = "done" /\ Point(a[3]) = "done" /\ PointOk(a[3])
    BY <1>3, <2>2 DEF AllDone, Point, InBarrier, ThreadInv
  <2>4. Len(nodes[a[3]]) = Len(op.trees[epoch[a[3]]]) + 1
    BY <2>3 DEF PointOk
  <2>5. Len(op.trees[a[1]]) \in Nat
    BY <2>2, TreeFacts DEF Typed
  <2>6. ~ Kept(a[1], a[2], a[3])
    <3> SUFFICES ASSUME epoch[a[3]] = a[1], Len(nodes[a[3]]) = a[2] - 1 PROVE FALSE
      BY <2>3 DEF Kept
    <3> QED
      BY <2>2, <2>4, <2>5 DEF NodesOf
  <2> QED
    BY <2>1, <2>6 DEF ArraysInv
<1> QED
  BY <1>1, <1>2, <1>3 DEF FreedOnce, NothingLeftBehind

\* Those who share a communicator at a node are one team of it.
LEMMA SharedTeam ==
    ASSUME IInv, NEW t \in Threads, NEW u \in Threads, t # u,
           NEW i \in DOMAIN nodes[t] \cap DOMAIN nodes[u], SameTeam(t, u, i)
    PROVE  /\ epoch[u] = epoch[t]
           /\ Base(t, SizeOf(op, epoch[t], i)) = Base(u, SizeOf(op, epoch[t], i))
           /\ nodes[t][i] = NodeOf(op, epoch[t], i, t) /\ nodes[u][i] = NodeOf(op, epoch[t], i, u)
<1> USE DEF IInv
<1> DEFINE e == epoch[t]
           s == SizeOf(op, e, i)
<1>1. /\ epoch[u] = e /\ op \in Operations /\ e \in 1 .. Len(op.trees) /\ i \in NodesOf(op, e)
      /\ nodes[t][i] = NodeOf(op, e, i, t) /\ nodes[u][i] = NodeOf(op, epoch[u], i, u)
  BY Here DEF SameTeam
<1>2. nodes[t][i].comm = CommOf(op, e, i, t) /\ nodes[u][i].comm = CommOf(op, e, i, u)
  BY <1>1, NodeFields DEF NodeOf
<1>3. CommOf(op, e, i, t) = CommOf(op, e, i, u) /\ CommOf(op, e, i, t) # SINGLE_COMM
  BY <1>2 DEF SameTeam
<1> HIDE DEF e
<1>4. s # 1
  <2> SUFFICES ASSUME s = 1 PROVE FALSE
    OBVIOUS
  <2>1. CommOf(op, e, i, t) = GL_COMM
    BY <1>1, <1>3, CommFacts
  <2>2. s = NT
    BY <1>1, <2>1, CommFacts
  <2> QED
    BY <2>2 DEF Threads
<1>5. Base(t, s) = Base(u, s)
  BY <1>1, <1>3, <1>4, SameComm
<1> QED
  BY <1>1, <1>5 DEF e

LEMMA TeamsHere ==
    ASSUME IInv
    PROVE  TeamsAgree
<1> USE DEF IInv
<1> SUFFICES ASSUME NEW t \in Threads, NEW u \in Threads,
                    NEW i \in DOMAIN nodes[t] \cap DOMAIN nodes[u], SameTeam(t, u, i)
             PROVE  /\ nodes[t][i].thread_id < comms[nodes[t][i].comm].n_threads
                    /\ t # u => nodes[t][i].thread_id # nodes[u][i].thread_id
  BY DEF TeamsAgree
<1> DEFINE e == epoch[t]
           s == SizeOf(op, e, i)
<1>1. /\ op \in Operations /\ e \in 1 .. Len(op.trees) /\ i \in NodesOf(op, e)
      /\ nodes[t][i] = NodeOf(op, e, i, t) /\ t \in Nat /\ u \in Nat
  BY Here DEF Threads
<1>2. nodes[t][i].comm = CommOf(op, e, i, t) /\ nodes[t][i].thread_id = t % s
  BY <1>1, NodeFields DEF NodeOf
<1>3. comms[CommOf(op, e, i, t)].n_threads = s
  BY TeamComms
<1>4. s \in Nat \ {0}
  BY <1>1, CommFacts
<1>5. ASSUME t # u
      PROVE  nodes[t][i].thread_id # nodes[u][i].thread_id
  <2>1. Base(t, s) = Base(u, s) /\ nodes[u][i] = NodeOf(op, e, i, u)
    BY <1>5, SharedTeam
  <2>2. nodes[u][i].thread_id = u % s
    BY <2>1, NodeFields DEF NodeOf
  <2> HIDE DEF s
  <2>3. t = Base(t, s) + (t % s) /\ u = Base(u, s) + (u % s)
    BY <1>1, <1>4, BaseFacts
  <2> QED
    BY <1>2, <1>5, <2>1, <2>2, <2>3
<1> HIDE DEF s
<1>6. t % s < s
  BY <1>1, <1>4, BaseFacts
<1> QED
  BY <1>2, <1>3, <1>5, <1>6

LEMMA WorkHere ==
    ASSUME IInv
    PROVE  DistinctWork
<1> USE DEF IInv
<1> SUFFICES ASSUME NEW t \in Threads, NEW u \in Threads,
                    NEW i \in (DOMAIN nodes[t] \cap DOMAIN nodes[u]) \ {1}, t # u,
                    SameTeam(t, u, op.trees[epoch[t]][i - 1].par),
                    nodes[t][i].work_id = nodes[u][i].work_id,
                    nodes[t][i].thread_id = nodes[u][i].thread_id
             PROVE  FALSE
  BY DEF DistinctWork
<1> DEFINE e == epoch[t]
           k == Par(op, e, i)
           m == SizeOf(op, e, k)
           s == SizeOf(op, e, i)
<1>1. /\ op \in Operations /\ e \in 1 .. Len(op.trees) /\ i \in NodesOf(op, e) /\ i # 1
      /\ nodes[t][i] = NodeOf(op, e, i, t) /\ nodes[u][i] = NodeOf(op, epoch[u], i, u)
      /\ t \in Nat /\ u \in Nat
  BY Here DEF Threads
<1>2. k \in DOMAIN nodes[t] \cap DOMAIN nodes[u] /\ SameTeam(t, u, k)
  <2>1. k \in 1 .. i - 1
    BY <1>1, TreeFacts
  <2>2. DOMAIN nodes[t] = 1 .. Len(nodes[t]) /\ DOMAIN nodes[u] = 1 .. Len(nodes[u])
        /\ Len(nodes[t]) \in Nat /\ Len(nodes[u]) \in Nat
    BY Here
  <2>3. i \in 1 .. Len(nodes[t]) /\ i \in 1 .. Len(nodes[u])
    BY <2>2
  <2> QED
    BY <2>1, <2>2, <2>3 DEF Par
<1>3. epoch[u] = e /\ Base(t, m) = Base(u, m)
  BY <1>2, SharedTeam
<1>4. nodes[t][i].thread_id = t % s /\ nodes[t][i].work_id = (t % m) \div s
  BY <1>1, NodeFields DEF NodeOf
<1>5. nodes[u][i].thread_id = u % s /\ nodes[u][i].work_id = (u % m) \div s
  BY <1>1, <1>3, NodeFields DEF NodeOf
<1> HIDE DEF e, k, m, s
<1>6. Base(t, s) = Base(t, m) + s * ((t % m) \div s)
  BY <1>1, ParentTeams DEF k, m, s
<1>7. Base(u, s) = Base(u, m) + s * ((u % m) \div s)
  BY <1>1, ParentTeams DEF k, m, s
<1>8. Base(t, s) = Base(u, s)
  BY <1>3, <1>4, <1>5, <1>6, <1>7
<1>9. s \in Nat \ {0}
  BY <1>1, CommFacts DEF s
<1>10. t = Base(t, s) + (t % s) /\ u = Base(u, s) + (u % s)
  BY <1>1, <1>9, BaseFacts
<1> QED
  BY <1>4, <1>5, <1>8, <1>10

\* In the last tree, and so in every operation without refactorization, no communicator
\* is freed while a thread is in its barrier: that is what the closing barrier is for.
THEOREM NobodyFreesInUse == Spec => []ClosedBeforeFree
<1>1. IInv => ClosedBeforeFree
  BY ClosedHere DEF ClosedBeforeFree, InBarrier
<1> QED
  BY <1>1, Invariant, PTL

\* The array of a split, which is on its chief's stack, is there as long as it is read,
\* and each thread finds the communicator of its team in it.
THEOREM ArraysAreRead == Spec => []ArrayOutlivesReaders
BY ReadersHere, Invariant, PTL

\* Each communicator is freed by its chief, once, and at the end all communicators and
\* arrays are.
THEOREM NothingLeaks == Spec => []FreedOnce
BY FreedHere, Invariant, PTL

\* The threads that share a communicator have different ids below its number of threads.
THEOREM IdsAreDistinct == Spec => []TeamsAgree
BY TeamsHere, Invariant, PTL

\* The threads of one team have different pairs of work id and thread id below it.
THEOREM WorkIsDistinct == Spec => []DistinctWork
BY WorkHere, Invariant, PTL
=============================================================================
