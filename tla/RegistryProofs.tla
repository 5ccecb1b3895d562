---------------------------- MODULE RegistryProofs ----------------------------
(***************************************************************************)
(* Theorems about Registry, for any number of threads, contexts, blocks    *)
(* and failures, and all lists of registrations.                           *)
(***************************************************************************)
EXTENDS Registry, TLAPS

Kinds == {"blksz", "ukr"}

\* What the theorems assume of the constants.  There is an element in every
\* stack from the beginning, as the enumerations of bli_type_defs.h have
\* members; and bli_stack_init finds room for them.
Sane ==
    /\ Wanted \in [Threads -> Seq(Kinds)]
    /\ Contexts \in Nat \ {0} /\ Registered \in Nat \ {0}
    /\ BlockLen \in Nat \ {0} /\ MaxBlocks \in Nat \ {0}
    /\ Registered <= MaxBlocks * BlockLen
    /\ Failures \in Nat
    /\ NULL \notin Threads

Points == {"idle", "lock", "test", "grow", "save", "increase", "pushed"}

\* The number of blocks for which a stack has capacity
Allocated(s) == capacity[s] \div BlockLen

Typed ==
    /\ checking \in BOOLEAN /\ aborted \in BOOLEAN
    /\ size \in [Stacks -> Nat] /\ capacity \in [Stacks -> Nat]
    /\ DOMAIN blocks = Stacks
    /\ lock \in [Stacks -> Threads \cup {NULL}]
    /\ failures \in Nat
    /\ pc \in [Threads -> Points]
    /\ done \in [Threads -> Nat]
    /\ \A t \in Threads :
        /\ done[t] <= Len(Wanted[t])
        /\ pc[t] # "idle" \/ reason[t] # "none" =>
              /\ done[t] # 0
              /\ stack[t] \in 1 .. Len(StacksOf(Kind(t)))
        /\ pc[t] # "idle" => reason[t] = "none" /\ (cntx[t] = 1 => id[t] = 0)
    /\ cntx \in [Threads -> 1 .. Contexts] /\ stack \in [Threads -> {1, 2}]
    /\ num_blocks_new \in [Threads -> Nat]
    /\ new \in [Threads -> Nat] /\ id_blksz \in [Threads -> Nat] /\ id \in [Threads -> Nat]
    /\ given \subseteq Threads \X Nat \X Kinds \X Nat
    /\ reason \in [Threads -> {"none", "full", "mismatch"}]
    /\ disturbed \subseteq Kinds

\* A stack has the blocks for its capacity, and no more elements than fit.
StackInv ==
    \A s \in Stacks :
        /\ capacity[s] = BlockLen * Allocated(s) /\ Allocated(s) <= MaxBlocks
        /\ Registered <= size[s] /\ size[s] <= capacity[s]
        /\ DOMAIN blocks[s] = 0 .. Allocated(s) - 1
        /\ \A b \in DOMAIN blocks[s] : blocks[s][b] = 0 => ~checking /\ failures > 0

\* In the critical section of bli_stack_push
HoldsLock(t) == pc[t] \in {"test", "grow", "save", "increase"}

PushOk(t) ==
    /\ HoldsLock(t) => lock[At(t)] = t
    /\ pc[t] = "grow" =>
          /\ Allocated(At(t)) < num_blocks_new[t] /\ num_blocks_new[t] <= MaxBlocks
          /\ size[At(t)] + 1 <= BlockLen * num_blocks_new[t]
    /\ pc[t] \in {"save", "increase"} => size[At(t)] + 1 <= capacity[At(t)]
    /\ pc[t] = "increase" => new[t] = size[At(t)]

PushInv == \A t \in Threads : PushOk(t)

\* Registration of t has pushed onto the n-th stack of its kind in context c.
Passed(t, c, n) ==
    /\ pc[t] # "idle"
    /\ \/ c < cntx[t]
       \/ c = cntx[t] /\ (n < stack[t] \/ (n = stack[t] /\ pc[t] = "pushed"))

\* The id it was given there
IdIn(t, c, n) ==
    IF c < cntx[t] THEN id[t] ELSE IF n < stack[t] THEN id_blksz[t] ELSE new[t]

Nth(kind, c, n) == <<c, StacksOf(kind)[n]>>

\* These ids are elements of the stacks.
IdInv ==
    \A t \in Threads : pc[t] # "idle" =>
        \A c \in 1 .. Contexts : \A n \in 1 .. Len(StacksOf(Kind(t))) :
            Passed(t, c, n) =>
                /\ Registered <= IdIn(t, c, n)
                /\ IdIn(t, c, n) < size[Nth(Kind(t), c, n)]

\* The first of them nobody else has.
FirstInv ==
    \A t \in Threads : Passed(t, 1, 1) =>
        /\ \A u \in Threads : Passed(u, 1, 1) /\ Kind(u) = Kind(t) /\ u # t =>
                IdIn(u, 1, 1) # IdIn(t, 1, 1)
        /\ \A g \in given : g[3] = Kind(t) => g[4] # IdIn(t, 1, 1)

\* If no registrations of a kind have overlapped, its stacks have the same
\* elements, but for the registration in progress.
Level(kind, size0, t) ==
    /\ \A c \in 1 .. Contexts : \A n \in 1 .. Len(StacksOf(kind)) :
        size[Nth(kind, c, n)] =
            IF Passed(t, c, n) THEN size0 + 1 ELSE size0
    /\ \A c \in 1 .. Contexts : \A n \in 1 .. Len(StacksOf(kind)) :
        Passed(t, c, n) => IdIn(t, c, n) = size0

LevelInv ==
    \A kind \in Kinds \ disturbed :
        /\ \A t, u \in Running(kind) : t = u
        /\ \A t \in Running(kind) : \E size0 \in Nat : Level(kind, size0, t)
        /\ Running(kind) = {} => \E size0 \in Nat :
            \A c \in 1 .. Contexts : \A n \in 1 .. Len(StacksOf(kind)) :
                size[Nth(kind, c, n)] = size0

IInv ==
    /\ Typed /\ StackInv /\ PushInv /\ IdInv /\ FirstInv /\ LevelInv
    /\ IdsAreNew /\ FailsForReason

-----------------------------------------------------------------------------
\* Division, and the number of blocks for a number of elements

LEMMA DivMod ==
    ASSUME NEW a \in Nat, NEW b \in Nat \ {0}
    PROVE  /\ a \div b \in Nat
           /\ a % b \in 0 .. b - 1
           /\ a = b * (a \div b) + (a % b)
BY SMT

LEMMA Product == \A a, b \in Nat : a * b \in Nat
BY SMT

LEMMA ProductMonotone ==
    ASSUME NEW a \in Nat, NEW b \in Nat, NEW k \in Nat, a <= b
    PROVE  k * a <= k * b
BY SMT

LEMMA OneMore ==
    ASSUME NEW a \in Nat, NEW k \in Nat
    PROVE  k * (a + 1) = (k * a) + k
BY SMT

\* The quotient is where the number lies between two multiples.
LEMMA Quotient ==
    \A b \in Nat \ {0} : \A q \in Nat : \A a \in Nat :
        b * q <= a /\ a < b * (q + 1) => a \div b = q
<1> SUFFICES ASSUME NEW b \in Nat \ {0}, NEW q \in Nat, NEW a \in Nat,
                    b * q <= a, a < b * (q + 1)
             PROVE  a \div b = q
  OBVIOUS
<1> DEFINE d == a \div b
           e == a % b
<1>1. d \in Nat /\ e \in 0 .. b - 1 /\ a = (b * d) + e
  BY DivMod
<1>2. b * d \in Nat /\ b * q \in Nat /\ b * (q + 1) \in Nat /\ b * (d + 1) \in Nat
  BY <1>1, Product
<1> HIDE DEF d, e
<1>3. b * (d + 1) = (b * d) + b
  BY <1>1, OneMore
<1>4. CASE d < q
  <2>1. b * (d + 1) <= b * q
    <3>1. d + 1 \in Nat /\ d + 1 <= q
      BY <1>1, <1>4
    <3> QED
      BY <3>1, ProductMonotone
  <2> QED
    BY <1>1, <1>2, <1>3, <2>1
<1>5. CASE q < d
  <2>1. b * (q + 1) <= b * d
    <3>1. q + 1 \in Nat /\ q + 1 <= d
      BY <1>1, <1>5
    <3> QED
      BY <3>1, <1>1, ProductMonotone
  <2> QED
    BY <1>1, <1>2, <2>1
<1> QED
  BY <1>1, <1>4, <1>5 DEF d

\* CeilBlocks rounds up.
LEMMA Ceil ==
    ASSUME BlockLen \in Nat \ {0}, NEW n \in Nat
    PROVE  /\ CeilBlocks(n) \in Nat
           /\ n <= BlockLen * CeilBlocks(n)
           /\ \A q \in Nat : n <= BlockLen * q => CeilBlocks(n) <= q
<1> DEFINE a == n + BlockLen - 1
           c == a \div BlockLen
           r == a % BlockLen
<1>1. a \in Nat
  OBVIOUS
<1>2. c \in Nat /\ r \in 0 .. BlockLen - 1 /\ a = (BlockLen * c) + r
  BY <1>1, DivMod
<1>3. BlockLen * c \in Nat
  BY <1>2, Product
<1>4. CeilBlocks(n) = c
  BY DEF CeilBlocks
<1>5. a = n + BlockLen - 1
  OBVIOUS
<1> HIDE DEF a, c, r
<1>6. n <= BlockLen * c
  BY <1>2, <1>3, <1>5
<1>7. ASSUME NEW q \in Nat, n <= BlockLen * q, q < c
      PROVE  FALSE
  <2>1. q + 1 \in Nat /\ q + 1 <= c /\ BlockLen * q \in Nat
    BY <1>2, <1>7, Product
  <2>2. BlockLen * (q + 1) <= BlockLen * c
    BY <2>1, <1>2, ProductMonotone
  <2>3. BlockLen * (q + 1) = (BlockLen * q) + BlockLen
    BY OneMore
  <2> QED
    BY <1>2, <1>3, <1>5, <1>7, <2>1, <2>2, <2>3
<1> QED
  BY <1>2, <1>4, <1>6, <1>7

LEMMA CeilExact ==
    ASSUME BlockLen \in Nat \ {0}, NEW q \in Nat
    PROVE  CeilBlocks(BlockLen * q) = q /\ (BlockLen * q) \div BlockLen = q
<1>1. BlockLen * q \in Nat /\ BlockLen * (q + 1) = (BlockLen * q) + BlockLen
  BY Product, OneMore
<1> DEFINE m == BlockLen * q
<1>2. CeilBlocks(m) = (m + BlockLen - 1) \div BlockLen
  BY DEF CeilBlocks
<1>3. m + BlockLen - 1 \in Nat /\ m <= m + BlockLen - 1
      /\ m + BlockLen - 1 < BlockLen * (q + 1) /\ m < BlockLen * (q + 1)
  BY <1>1
<1>4. (m + BlockLen - 1) \div BlockLen = q
  BY <1>3, Quotient
<1>5. m \div BlockLen = q
  BY <1>1, <1>3, Quotient
<1> QED
  BY <1>2, <1>4, <1>5

\* A multiple of the length of a block, that more than c elements need, is
\* larger than c.
LEMMA MoreBlocks ==
    ASSUME BlockLen \in Nat \ {0}, NEW a \in Nat, NEW c \in Nat,
           BlockLen * a < BlockLen * c
    PROVE  a < c
<1>1. CASE c <= a
  <2>1. BlockLen * c <= BlockLen * a
    BY <1>1, ProductMonotone
  <2>2. BlockLen * c \in Nat /\ BlockLen * a \in Nat
    BY Product
  <2> QED
    BY <2>1, <2>2
<1> QED
  BY <1>1

LEMMA MaxOfTwo ==
    ASSUME NEW x \in Int, NEW y \in Int
    PROVE  Max({x, y}) = IF x >= y THEN x ELSE y
<1>1. \E m \in {x, y} : \A z \in {x, y} : m >= z
  OBVIOUS
<1>2. Max({x, y}) \in {x, y} /\ \A z \in {x, y} : Max({x, y}) >= z
  BY <1>1 DEF Max
<1> QED
  BY <1>2

LEMMA MinOfTwo ==
    ASSUME NEW x \in Int, NEW y \in Int
    PROVE  Min({x, y}) = IF x <= y THEN x ELSE y
<1>1. \E m \in {x, y} : \A z \in {x, y} : m <= z
  OBVIOUS
<1>2. Min({x, y}) \in {x, y} /\ \A z \in {x, y} : Min({x, y}) <= z
  BY <1>1 DEF Min
<1> QED
  BY <1>2

\* The blocks for a stack without room: more than there are, enough for the
\* new element, and too many only if all blocks are in use.
LEMMA NeededBlocks ==
    ASSUME Sane, NEW s, size[s] \in Nat, capacity[s] \in Nat, Allocated(s) \in Nat,
           capacity[s] = BlockLen * Allocated(s), Allocated(s) <= MaxBlocks,
           size[s] <= capacity[s], size[s] + 1 > capacity[s]
    PROVE  /\ Needed(s) \in Nat /\ Allocated(s) < Needed(s)
           /\ size[s] + 1 <= BlockLen * Needed(s)
           /\ Needed(s) > MaxBlocks => size[s] = MaxBlocks * BlockLen
<1> USE DEF Sane
<1> DEFINE half == (capacity[s] * 3) \div 2
           all == MaxBlocks * BlockLen
           most == Min({half, all})
           n == Max({size[s] + 1, most})
<1>1. half \in Nat
  <2>1. capacity[s] * 3 \in Nat
    OBVIOUS
  <2> QED
    BY <2>1, DivMod
<1>2. all \in Nat /\ all = BlockLen * MaxBlocks
  <2>1. MaxBlocks * BlockLen = BlockLen * MaxBlocks
    BY SMT
  <2> QED
    BY <2>1, Product
<1>3. capacity[s] <= all
  BY <1>2, ProductMonotone
<1> HIDE DEF half, all
<1>4. most \in Nat /\ most <= all
  BY <1>1, <1>2, MinOfTwo
<1> HIDE DEF most
<1>5. n \in Nat /\ n >= size[s] + 1 /\ (n = size[s] + 1 \/ n <= all)
  <2>1. size[s] + 1 \in Int /\ most \in Int
    BY <1>4
  <2>2. n = IF size[s] + 1 >= most THEN size[s] + 1 ELSE most
    BY <2>1, MaxOfTwo
  <2> HIDE DEF n
  <2> QED
    BY <1>2, <1>4, <2>2
<1>6. Needed(s) = CeilBlocks(n)
  BY DEF Needed, n, most, half, all
<1> HIDE DEF n
<1>7. CeilBlocks(n) \in Nat /\ n <= BlockLen * CeilBlocks(n)
      /\ (n <= BlockLen * MaxBlocks => CeilBlocks(n) <= MaxBlocks)
  BY <1>5, Ceil
<1>8. BlockLen * CeilBlocks(n) \in Nat /\ BlockLen * Allocated(s) \in Nat
  BY <1>7, Product
<1>9. size[s] + 1 <= BlockLen * CeilBlocks(n)
  BY <1>5, <1>7, <1>8
<1>10. Allocated(s) < CeilBlocks(n)
  <2>1. BlockLen * Allocated(s) < BlockLen * CeilBlocks(n)
    BY <1>8, <1>9
  <2> QED
    BY <2>1, <1>7, MoreBlocks
<1>11. CeilBlocks(n) > MaxBlocks => size[s] = all
  <2>1. CASE n <= all
    BY <2>1, <1>2, <1>7
  <2>2. CASE n = size[s] + 1 /\ n > all
    BY <2>2, <1>2, <1>3
  <2> QED
    BY <2>1, <2>2, <1>5, <1>2
<1> QED
  BY <1>6, <1>7, <1>9, <1>10, <1>11 DEF all

-----------------------------------------------------------------------------
\* Stacks and threads

\* Each kind has its stacks, one or two.
LEMMA StackNames ==
    /\ \A kind \in Kinds :
        /\ Len(StacksOf(kind)) \in {1, 2}
        /\ \A n \in 1 .. Len(StacksOf(kind)) : \A c \in 1 .. Contexts :
            Nth(kind, c, n) \in Stacks
        /\ \A n \in 1 .. Len(StacksOf(kind)) :
            StacksOf(kind)[n] \in ToSet(StacksOf(kind))
        /\ \A s \in ToSet(StacksOf(kind)) :
            \E n \in 1 .. Len(StacksOf(kind)) : s = StacksOf(kind)[n]
    /\ \A kind, other \in Kinds : \A c, d \in 1 .. Contexts :
        \A n \in 1 .. Len(StacksOf(kind)) : \A m \in 1 .. Len(StacksOf(other)) :
            Nth(kind, c, n) = Nth(other, d, m) => kind = other /\ c = d /\ n = m
<1>1. StacksOf("blksz") = <<"blkszs", "bmults">> /\ StacksOf("ukr") = <<"ukrs">>
  BY DEF StacksOf
<1>2. Len(StacksOf("blksz")) = 2 /\ Len(StacksOf("ukr")) = 1
  BY <1>1
<1>3. 1 .. 2 = {1, 2} /\ 1 .. 1 = {1}
  OBVIOUS
<1>4. /\ StacksOf("blksz")[1] = "blkszs" /\ StacksOf("blksz")[2] = "bmults"
      /\ StacksOf("ukr")[1] = "ukrs"
  BY <1>1
<1>5. ToSet(StacksOf("blksz")) = {"blkszs", "bmults"} /\ ToSet(StacksOf("ukr")) = {"ukrs"}
  BY <1>1, <1>2, <1>3, <1>4 DEF ToSet
<1>6. "blkszs" # "bmults" /\ "blkszs" # "ukrs" /\ "bmults" # "ukrs"
  OBVIOUS
<1>7. ASSUME NEW kind \in Kinds
      PROVE  /\ Len(StacksOf(kind)) \in {1, 2}
             /\ \A n \in 1 .. Len(StacksOf(kind)) : \A c \in 1 .. Contexts :
                 Nth(kind, c, n) \in Stacks
             /\ \A n \in 1 .. Len(StacksOf(kind)) :
                 StacksOf(kind)[n] \in ToSet(StacksOf(kind))
             /\ \A s \in ToSet(StacksOf(kind)) :
                 \E n \in 1 .. Len(StacksOf(kind)) : s = StacksOf(kind)[n]
  <2>1. CASE kind = "blksz"
    BY <2>1, <1>2, <1>3, <1>4, <1>5, Zenon DEF Nth, Stacks
  <2>2. CASE kind = "ukr"
    BY <2>2, <1>2, <1>3, <1>4, <1>5, Zenon DEF Nth, Stacks
  <2> QED
    BY <2>1, <2>2 DEF Kinds
<1>8. ASSUME NEW kind \in Kinds, NEW other \in Kinds, NEW c \in 1 .. Contexts,
             NEW d \in 1 .. Contexts, NEW n \in 1 .. Len(StacksOf(kind)),
             NEW m \in 1 .. Len(StacksOf(other)),
             Nth(kind, c, n) = Nth(other, d, m)
      PROVE  kind = other /\ c = d /\ n = m
  <2>1. c = d /\ StacksOf(kind)[n] = StacksOf(other)[m]
    BY <1>8 DEF Nth
  <2>2. (kind = "blksz" /\ n \in {1, 2}) \/ (kind = "ukr" /\ n = 1)
    BY <1>2, <1>3 DEF Kinds
  <2>3. (other = "blksz" /\ m \in {1, 2}) \/ (other = "ukr" /\ m = 1)
    BY <1>2, <1>3 DEF Kinds
  <2> QED
    BY <2>1, <2>2, <2>3, <1>4, <1>6
<1> QED
  BY <1>7, <1>8, Zenon

\* Where a thread is that registers, or has failed to.
LEMMA Facts ==
    ASSUME Sane, Typed, NEW t \in Threads, pc[t] # "idle" \/ reason[t] # "none"
    PROVE  /\ Kind(t) \in Kinds
           /\ stack[t] \in 1 .. Len(StacksOf(Kind(t))) /\ stack[t] \in Nat
           /\ cntx[t] \in 1 .. Contexts /\ cntx[t] \in Nat
           /\ At(t) = Nth(Kind(t), cntx[t], stack[t])
           /\ At(t) \in Stacks
<1>1. done[t] \in Nat \ {0} /\ done[t] <= Len(Wanted[t])
      /\ stack[t] \in 1 .. Len(StacksOf(Kind(t)))
  BY DEF Typed
<1>2. Kind(t) \in Kinds
  <2>1. Wanted[t] \in Seq(Kinds)
    BY DEF Sane
  <2>2. Len(Wanted[t]) \in Nat /\ DOMAIN Wanted[t] = 1 .. Len(Wanted[t])
    BY <2>1
  <2>3. done[t] \in 1 .. Len(Wanted[t])
    BY <1>1, <2>2
  <2> QED
    BY <2>1, <2>2, <2>3 DEF Kind
<1>3. cntx[t] \in 1 .. Contexts /\ stack[t] \in Nat
  BY DEF Typed
<1>4. At(t) = Nth(Kind(t), cntx[t], stack[t])
  BY DEF At, Nth
<1>5. At(t) \in Stacks
  BY <1>1, <1>2, <1>3, <1>4, StackNames
<1>6. cntx[t] \in Nat
  BY <1>3 DEF Sane
<1> QED
  BY <1>1, <1>2, <1>3, <1>4, <1>5, <1>6

\* The lock of a stack has one holder.
LEMMA Alone ==
    ASSUME PushInv, NEW t \in Threads, NEW u \in Threads,
           HoldsLock(t), HoldsLock(u), At(t) = At(u)
    PROVE  t = u
BY DEF PushInv, PushOk

\* What a stack is like.
LEMMA StackFacts ==
    ASSUME Sane, Typed, StackInv, NEW s \in Stacks
    PROVE  /\ size[s] \in Nat /\ capacity[s] \in Nat /\ Allocated(s) \in Nat
           /\ capacity[s] = BlockLen * Allocated(s) /\ Allocated(s) <= MaxBlocks
           /\ Registered <= size[s] /\ size[s] <= capacity[s]
           /\ capacity[s] <= MaxBlocks * BlockLen /\ MaxBlocks * BlockLen \in Nat
           /\ DOMAIN blocks[s] = 0 .. Allocated(s) - 1
<1>1. size[s] \in Nat /\ capacity[s] \in Nat
  BY DEF Typed
<1>2. Allocated(s) \in Nat
  BY <1>1, DivMod DEF Allocated, Sane
<1>3. capacity[s] = BlockLen * Allocated(s) /\ Allocated(s) <= MaxBlocks
  BY DEF StackInv
<1>4. MaxBlocks * BlockLen = BlockLen * MaxBlocks
  BY SMT DEF Sane
<1>5. capacity[s] <= MaxBlocks * BlockLen
  BY <1>2, <1>3, <1>4, ProductMonotone DEF Sane
<1>6. MaxBlocks * BlockLen \in Nat
  BY Product DEF Sane
<1> QED
  BY <1>1, <1>2, <1>3, <1>5, <1>6 DEF StackInv

-----------------------------------------------------------------------------
\* Steps that have no effect on the ids

\* Nothing happens to thread u.
Stays(u) ==
    /\ pc'[u] = pc[u] /\ done'[u] = done[u] /\ cntx'[u] = cntx[u] /\ stack'[u] = stack[u]
    /\ num_blocks_new'[u] = num_blocks_new[u] /\ new'[u] = new[u]
    /\ id_blksz'[u] = id_blksz[u] /\ id'[u] = id[u] /\ reason'[u] = reason[u]

LEMMA StaysSame ==
    ASSUME NEW u \in Threads, Stays(u)
    PROVE  /\ Kind(u)' = Kind(u) /\ At(u)' = At(u)
           /\ HoldsLock(u)' <=> HoldsLock(u)
           /\ \A c, n : (Passed(u, c, n)' <=> Passed(u, c, n)) /\ IdIn(u, c, n)' = IdIn(u, c, n)
BY DEF Stays, Kind, At, Passed, IdIn, HoldsLock

LEMMA OthersStay ==
    ASSUME Sane, Typed, NEW t \in Threads, Registers(t) \/ Step(t)
    PROVE  \A u \in Threads \ {t} : Stays(u)
<1> SUFFICES ASSUME NEW u \in Threads, u # t
             PROVE  Stays(u)
  OBVIOUS
<1> USE DEF Typed, Stays, Goto, call, history, stacks
<1>1. CASE Register(t)
  BY <1>1 DEF Register
<1>2. CASE Lock(t)
  BY <1>2 DEF Lock
<1>3. CASE Test(t)
  BY <1>3 DEF Test, Fail
<1>4. CASE Grow(t)
  BY <1>4 DEF Grow, AddBlock
<1>5. CASE GrowFails(t)
  BY <1>5 DEF GrowFails, AddBlock
<1>6. CASE Save(t)
  BY <1>6 DEF Save
<1>7. CASE Increase(t)
  BY <1>7 DEF Increase
<1>8. CASE Pushed(t)
  BY <1>8 DEF Pushed, Fail
<1> QED
  BY <1>1, <1>2, <1>3, <1>4, <1>5, <1>6, <1>7, <1>8 DEF Registers, Step, Grows, Pushes

\* A step changes only the stack that its thread is at, and that only in the
\* critical section: what PushInv says of other threads remains true.
LEMMA PushElsewhere ==
    ASSUME Sane, Typed, PushInv, NEW t \in Threads,
           \A u \in Threads \ {t} : Stays(u),
           \/ UNCHANGED <<size, capacity, lock>>
           \/ /\ HoldsLock(t) \/ lock[At(t)] = NULL
              /\ \A s \in Stacks : s # At(t) =>
                    size'[s] = size[s] /\ capacity'[s] = capacity[s] /\ lock'[s] = lock[s]
    PROVE  \A u \in Threads \ {t} : PushOk(u)'
<1> SUFFICES ASSUME NEW u \in Threads, u # t
             PROVE  PushOk(u)'
  OBVIOUS
<1>1. Stays(u) /\ PushOk(u)
  BY DEF PushInv
<1>2. CASE ~HoldsLock(u)
  BY <1>1, <1>2 DEF PushOk, HoldsLock, Stays
<1>3. CASE HoldsLock(u)
  <2>1. pc[u] # "idle" /\ lock[At(u)] = u
    BY <1>1, <1>3 DEF HoldsLock, PushOk
  <2>2. At(u) \in Stacks
    BY <2>1, Facts
  <2>3. size'[At(u)] = size[At(u)] /\ capacity'[At(u)] = capacity[At(u)]
        /\ lock'[At(u)] = lock[At(u)]
    <3>1. CASE UNCHANGED <<size, capacity, lock>>
      BY <3>1
    <3>2. CASE HoldsLock(t) \/ lock[At(t)] = NULL
      <4>1. At(u) # At(t)
        BY <3>2, <1>3, <2>1, Alone DEF Sane
      <4> QED
        BY <4>1, <2>2
    <3> QED
      BY <3>1, <3>2
  <2>4. At(u)' = At(u) /\ Allocated(At(u))' = Allocated(At(u))
    <3>1. At(u)' = At(u)
      BY <1>1, StaysSame
    <3> QED
      BY <3>1, <2>3 DEF Allocated
  <2> DEFINE a == At(u)
  <2>5. /\ a' = a /\ lock'[a] = u
        /\ pc[u] = "grow" =>
              /\ Allocated(a)' < num_blocks_new[u] /\ num_blocks_new[u] <= MaxBlocks
              /\ size'[a] + 1 <= BlockLen * num_blocks_new[u]
        /\ pc[u] \in {"save", "increase"} => size'[a] + 1 <= capacity'[a]
        /\ pc[u] = "increase" => new[u] = size'[a]
    BY <1>1, <2>1, <2>3, <2>4 DEF PushOk
  <2> QED
    BY <1>1, <2>5 DEF PushOk, Stays
<1> QED
  BY <1>2, <1>3

\* What a step leaves alone that has no effect on the ids
Quiet ==
    /\ UNCHANGED <<size, given, reason, disturbed>>
    /\ \A u \in Threads :
        /\ Kind(u)' = Kind(u)
        /\ pc'[u] = "idle" <=> pc[u] = "idle"
        /\ reason[u] # "none" => At(u)' = At(u)
        /\ pc[u] # "idle" =>
            \A c \in 1 .. Contexts : \A n \in 1 .. Len(StacksOf(Kind(u))) :
                /\ Passed(u, c, n)' <=> Passed(u, c, n)
                /\ Passed(u, c, n) => IdIn(u, c, n)' = IdIn(u, c, n)

LEMMA QuietStep ==
    ASSUME Sane, IInv, Quiet
    PROVE  IdInv' /\ FirstInv' /\ LevelInv' /\ IdsAreNew' /\ FailsForReason'
<1> USE DEF IInv
<1>1. IdInv'
  BY DEF Quiet, IdInv, Nth
<1>2. \A u \in Threads : Passed(u, 1, 1)' =>
        /\ Passed(u, 1, 1) /\ IdIn(u, 1, 1)' = IdIn(u, 1, 1) /\ Kind(u)' = Kind(u)
  <2> SUFFICES ASSUME NEW u \in Threads, Passed(u, 1, 1)'
               PROVE  Passed(u, 1, 1) /\ IdIn(u, 1, 1)' = IdIn(u, 1, 1) /\ Kind(u)' = Kind(u)
    OBVIOUS
  <2>1. pc[u] # "idle"
    BY DEF Quiet, Passed
  <2>2. 1 \in 1 .. Contexts /\ 1 \in 1 .. Len(StacksOf(Kind(u)))
    BY <2>1, Facts, StackNames DEF Sane
  <2> QED
    BY <2>1, <2>2 DEF Quiet
<1>3. FirstInv'
  BY <1>2 DEF FirstInv, Quiet
<1>4. LevelInv'
  <2> SUFFICES ASSUME NEW kind \in Kinds \ disturbed
               PROVE  /\ \A t, u \in Running(kind)' : t = u
                      /\ \A t \in Running(kind)' : \E size0 \in Nat : Level(kind, size0, t)'
                      /\ Running(kind)' = {} => \E size0 \in Nat :
                          \A c \in 1 .. Contexts : \A n \in 1 .. Len(StacksOf(kind)) :
                              size'[Nth(kind, c, n)] = size0
    BY DEF LevelInv, Quiet, Nth
  <2>1. Running(kind)' = Running(kind)
    BY DEF Running, Quiet
  <2>2. ASSUME NEW t \in Running(kind), NEW size0 \in Nat, Level(kind, size0, t)
        PROVE  Level(kind, size0, t)'
    <3>1. t \in Threads /\ pc[t] # "idle" /\ Kind(t) = kind
      BY DEF Running
    <3> QED
      BY <2>2, <3>1 DEF Level, Quiet, Nth
  <2> QED
    BY <2>1, <2>2 DEF LevelInv, Quiet
<1>5. IdsAreNew'
  BY DEF IdsAreNew, Quiet
<1>6. FailsForReason'
  BY DEF FailsForReason, Quiet
<1> QED
  BY <1>1, <1>3, <1>4, <1>5, <1>6

-----------------------------------------------------------------------------
\* Every step preserves the invariant.

LEMMA InitIInv ==
    ASSUME Sane, Init
    PROVE  IInv
<1> USE DEF Init
<1> DEFINE filled == CeilBlocks(Registered)
<1>1. filled \in Nat /\ Registered <= BlockLen * filled /\ filled <= MaxBlocks
  <2>1. Registered <= BlockLen * MaxBlocks
    <3>1. MaxBlocks * BlockLen = BlockLen * MaxBlocks
      BY SMT DEF Sane
    <3> QED
      BY <3>1 DEF Sane
  <2> QED
    BY <2>1, Ceil DEF Sane
<1>2. \A s \in Stacks : capacity[s] = BlockLen * filled /\ capacity[s] \in Nat
      /\ Allocated(s) = filled
  <2>1. filled * BlockLen = BlockLen * filled /\ filled * BlockLen \in Nat
    <3> HIDE DEF filled
    <3> QED
      BY <1>1, SMT DEF Sane
  <2>2. (BlockLen * filled) \div BlockLen = filled
    <3> HIDE DEF filled
    <3> QED
      BY <1>1, CeilExact DEF Sane
  <2> HIDE DEF filled
  <2>3. \A s \in Stacks : capacity[s] = filled * BlockLen
    BY DEF filled
  <2> QED
    BY <2>1, <2>2, <2>3 DEF Allocated
<1>3. \A s \in Stacks : blocks[s] = [b \in 0 .. filled - 1 |-> 1]
  OBVIOUS
<1> HIDE DEF filled
<1>4. Typed
  <2>1. \A t \in Threads : Len(Wanted[t]) \in Nat
    BY DEF Sane
  <2>2. capacity \in [Stacks -> Nat]
    BY <1>2
  <2>3. 1 \in 1 .. Contexts
    BY DEF Sane
  <2>4. /\ checking \in BOOLEAN /\ aborted \in BOOLEAN /\ size \in [Stacks -> Nat]
        /\ DOMAIN blocks = Stacks /\ lock \in [Stacks -> Threads \cup {NULL}]
        /\ failures \in Nat /\ pc \in [Threads -> Points] /\ done \in [Threads -> Nat]
    BY DEF Points, Sane
  <2>5. \A t \in Threads :
          /\ done[t] <= Len(Wanted[t])
          /\ ~ (pc[t] # "idle" \/ reason[t] # "none")
    BY <2>1
  <2>6. /\ cntx \in [Threads -> 1 .. Contexts] /\ stack \in [Threads -> {1, 2}]
        /\ num_blocks_new \in [Threads -> Nat] /\ new \in [Threads -> Nat]
        /\ id_blksz \in [Threads -> Nat] /\ id \in [Threads -> Nat]
        /\ given \subseteq Threads \X Nat \X Kinds \X Nat
        /\ reason \in [Threads -> {"none", "full", "mismatch"}]
        /\ disturbed \subseteq Kinds
    BY <2>3
  <2> QED
    BY <2>2, <2>4, <2>5, <2>6 DEF Typed
<1>5. StackInv
  BY <1>1, <1>2, <1>3 DEF StackInv, Sane
<1>6. PushInv /\ IdInv /\ FirstInv
  BY DEF PushInv, PushOk, IdInv, FirstInv, HoldsLock, Passed
<1>7. LevelInv
  <2>1. \A kind : Running(kind) = {}
    BY DEF Running
  <2>2. \A kind \in Kinds : \A c \in 1 .. Contexts : \A n \in 1 .. Len(StacksOf(kind)) :
          size[Nth(kind, c, n)] = Registered
    <3>1. \A kind \in Kinds : \A c \in 1 .. Contexts : \A n \in 1 .. Len(StacksOf(kind)) :
            Nth(kind, c, n) \in Stacks
      BY StackNames
    <3> QED
      BY <3>1
  <2> QED
    BY <2>1, <2>2 DEF LevelInv, Sane
<1>8. IdsAreNew /\ FailsForReason
  BY DEF IdsAreNew, FailsForReason
<1> QED
  BY <1>4, <1>5, <1>6, <1>7, <1>8 DEF IInv

LEMMA LockStep ==
    ASSUME Sane, IInv, NEW t \in Threads, Pushes(t), Lock(t)
    PROVE  IInv'
<1> USE DEF IInv
<1>1. /\ pc[t] = "lock" /\ lock[At(t)] = NULL
      /\ lock' = [lock EXCEPT ![At(t)] = t] /\ pc' = [pc EXCEPT ![t] = "test"]
      /\ UNCHANGED <<checking, aborted, size, capacity, blocks, failures, done, cntx, stack,
                     num_blocks_new, new, id_blksz, id, given, reason, disturbed>>
  BY DEF Pushes, Lock, Goto, call, history
<1>2. At(t) \in Stacks
  BY <1>1, Facts
<1>3. \A u : Kind(u)' = Kind(u) /\ At(u)' = At(u)
  BY <1>1 DEF Kind, At
<1>4. pc'[t] = "test" /\ lock'[At(t)] = t
  BY <1>1, <1>2 DEF Typed
<1>5. Typed'
  BY <1>1, <1>3 DEF Typed, Points
<1>6. StackInv'
  BY <1>1 DEF StackInv, Allocated
<1>7. PushInv'
  <2>1. PushOk(t)'
    BY <1>3, <1>4 DEF PushOk
  <2>2. \A u \in Threads \ {t} : PushOk(u)'
    <3>1. \A u \in Threads \ {t} : Stays(u)
      BY OthersStay DEF Step
    <3> QED
      BY <3>1, <1>1, PushElsewhere
  <2> QED
    BY <2>1, <2>2 DEF PushInv
<1>8. Quiet
  <2>1. \A u \in Threads : \A c, n :
          (Passed(u, c, n)' <=> Passed(u, c, n)) /\ IdIn(u, c, n)' = IdIn(u, c, n)
    BY <1>1 DEF Passed, IdIn, Typed
  <2>2. \A u \in Threads : pc'[u] = "idle" <=> pc[u] = "idle"
    BY <1>1 DEF Typed
  <2> QED
    BY <1>1, <1>3, <2>1, <2>2 DEF Quiet
<1> QED
  BY <1>5, <1>6, <1>7, <1>8, QuietStep

\* Without a new id, or a larger stack, ids remain those of one registration.
LEMMA Fewer ==
    ASSUME Sane, IInv, UNCHANGED <<size, given>>,
           \A u \in Threads : \A c, n \in Nat \ {0} : Passed(u, c, n)' =>
               Passed(u, c, n) /\ IdIn(u, c, n)' = IdIn(u, c, n) /\ Kind(u)' = Kind(u)
    PROVE  IdInv' /\ FirstInv' /\ IdsAreNew'
<1> USE DEF IInv
<1>1. IdInv'
  <2> SUFFICES ASSUME NEW u \in Threads, NEW c \in 1 .. Contexts,
                      NEW n \in 1 .. Len(StacksOf(Kind(u)')), Passed(u, c, n)'
               PROVE  /\ Registered <= IdIn(u, c, n)'
                      /\ IdIn(u, c, n)' < size'[Nth(Kind(u)', c, n)]
    BY DEF IdInv, Nth
  <2>1. Passed(u, c, n) /\ IdIn(u, c, n)' = IdIn(u, c, n) /\ Kind(u)' = Kind(u)
    OBVIOUS
  <2>2. pc[u] # "idle"
    BY <2>1 DEF Passed
  <2> QED
    BY <2>1, <2>2 DEF IdInv
<1>2. FirstInv'
  BY DEF FirstInv
<1>3. IdsAreNew'
  BY DEF IdsAreNew
<1> QED
  BY <1>1, <1>2, <1>3

\* A registration ends.
LEMMA EndLevels ==
    ASSUME Sane, IInv, NEW t \in Threads, pc[t] # "idle", pc'[t] = "idle",
           \A u \in Threads \ {t} : Stays(u), UNCHANGED <<size, disturbed>>,
           Kind(t) \in Kinds \ disturbed => \E size0 \in Nat :
               \A c \in 1 .. Contexts : \A n \in 1 .. Len(StacksOf(Kind(t))) :
                   size[Nth(Kind(t), c, n)] = size0
    PROVE  LevelInv'
<1> USE DEF IInv
<1> SUFFICES ASSUME NEW kind \in Kinds \ disturbed
             PROVE  /\ \A u, v \in Running(kind)' : u = v
                    /\ \A u \in Running(kind)' : \E size0 \in Nat : Level(kind, size0, u)'
                    /\ Running(kind)' = {} => \E size0 \in Nat :
                        \A c \in 1 .. Contexts : \A n \in 1 .. Len(StacksOf(kind)) :
                            size'[Nth(kind, c, n)] = size0
  BY DEF LevelInv, Nth
<1>1. \A u \in Threads \ {t} : Kind(u)' = Kind(u) /\ pc'[u] = pc[u]
  BY StaysSame DEF Stays
<1>2. Running(kind)' = Running(kind) \ {t}
  BY <1>1 DEF Running
<1>3. CASE Kind(t) = kind
  <2>1. t \in Running(kind)
    BY <1>3 DEF Running
  <2>2. Running(kind)' = {}
    BY <1>2, <2>1 DEF LevelInv
  <2> QED
    BY <1>3, <2>2
<1>4. CASE Kind(t) # kind
  <2>1. Running(kind)' = Running(kind) /\ t \notin Running(kind)
    BY <1>2, <1>4 DEF Running
  <2>2. ASSUME NEW u \in Running(kind), NEW size0 \in Nat, Level(kind, size0, u)
        PROVE  Level(kind, size0, u)'
    <3>1. u \in Threads \ {t}
      BY <2>1 DEF Running
    <3>2. \A c, n : (Passed(u, c, n)' <=> Passed(u, c, n)) /\ IdIn(u, c, n)' = IdIn(u, c, n)
      BY <3>1, StaysSame
    <3> QED
      BY <2>2, <3>2 DEF Level, Nth
  <2>3. \A u, v \in Running(kind) : u = v
    BY DEF LevelInv
  <2>4. \A u \in Running(kind) : \E size0 \in Nat : Level(kind, size0, u)'
    <3>1. \A u \in Running(kind) : \E size0 \in Nat : Level(kind, size0, u)
      BY DEF LevelInv
    <3> QED
      BY <3>1, <2>2
  <2>5. Running(kind) = {} => \E size0 \in Nat :
          \A c \in 1 .. Contexts : \A n \in 1 .. Len(StacksOf(kind)) :
              size[Nth(kind, c, n)] = size0
    BY DEF LevelInv
  <2> QED
    BY <2>1, <2>3, <2>4, <2>5
<1> QED
  BY <1>3, <1>4

LEMMA TestStep ==
    ASSUME Sane, IInv, NEW t \in Threads, Pushes(t), Test(t)
    PROVE  IInv'
<1> USE DEF IInv
<1> DEFINE s == At(t)
<1>1. /\ pc[t] = "test"
      /\ UNCHANGED <<checking, aborted, size, capacity, blocks, failures, done, cntx, stack,
                     new, id_blksz, id>>
  BY DEF Pushes, Test
<1>2. s \in Stacks /\ HoldsLock(t) /\ lock[s] = t
  BY <1>1, Facts DEF HoldsLock, PushInv, PushOk
<1>3. \A u : Kind(u)' = Kind(u) /\ At(u)' = At(u)
  BY <1>1 DEF Kind, At
<1>4. \A u \in Threads \ {t} : Stays(u)
  BY OthersStay DEF Step
<1>5. StackInv'
  BY <1>1 DEF StackInv, Allocated
<1>6. /\ size[s] \in Nat /\ capacity[s] \in Nat /\ Allocated(s) \in Nat
      /\ capacity[s] = BlockLen * Allocated(s) /\ Allocated(s) <= MaxBlocks
      /\ size[s] <= capacity[s] /\ size[s] + 1 <= MaxBlocks * BlockLen + 1
      /\ capacity[s] <= MaxBlocks * BlockLen /\ MaxBlocks * BlockLen \in Nat
  <2> HIDE DEF s
  <2> QED
    BY <1>2, StackFacts
<1>7. Allocated(s)' = Allocated(s)
  BY <1>1, <1>3 DEF Allocated
<1> DEFINE Stay(point) == /\ pc' = [pc EXCEPT ![t] = point]
                          /\ UNCHANGED <<lock, given, reason, disturbed>>
           Room == /\ size[s] + 1 <= capacity[s] /\ Stay("save")
                   /\ UNCHANGED num_blocks_new
           More == /\ size[s] + 1 > capacity[s] /\ ~ (Needed(s) > MaxBlocks)
                   /\ num_blocks_new' = [num_blocks_new EXCEPT ![t] = Needed(s)]
                   /\ Stay("grow")
           Full == /\ size[s] + 1 > capacity[s] /\ Needed(s) > MaxBlocks
                   /\ lock' = [lock EXCEPT ![s] = NULL] /\ pc' = [pc EXCEPT ![t] = "idle"]
                   /\ reason' = [reason EXCEPT ![t] = "full"]
                   /\ UNCHANGED <<given, disturbed, num_blocks_new>>
<1>8. Room \/ More \/ Full
  <2>1. size[s] + 1 <= capacity[s] \/ size[s] + 1 > capacity[s]
    BY <1>6
  <2> QED
    BY <2>1 DEF Test, Goto, Fail, history
<1>9. ASSUME NEW point \in {"save", "grow"}, Stay(point)
      PROVE  /\ pc'[t] = point /\ Quiet /\ \A u \in Threads \ {t} : PushOk(u)'
  <2>0. pc'[t] = point
    BY <1>9 DEF Typed
  <2>1. Quiet
    <3>1. \A u \in Threads : pc'[u] = "idle" <=> pc[u] = "idle"
      BY <1>1, <1>9 DEF Typed
    <3>2. \A u \in Threads : pc'[u] = "pushed" <=> pc[u] = "pushed"
      BY <1>1, <1>9 DEF Typed
    <3>3. \A u \in Threads : \A c, n :
            (Passed(u, c, n)' <=> Passed(u, c, n)) /\ IdIn(u, c, n)' = IdIn(u, c, n)
      BY <1>1, <3>1, <3>2 DEF Passed, IdIn
    <3> QED
      BY <1>1, <1>3, <1>9, <3>1, <3>3 DEF Quiet
  <2>2. \A u \in Threads \ {t} : PushOk(u)'
    BY <1>1, <1>4, <1>9, PushElsewhere
  <2> QED
    BY <2>0, <2>1, <2>2
<1>10. CASE Room
  <2>1. pc'[t] = "save" /\ Quiet /\ \A u \in Threads \ {t} : PushOk(u)'
    BY <1>9, <1>10
  <2>2. Typed'
    BY <1>1, <1>3, <1>10 DEF Typed, Points
  <2>3. PushOk(t)'
    BY <1>1, <1>2, <1>3, <1>10, <2>1 DEF PushOk, HoldsLock
  <2> QED
    BY <1>5, <2>1, <2>2, <2>3, QuietStep DEF PushInv
<1>11. CASE More
  <2>1. pc'[t] = "grow" /\ Quiet /\ \A u \in Threads \ {t} : PushOk(u)'
    BY <1>9, <1>11
  <2>2. /\ Needed(s) \in Nat /\ Allocated(s) < Needed(s) /\ Needed(s) <= MaxBlocks
        /\ size[s] + 1 <= BlockLen * Needed(s)
    <3>1. /\ Needed(s) \in Nat /\ Allocated(s) < Needed(s)
          /\ size[s] + 1 <= BlockLen * Needed(s)
      <4>1. size[s] + 1 > capacity[s]
        BY <1>11
      <4> HIDE DEF s
      <4> QED
        BY <1>6, <4>1, NeededBlocks
    <3>2. MaxBlocks \in Nat
      BY DEF Sane
    <3> QED
      BY <1>11, <3>1, <3>2
  <2>3. num_blocks_new'[t] = Needed(s) /\ num_blocks_new' \in [Threads -> Nat]
    BY <1>11, <2>2 DEF Typed
  <2>4. Typed'
    BY <1>1, <1>3, <1>11, <2>3 DEF Typed, Points
  <2>5. PushOk(t)'
    <3>1. lock'[s] = t /\ s' = s
      BY <1>2, <1>3, <1>11
    <3> QED
      BY <1>1, <1>7, <2>1, <2>2, <2>3, <3>1 DEF PushOk
  <2> QED
    BY <1>5, <2>1, <2>4, <2>5, QuietStep DEF PushInv
<1>12. CASE Full
  <2>1. size[s] = MaxBlocks * BlockLen
    <3>1. size[s] + 1 > capacity[s] /\ Needed(s) > MaxBlocks
      BY <1>12
    <3> HIDE DEF s
    <3> QED
      BY <1>6, <3>1, NeededBlocks
  <2>2. pc'[t] = "idle" /\ reason'[t] = "full"
    BY <1>12 DEF Typed
  <2>3. Typed'
    BY <1>1, <1>2, <1>3, <1>12, Facts DEF Typed, Points
  <2>4. PushInv'
    <3>1. \A u \in Threads \ {t} : PushOk(u)'
      BY <1>1, <1>2, <1>4, <1>12, PushElsewhere
    <3>2. PushOk(t)'
      BY <2>2 DEF PushOk, HoldsLock
    <3> QED
      BY <3>1, <3>2 DEF PushInv
  <2>5. IdInv' /\ FirstInv' /\ IdsAreNew'
    <3>1. \A u \in Threads : \A c, n : Passed(u, c, n)' =>
               Passed(u, c, n) /\ IdIn(u, c, n)' = IdIn(u, c, n) /\ Kind(u)' = Kind(u)
      <4> SUFFICES ASSUME NEW u \in Threads, NEW c, NEW n, Passed(u, c, n)'
                   PROVE  Passed(u, c, n) /\ IdIn(u, c, n)' = IdIn(u, c, n)
                          /\ Kind(u)' = Kind(u)
        OBVIOUS
      <4>1. u # t
        BY <2>2 DEF Passed
      <4> QED
        BY <1>4, <4>1, StaysSame
    <3> QED
      BY <1>1, <1>12, <3>1, Fewer
  <2>6. LevelInv'
    <3>1. ASSUME Kind(t) \in Kinds \ disturbed
          PROVE  \E size0 \in Nat :
                   \A c \in 1 .. Contexts : \A n \in 1 .. Len(StacksOf(Kind(t))) :
                       size[Nth(Kind(t), c, n)] = size0
      <4>1. t \in Running(Kind(t))
        BY <1>1 DEF Running
      <4>2. PICK size0 \in Nat : Level(Kind(t), size0, t)
        BY <3>1, <4>1 DEF LevelInv
      <4>3. /\ stack[t] \in 1 .. Len(StacksOf(Kind(t))) /\ cntx[t] \in 1 .. Contexts
            /\ s = Nth(Kind(t), cntx[t], stack[t]) /\ Kind(t) \in Kinds
            /\ stack[t] \in Nat /\ cntx[t] \in Nat
        BY <1>1, Facts
      <4>4. ~ Passed(t, cntx[t], stack[t])
        BY <1>1, <4>3 DEF Passed
      <4>5. size[s] = size0
        BY <4>2, <4>3, <4>4 DEF Level
      <4>6. ~ Passed(t, 1, 1)
        <5>1. SUFFICES ASSUME Passed(t, 1, 1)
                       PROVE  FALSE
          OBVIOUS
        <5>2. 1 \in 1 .. Contexts /\ 1 \in 1 .. Len(StacksOf(Kind(t)))
          BY <4>3, StackNames DEF Sane
        <5>3. size[Nth(Kind(t), 1, 1)] = size0 + 1
          BY <5>1, <5>2, <4>2 DEF Level
        <5>4. Nth(Kind(t), 1, 1) \in Stacks
          BY <5>2, <4>3, StackNames
        <5>5. size[Nth(Kind(t), 1, 1)] <= capacity[Nth(Kind(t), 1, 1)]
              /\ capacity[Nth(Kind(t), 1, 1)] <= MaxBlocks * BlockLen
              /\ capacity[Nth(Kind(t), 1, 1)] \in Nat
          BY <5>4, StackFacts
        <5> QED
          BY <5>3, <5>5, <4>5, <2>1, <1>6
      <4>7. \A c \in 1 .. Contexts : \A n \in 1 .. Len(StacksOf(Kind(t))) : ~ Passed(t, c, n)
        <5>1. cntx[t] = 1 /\ stack[t] = 1
          BY <1>1, <4>3, <4>6 DEF Passed
        <5> QED
          BY <1>1, <5>1, <4>3, StackNames DEF Passed, Sane
      <4> QED
        BY <4>2, <4>7 DEF Level
    <3> QED
      BY <1>1, <1>4, <1>12, <2>2, <3>1, EndLevels
  <2>7. FailsForReason'
    <3> SUFFICES ASSUME NEW u \in Threads
                 PROVE  /\ reason'[u] = "full" => size'[At(u)'] = MaxBlocks * BlockLen
                        /\ reason'[u] = "mismatch" => Kind(u)' \in disturbed'
      BY DEF FailsForReason
    <3>1. CASE u = t
      BY <3>1, <2>1, <2>2, <1>1, <1>3
    <3>2. CASE u # t
      BY <3>2, <1>1, <1>3, <1>4, <1>12 DEF Stays, FailsForReason
    <3> QED
      BY <3>1, <3>2
  <2> QED
    BY <1>5, <2>3, <2>4, <2>5, <2>6, <2>7
<1> QED
  BY <1>8, <1>10, <1>11, <1>12

\* One more block, there or not
LEMMA AddBlockStep ==
    ASSUME Sane, IInv, NEW t \in Threads, pc[t] = "grow", NEW block \in Nat,
           AddBlock(t, NextBlock(At(t)), block), UNCHANGED aborted,
           \A u \in Threads \ {t} : Stays(u),
           failures' \in Nat, failures <= failures',
           block = 0 => ~checking /\ failures' > 0
    PROVE  IInv'
<1> USE DEF IInv
<1> DEFINE s == At(t)
           a == Allocated(s)
<1>1. s \in Stacks /\ HoldsLock(t) /\ lock[s] = t
  BY Facts DEF HoldsLock, PushInv, PushOk
<1>2. /\ size[s] \in Nat /\ capacity[s] \in Nat /\ a \in Nat
      /\ capacity[s] = BlockLen * a /\ a <= MaxBlocks
      /\ size[s] <= capacity[s] /\ DOMAIN blocks[s] = 0 .. a - 1
  <2> HIDE DEF s
  <2> QED
    BY <1>1, StackFacts
<1>3. a < num_blocks_new[t] /\ num_blocks_new[t] <= MaxBlocks
      /\ size[s] + 1 <= BlockLen * num_blocks_new[t] /\ num_blocks_new[t] \in Nat
  BY DEF PushInv, PushOk, Typed
<1>4. NextBlock(s) = a
  <2>1. CeilBlocks(BlockLen * a) = a
    <3> HIDE DEF a
    <3> QED
      BY <1>2, CeilExact DEF Sane
  <2> QED
    BY <1>2, <2>1 DEF NextBlock
<1>5. /\ blocks' = [blocks EXCEPT ![s] =
              [i \in DOMAIN blocks[s] \cup {a} |-> IF i = a THEN block ELSE blocks[s][i]]]
      /\ capacity' = [capacity EXCEPT ![s] = capacity[s] + BlockLen]
      /\ pc' = IF a + 1 < num_blocks_new[t] THEN pc ELSE [pc EXCEPT ![t] = "save"]
      /\ UNCHANGED <<checking, aborted, size, lock, done, cntx, stack, num_blocks_new, new,
                     id_blksz, id, given, reason, disturbed>>
  <2>1. AddBlock(t, a, block)
    BY <1>4
  <2> HIDE DEF a
  <2> QED
    BY <2>1 DEF AddBlock, Goto, call, history
<1>6. \A u : Kind(u)' = Kind(u) /\ At(u)' = At(u)
  BY <1>5 DEF Kind, At
<1>7. capacity'[s] = BlockLen * (a + 1) /\ capacity'[s] \in Nat /\ Allocated(s)' = a + 1
  <2>1. capacity'[s] = capacity[s] + BlockLen
    BY <1>1, <1>5 DEF Typed
  <2>2. BlockLen * (a + 1) = (BlockLen * a) + BlockLen
    <3> HIDE DEF a
    <3> QED
      BY <1>2, OneMore DEF Sane
  <2>3. capacity'[s] = BlockLen * (a + 1)
    BY <1>2, <2>1, <2>2
  <2>4. (BlockLen * (a + 1)) \div BlockLen = a + 1
    <3> HIDE DEF a
    <3>1. a + 1 \in Nat
      BY <1>2
    <3> QED
      BY <3>1, CeilExact DEF Sane
  <2>5. capacity'[s] \in Nat
    BY <1>2, <2>1 DEF Sane
  <2>6. s' = s
    BY <1>6
  <2>7. Allocated(s)' = capacity'[s] \div BlockLen
    BY <2>6 DEF Allocated
  <2> QED
    BY <2>3, <2>4, <2>5, <2>7
<1>8. Typed'
  <2>1. capacity' \in [Stacks -> Nat] /\ DOMAIN blocks' = Stacks /\ pc' \in [Threads -> Points]
    <3>1. capacity' \in [Stacks -> Nat]
      <4>1. capacity[s] + BlockLen \in Nat
        BY <1>2 DEF Sane
      <4> HIDE DEF s
      <4> QED
        BY <1>1, <1>5, <4>1 DEF Typed
    <3>2. DOMAIN blocks' = Stacks
      BY <1>5 DEF Typed
    <3>3. pc' \in [Threads -> Points]
      BY <1>5 DEF Typed, Points
    <3> QED
      BY <3>1, <3>2, <3>3
  <2>2. \A u \in Threads : pc'[u] = "idle" <=> pc[u] = "idle"
    BY <1>5 DEF Typed
  <2> QED
    BY <1>5, <1>6, <2>1, <2>2 DEF Typed
<1>9. StackInv'
  <2> SUFFICES ASSUME NEW x \in Stacks
               PROVE  /\ capacity'[x] = BlockLen * Allocated(x)' /\ Allocated(x)' <= MaxBlocks
                      /\ Registered <= size'[x] /\ size'[x] <= capacity'[x]
                      /\ DOMAIN blocks'[x] = 0 .. Allocated(x)' - 1
                      /\ \A b \in DOMAIN blocks'[x] :
                            blocks'[x][b] = 0 => ~checking' /\ failures' > 0
    BY DEF StackInv
  <2>1. CASE x = s
    <3>1. blocks'[s] = [i \in DOMAIN blocks[s] \cup {a} |->
                     IF i = a THEN block ELSE blocks[s][i]]
      BY <1>1, <1>5 DEF Typed
    <3>2. DOMAIN blocks'[s] = 0 .. a
      BY <1>2, <3>1
    <3>3. \A b \in 0 .. a : blocks'[s][b] = IF b = a THEN block ELSE blocks[s][b]
      BY <1>2, <3>1
    <3>4. \A b \in 0 .. a : blocks'[s][b] = 0 => ~checking' /\ failures' > 0
      <4>1. failures \in Nat /\ \A b \in 0 .. a - 1 :
              blocks[s][b] = 0 => ~checking /\ failures > 0
        BY <1>1, <1>2 DEF StackInv, Typed
      <4> SUFFICES ASSUME NEW b \in 0 .. a, blocks'[s][b] = 0
                   PROVE  ~checking' /\ failures' > 0
        OBVIOUS
      <4>2. checking' = checking
        BY <1>5
      <4>3. CASE b = a
        <5>1. block = 0
          BY <3>3, <4>3
        <5>2. ~checking /\ failures' > 0
          BY <5>1
        <5> QED
          BY <4>2, <5>2
      <4>4. CASE b # a
        <5>1. b \in 0 .. a - 1
          BY <4>4, <1>2
        <5>2. blocks[s][b] = 0
          BY <3>3, <4>4
        <5>3. ~checking /\ failures > 0
          BY <4>1, <5>1, <5>2
        <5>4. failures' > 0
          BY <4>1, <5>3
        <5> QED
          BY <4>2, <5>3, <5>4
      <4> QED
        BY <4>3, <4>4
    <3>5. Registered <= size[s] /\ size[s] <= capacity'[s]
      <4>1. capacity'[s] = capacity[s] + BlockLen
        BY <1>1, <1>5 DEF Typed
      <4>2. Registered <= size[s]
        BY <1>1 DEF StackInv
      <4> QED
        BY <1>2, <4>1, <4>2 DEF Sane
    <3>6. a + 1 <= MaxBlocks
      BY <1>2, <1>3 DEF Sane
    <3>7. 0 .. a = 0 .. (a + 1) - 1
      BY <1>2
    <3>8. size'[s] = size[s]
      BY <1>5
    <3>9. Allocated(x)' = a + 1
      BY <2>1, <1>7, <1>6 DEF Allocated
    <3> HIDE DEF s, a
    <3> QED
      BY <2>1, <3>2, <3>4, <3>5, <3>6, <3>7, <3>8, <3>9, <1>7
  <2>2. CASE x # s
    <3>1. capacity'[x] = capacity[x] /\ blocks'[x] = blocks[x] /\ size'[x] = size[x]
      BY <2>2, <1>5 DEF Typed
    <3>2. Allocated(x)' = Allocated(x)
      BY <3>1 DEF Allocated
    <3>3. \A b \in DOMAIN blocks[x] : blocks[x][b] = 0 => ~checking' /\ failures' > 0
      BY <1>5 DEF StackInv, Typed
    <3> QED
      BY <3>1, <3>2, <3>3 DEF StackInv
  <2> QED
    BY <2>1, <2>2
<1>10. PushInv'
  <2>1. \A u \in Threads \ {t} : PushOk(u)'
    <3>1. \A x \in Stacks : x # At(t) =>
            size'[x] = size[x] /\ capacity'[x] = capacity[x] /\ lock'[x] = lock[x]
      BY <1>5 DEF Typed
    <3> QED
      BY <1>1, <3>1, PushElsewhere
  <2>2. PushOk(t)'
    <3>1. s' = s /\ lock'[s] = t /\ size'[s] = size[s]
      BY <1>1, <1>5, <1>6
    <3>2. CASE a + 1 < num_blocks_new[t]
      <4>1. pc'[t] = "grow" /\ num_blocks_new'[t] = num_blocks_new[t]
        BY <3>2, <1>5
      <4>2. Allocated(At(t))' < num_blocks_new[t]
        BY <1>7, <3>2
      <4> QED
        BY <1>3, <3>1, <4>1, <4>2 DEF PushOk
    <3>3. CASE ~ (a + 1 < num_blocks_new[t])
      <4>1. pc'[t] = "save"
        BY <3>3, <1>5 DEF Typed
      <4>2. num_blocks_new[t] = a + 1
        BY <3>3, <1>2, <1>3
      <4>3. size'[s] + 1 <= capacity'[s]
        BY <1>3, <1>7, <3>1, <4>2
      <4> QED
        BY <3>1, <4>1, <4>3 DEF PushOk
    <3> QED
      BY <3>2, <3>3
  <2> QED
    BY <2>1, <2>2 DEF PushInv
<1>11. Quiet
  <2>1. \A u \in Threads : /\ pc'[u] = "idle" <=> pc[u] = "idle"
                           /\ pc'[u] = "pushed" <=> pc[u] = "pushed"
    BY <1>5 DEF Typed
  <2>2. \A u \in Threads : \A c, n :
          (Passed(u, c, n)' <=> Passed(u, c, n)) /\ IdIn(u, c, n)' = IdIn(u, c, n)
    BY <1>5, <2>1 DEF Passed, IdIn
  <2> QED
    BY <1>5, <1>6, <2>1, <2>2 DEF Quiet
<1> QED
  BY <1>8, <1>9, <1>10, <1>11, QuietStep

LEMMA GrowStep ==
    ASSUME Sane, IInv, NEW t \in Threads, ~aborted, Grow(t)
    PROVE  IInv'
<1> USE DEF IInv
<1> DEFINE s == At(t)
           b == NextBlock(s)
<1>1. pc[t] = "grow" /\ UNCHANGED <<aborted, failures>> /\ b \notin DOMAIN blocks[s]
  <2>1. pc[t] = "grow" /\ UNCHANGED <<aborted, failures>>
    BY DEF Grow
  <2>2. s \in Stacks
    BY <2>1, Facts
  <2>3. Allocated(s) \in Nat /\ capacity[s] = BlockLen * Allocated(s)
        /\ DOMAIN blocks[s] = 0 .. Allocated(s) - 1
    <3> HIDE DEF s
    <3> QED
      BY <2>2, StackFacts
  <2>4. b = Allocated(s)
    <3> HIDE DEF s
    <3> QED
      BY <2>3, CeilExact DEF b, NextBlock, Sane
  <2> QED
    BY <2>1, <2>3, <2>4
<1>2. AddBlock(t, NextBlock(At(t)), 1)
  BY <1>1 DEF Grow
<1>3. \A u \in Threads \ {t} : Stays(u)
  BY OthersStay DEF Step, Grows
<1>4. failures' \in Nat /\ failures <= failures'
  BY <1>1 DEF Typed
<1> QED
  BY <1>1, <1>2, <1>3, <1>4, AddBlockStep

LEMMA GrowFailsStep ==
    ASSUME Sane, IInv, NEW t \in Threads, ~aborted, GrowFails(t)
    PROVE  IInv'
<1> USE DEF IInv
<1>1. pc[t] = "grow" /\ failures' = failures + 1 /\ failures \in Nat
  BY DEF GrowFails, Typed
<1>2. \A u \in Threads \ {t} : Stays(u)
  BY OthersStay DEF Step, Grows
<1>3. CASE checking
  <2>1. /\ aborted' = TRUE
        /\ UNCHANGED <<checking, size, capacity, blocks, lock, pc, done, cntx, stack,
                       num_blocks_new, new, id_blksz, id, given, reason, disturbed>>
    BY <1>3 DEF GrowFails, call, history
  <2>2. \A u : Kind(u)' = Kind(u) /\ At(u)' = At(u)
    BY <2>1 DEF Kind, At
  <2>3. Typed'
    <3>1. aborted' \in BOOLEAN /\ failures' \in Nat
      BY <1>1, <2>1
    <3> QED
      BY <2>1, <2>2, <3>1 DEF Typed
  <2>4. StackInv'
    BY <1>1, <2>1 DEF StackInv, Allocated, Typed
  <2>5. PushInv'
    BY <2>1, <2>2 DEF PushInv, PushOk, HoldsLock, Allocated
  <2>6. Quiet
    BY <2>1, <2>2 DEF Quiet, Passed, IdIn
  <2> QED
    BY <2>3, <2>4, <2>5, <2>6, QuietStep
<1>4. CASE ~checking
  <2>1. AddBlock(t, NextBlock(At(t)), 0) /\ UNCHANGED aborted
    BY <1>4 DEF GrowFails
  <2> QED
    BY <1>1, <1>2, <1>4, <2>1, AddBlockStep
<1> QED
  BY <1>3, <1>4

LEMMA SaveStep ==
    ASSUME Sane, IInv, NEW t \in Threads, Pushes(t), Save(t)
    PROVE  IInv'
<1> USE DEF IInv
<1> DEFINE s == At(t)
<1>1. /\ pc[t] = "save" /\ new' = [new EXCEPT ![t] = size[s]]
      /\ pc' = [pc EXCEPT ![t] = "increase"]
      /\ UNCHANGED <<checking, aborted, size, capacity, blocks, lock, failures, done, cntx,
                     stack, num_blocks_new, id_blksz, id, given, reason, disturbed>>
  BY DEF Pushes, Save, Goto, stacks, history
<1>2. s \in Stacks /\ HoldsLock(t) /\ lock[s] = t /\ size[s] + 1 <= capacity[s]
  BY <1>1, Facts DEF HoldsLock, PushInv, PushOk
<1>3. \A u : Kind(u)' = Kind(u) /\ At(u)' = At(u)
  BY <1>1 DEF Kind, At
<1>4. pc'[t] = "increase" /\ new'[t] = size[s] /\ size[s] \in Nat
  BY <1>1, <1>2 DEF Typed
<1>5. Typed'
  BY <1>1, <1>3, <1>4 DEF Typed, Points
<1>6. StackInv'
  BY <1>1 DEF StackInv, Allocated
<1>7. PushInv'
  <2>1. \A u \in Threads \ {t} : PushOk(u)'
    <3>1. \A u \in Threads \ {t} : Stays(u)
      BY OthersStay DEF Step
    <3> QED
      BY <3>1, <1>1, PushElsewhere
  <2>2. PushOk(t)'
    BY <1>1, <1>2, <1>3, <1>4 DEF PushOk
  <2> QED
    BY <2>1, <2>2 DEF PushInv
<1>8. Quiet
  <2>1. \A u \in Threads : /\ pc'[u] = "idle" <=> pc[u] = "idle"
                           /\ pc'[u] = "pushed" <=> pc[u] = "pushed"
    BY <1>1 DEF Typed
  <2>2. \A u \in Threads : \A c, n : Passed(u, c, n)' <=> Passed(u, c, n)
    BY <1>1, <2>1 DEF Passed
  <2>3. ASSUME NEW u \in Threads, pc[u] # "idle", NEW c \in 1 .. Contexts,
               NEW n \in 1 .. Len(StacksOf(Kind(u))), Passed(u, c, n)
        PROVE  IdIn(u, c, n)' = IdIn(u, c, n)
    <3>1. CASE u # t
      BY <3>1, <1>1 DEF IdIn, Typed
    <3>2. CASE u = t
      <4>1. c < cntx[t] \/ n < stack[t]
        BY <1>1, <2>3, <3>2 DEF Passed
      <4> QED
        BY <4>1, <1>1, <3>2 DEF IdIn
    <3> QED
      BY <3>1, <3>2
  <2> QED
    BY <1>1, <1>3, <2>1, <2>2, <2>3 DEF Quiet
<1> QED
  BY <1>5, <1>6, <1>7, <1>8, QuietStep

\* The new element is pushed: its number is the size that the stack had.
LEMMA IncreaseStep ==
    ASSUME Sane, IInv, NEW t \in Threads, Pushes(t), Increase(t)
    PROVE  IInv'
<1> USE DEF IInv
<1> DEFINE s == At(t)
<1>1. /\ pc[t] = "increase" /\ size' = [size EXCEPT ![s] = @ + 1]
      /\ lock' = [lock EXCEPT ![s] = NULL] /\ pc' = [pc EXCEPT ![t] = "pushed"]
      /\ UNCHANGED <<checking, aborted, capacity, blocks, failures, done, cntx, stack,
                     num_blocks_new, new, id_blksz, id, given, reason, disturbed>>
  BY DEF Pushes, Increase, Goto, call, history
<1>2. s \in Stacks /\ HoldsLock(t) /\ lock[s] = t /\ size[s] + 1 <= capacity[s]
      /\ new[t] = size[s]
  BY <1>1, Facts DEF HoldsLock, PushInv, PushOk
<1>3. \A u : Kind(u)' = Kind(u) /\ At(u)' = At(u)
  BY <1>1 DEF Kind, At
<1>4. /\ size[s] \in Nat /\ size'[s] = size[s] + 1 /\ pc'[t] = "pushed"
      /\ \A x \in Stacks : x # s => size'[x] = size[x]
      /\ \A x \in Stacks : size[x] \in Nat /\ size'[x] \in Nat /\ size[x] <= size'[x]
  <2>1. size[s] \in Nat /\ size'[s] = size[s] + 1 /\ pc'[t] = "pushed"
    BY <1>1, <1>2 DEF Typed
  <2>2. \A x \in Stacks : x # s => size'[x] = size[x]
    BY <1>1 DEF Typed
  <2>3. \A x \in Stacks : size[x] \in Nat
    BY DEF Typed
  <2>4. ASSUME NEW x \in Stacks
        PROVE  size'[x] \in Nat /\ size[x] <= size'[x]
    <3>1. CASE x = s
      BY <2>1, <3>1
    <3>2. CASE x # s
      BY <2>2, <2>3, <3>2
    <3> QED
      BY <3>1, <3>2
  <2> QED
    BY <2>1, <2>2, <2>3, <2>4
<1>5. /\ Kind(t) \in Kinds /\ stack[t] \in 1 .. Len(StacksOf(Kind(t)))
      /\ cntx[t] \in 1 .. Contexts /\ s = Nth(Kind(t), cntx[t], stack[t])
      /\ stack[t] \in Nat /\ cntx[t] \in Nat
  BY <1>1, Facts
<1>6. \A u \in Threads \ {t} : Stays(u)
  BY OthersStay DEF Step
<1>7. \A u \in Threads : \A c, n : IdIn(u, c, n)' = IdIn(u, c, n)
  BY <1>1 DEF IdIn
<1>8. /\ \A u \in Threads \ {t} : \A c, n : Passed(u, c, n)' <=> Passed(u, c, n)
      /\ \A c, n : Passed(t, c, n)' <=> Passed(t, c, n) \/ (c = cntx[t] /\ n = stack[t])
      /\ ~ Passed(t, cntx[t], stack[t])
  <2>1. \A u \in Threads \ {t} : \A c, n : Passed(u, c, n)' <=> Passed(u, c, n)
    BY <1>6, StaysSame
  <2>2. \A c, n : Passed(t, c, n)' <=> Passed(t, c, n) \/ (c = cntx[t] /\ n = stack[t])
    BY <1>1, <1>4 DEF Passed
  <2>3. ~ Passed(t, cntx[t], stack[t])
    BY <1>1, <1>5 DEF Passed
  <2> QED
    BY <2>1, <2>2, <2>3
<1>9. IdIn(t, cntx[t], stack[t]) = size[s]
  BY <1>2, <1>5 DEF IdIn
<1>10. Typed'
  <2>1. size' \in [Stacks -> Nat]
    <3>1. size[s] + 1 \in Nat
      BY <1>4
    <3> HIDE DEF s
    <3> QED
      BY <1>1, <3>1 DEF Typed
  <2>2. pc' \in [Threads -> Points] /\ lock' \in [Stacks -> Threads \cup {NULL}]
    BY <1>1 DEF Typed, Points
  <2>3. \A u \in Threads : pc'[u] = "idle" <=> pc[u] = "idle"
    BY <1>1 DEF Typed
  <2> QED
    BY <1>1, <1>3, <2>1, <2>2, <2>3 DEF Typed
<1>11. StackInv'
  <2>1. \A x : Allocated(x)' = capacity[x] \div BlockLen
    BY <1>1 DEF Allocated
  <2>2. ASSUME NEW x \in Stacks
        PROVE  Registered <= size'[x] /\ size'[x] <= capacity[x]
    <3>1. Registered <= size[x] /\ size[x] <= capacity[x] /\ Registered \in Nat
      BY DEF StackInv, Sane
    <3>2. CASE x = s
      BY <3>1, <3>2, <1>2, <1>4
    <3>3. CASE x # s
      BY <3>1, <3>3, <1>4
    <3> QED
      BY <3>2, <3>3
  <2> QED
    BY <1>1, <2>1, <2>2 DEF StackInv, Allocated
<1>12. PushInv'
  <2>1. \A u \in Threads \ {t} : PushOk(u)'
    <3>1. \A x \in Stacks : x # At(t) =>
            size'[x] = size[x] /\ capacity'[x] = capacity[x] /\ lock'[x] = lock[x]
      BY <1>1 DEF Typed
    <3> QED
      BY <1>2, <1>6, <3>1, PushElsewhere
  <2>2. PushOk(t)'
    BY <1>4 DEF PushOk, HoldsLock
  <2> QED
    BY <2>1, <2>2 DEF PushInv
<1>13. IdInv'
  <2> SUFFICES ASSUME NEW u \in Threads, pc[u] # "idle", NEW c \in 1 .. Contexts,
                      NEW n \in 1 .. Len(StacksOf(Kind(u))), Passed(u, c, n)'
               PROVE  /\ Registered <= IdIn(u, c, n)
                      /\ IdIn(u, c, n) < size'[Nth(Kind(u), c, n)]
    <3>1. SUFFICES ASSUME NEW u \in Threads, pc'[u] # "idle", NEW c \in 1 .. Contexts,
                          NEW n \in 1 .. Len(StacksOf(Kind(u)')), Passed(u, c, n)'
                   PROVE  /\ Registered <= IdIn(u, c, n)'
                          /\ IdIn(u, c, n)' < size'[Nth(Kind(u)', c, n)]
      BY DEF IdInv, Nth
    <3>2. pc[u] # "idle"
      BY <3>1, <1>1 DEF Typed
    <3> QED
      BY <1>3, <1>7, <3>1, <3>2
  <2>1. Nth(Kind(u), c, n) \in Stacks
    BY Facts, StackNames
  <2>2. CASE Passed(u, c, n)
    <3>1. /\ Registered <= IdIn(u, c, n) /\ IdIn(u, c, n) < size[Nth(Kind(u), c, n)]
      BY <2>2 DEF IdInv
    <3>2. IdIn(u, c, n) \in Nat
      BY DEF IdIn, Typed
    <3> QED
      BY <2>1, <3>1, <3>2, <1>4
  <2>3. CASE ~ Passed(u, c, n)
    <3>1. u = t /\ c = cntx[t] /\ n = stack[t]
      BY <2>3, <1>8
    <3>2. IdIn(u, c, n) = size[s] /\ Nth(Kind(u), c, n) = s
      BY <3>1, <1>5, <1>9
    <3>3. Registered <= size[s]
      BY <1>2 DEF StackInv
    <3> QED
      BY <3>2, <3>3, <1>4
  <2> QED
    BY <2>2, <2>3
<1>14. FirstInv'
  <2>1. ASSUME NEW u \in Threads, Passed(u, 1, 1), ~ Passed(t, 1, 1), Passed(t, 1, 1)',
               Kind(u) = Kind(t)
        PROVE  IdIn(u, 1, 1) < IdIn(t, 1, 1) /\ IdIn(u, 1, 1) \in Nat
    <3>1. cntx[t] = 1 /\ stack[t] = 1
      BY <2>1, <1>8
    <3>2. IdIn(t, 1, 1) = size[s] /\ s = Nth(Kind(u), 1, 1)
      BY <2>1, <3>1, <1>5, <1>9
    <3>3. pc[u] # "idle"
      BY <2>1 DEF Passed
    <3>4. 1 \in 1 .. Contexts /\ 1 \in 1 .. Len(StacksOf(Kind(u)))
      BY <3>3, Facts, StackNames DEF Sane
    <3>5. IdIn(u, 1, 1) < size[Nth(Kind(u), 1, 1)]
      BY <2>1, <3>3, <3>4 DEF IdInv
    <3>6. IdIn(u, 1, 1) \in Nat
      BY DEF IdIn, Typed
    <3> QED
      BY <3>2, <3>5, <3>6
  <2>2. ASSUME NEW g \in given, ~ Passed(t, 1, 1), Passed(t, 1, 1)', g[3] = Kind(t)
        PROVE  g[4] # IdIn(t, 1, 1)
    <3>1. cntx[t] = 1 /\ stack[t] = 1
      BY <2>2, <1>8
    <3>2. IdIn(t, 1, 1) = size[s] /\ s = <<1, StacksOf(g[3])[1]>>
      BY <2>2, <3>1, <1>5, <1>9 DEF Nth
    <3>3. 1 \in 1 .. Contexts /\ StacksOf(g[3])[1] \in ToSet(StacksOf(g[3]))
      BY <2>2, <3>1, <1>5, StackNames DEF Sane
    <3>4. g[4] < size[<<1, StacksOf(g[3])[1]>>]
      BY <3>3 DEF IdsAreNew
    <3>5. g[4] \in Nat
      BY DEF Typed
    <3> QED
      BY <3>2, <3>4, <3>5, <1>4
  <2>3. IdIn(t, 1, 1) \in Nat
    BY DEF IdIn, Typed
  <2> SUFFICES ASSUME NEW x \in Threads, Passed(x, 1, 1)'
               PROVE  /\ \A u \in Threads : Passed(u, 1, 1)' /\ Kind(u) = Kind(x) /\ u # x =>
                            IdIn(u, 1, 1) # IdIn(x, 1, 1)
                      /\ \A g \in given : g[3] = Kind(x) => g[4] # IdIn(x, 1, 1)
    BY <1>1, <1>3, <1>7 DEF FirstInv
  <2>4. ASSUME NEW u \in Threads, Passed(u, 1, 1)', Kind(u) = Kind(x), u # x
        PROVE  IdIn(u, 1, 1) # IdIn(x, 1, 1)
    <3>1. CASE Passed(u, 1, 1) /\ Passed(x, 1, 1)
      BY <2>4, <3>1 DEF FirstInv
    <3>2. CASE ~ Passed(u, 1, 1)
      <4>1. u = t /\ Passed(x, 1, 1)
        BY <2>4, <3>2, <1>8
      <4> QED
        BY <2>1, <2>3, <2>4, <3>2, <4>1
    <3>3. CASE ~ Passed(x, 1, 1)
      <4>1. x = t /\ Passed(u, 1, 1)
        BY <2>4, <3>3, <1>8
      <4> QED
        BY <2>1, <2>3, <2>4, <3>3, <4>1
    <3> QED
      BY <3>1, <3>2, <3>3
  <2>5. ASSUME NEW g \in given, g[3] = Kind(x)
        PROVE  g[4] # IdIn(x, 1, 1)
    <3>1. CASE Passed(x, 1, 1)
      BY <2>5, <3>1 DEF FirstInv
    <3>2. CASE ~ Passed(x, 1, 1)
      <4>1. x = t
        BY <3>2, <1>8
      <4> QED
        BY <2>2, <2>5, <3>2, <4>1
    <3> QED
      BY <3>1, <3>2
  <2> QED
    BY <2>4, <2>5
<1>15. LevelInv'
  <2> SUFFICES ASSUME NEW kind \in Kinds \ disturbed
               PROVE  /\ \A u, v \in Running(kind)' : u = v
                      /\ \A u \in Running(kind)' : \E size0 \in Nat : Level(kind, size0, u)'
                      /\ Running(kind)' = {} => \E size0 \in Nat :
                          \A c \in 1 .. Contexts : \A n \in 1 .. Len(StacksOf(kind)) :
                              size'[Nth(kind, c, n)] = size0
    BY <1>1 DEF LevelInv, Nth
  <2>1. Running(kind)' = Running(kind)
    <3>1. \A u \in Threads : pc'[u] = "idle" <=> pc[u] = "idle"
      BY <1>1 DEF Typed
    <3> QED
      BY <1>3, <3>1 DEF Running
  <2>2. \A c \in 1 .. Contexts : \A n \in 1 .. Len(StacksOf(kind)) :
          /\ Nth(kind, c, n) \in Stacks
          /\ Nth(kind, c, n) = s => kind = Kind(t) /\ c = cntx[t] /\ n = stack[t]
    BY <1>5, StackNames
  <2>3. CASE kind # Kind(t)
    <3>1. \A c \in 1 .. Contexts : \A n \in 1 .. Len(StacksOf(kind)) :
            size'[Nth(kind, c, n)] = size[Nth(kind, c, n)]
      BY <2>2, <2>3, <1>4
    <3>2. ASSUME NEW u \in Running(kind), NEW size0 \in Nat, Level(kind, size0, u)
          PROVE  Level(kind, size0, u)'
      <4>1. u \in Threads \ {t}
        BY <2>3 DEF Running
      <4>2. \A c, n : (Passed(u, c, n)' <=> Passed(u, c, n)) /\ IdIn(u, c, n)' = IdIn(u, c, n)
        BY <4>1, <1>7, <1>8
      <4>3. ASSUME NEW c \in 1 .. Contexts, NEW n \in 1 .. Len(StacksOf(kind))
            PROVE  /\ size'[Nth(kind, c, n)] = IF Passed(u, c, n)' THEN size0 + 1 ELSE size0
                   /\ Passed(u, c, n)' => IdIn(u, c, n)' = size0
        BY <3>1, <3>2, <4>2 DEF Level
      <4> QED
        BY <4>3 DEF Level, Nth
    <3>3. \A u, v \in Running(kind) : u = v
      BY DEF LevelInv
    <3>4. \A u \in Running(kind) : \E size0 \in Nat : Level(kind, size0, u)'
      <4>1. \A u \in Running(kind) : \E size0 \in Nat : Level(kind, size0, u)
        BY DEF LevelInv
      <4> QED
        BY <3>2, <4>1
    <3>5. Running(kind) = {} => \E size0 \in Nat :
            \A c \in 1 .. Contexts : \A n \in 1 .. Len(StacksOf(kind)) :
                size[Nth(kind, c, n)] = size0
      BY DEF LevelInv
    <3> QED
      BY <2>1, <3>1, <3>3, <3>4, <3>5
  <2>4. CASE kind = Kind(t)
    <3>1. t \in Running(kind)
      BY <2>4, <1>1 DEF Running
    <3>2. \A u, v \in Running(kind) : u = v
      BY DEF LevelInv
    <3>3. PICK size0 \in Nat : Level(kind, size0, t)
      BY <3>1 DEF LevelInv
    <3>4. size[s] = size0
      BY <3>3, <1>5, <1>8, <2>4 DEF Level
    <3>5. ASSUME NEW c \in 1 .. Contexts, NEW n \in 1 .. Len(StacksOf(kind))
          PROVE  /\ size'[Nth(kind, c, n)] = IF Passed(t, c, n)' THEN size0 + 1 ELSE size0
                 /\ Passed(t, c, n)' => IdIn(t, c, n) = size0
      <4>1. CASE c = cntx[t] /\ n = stack[t]
        BY <4>1, <3>4, <2>4, <1>4, <1>5, <1>8, <1>9
      <4>2. CASE ~ (c = cntx[t] /\ n = stack[t])
        <5>1. size'[Nth(kind, c, n)] = size[Nth(kind, c, n)]
          BY <4>2, <2>2, <1>4
        <5>2. Passed(t, c, n)' <=> Passed(t, c, n)
          BY <4>2, <1>8
        <5> QED
          BY <5>1, <5>2, <3>3 DEF Level
      <4> QED
        BY <4>1, <4>2
    <3>6. Level(kind, size0, t)'
      BY <3>5, <1>7 DEF Level, Nth
    <3> QED
      BY <2>1, <3>1, <3>2, <3>6
  <2> QED
    BY <2>3, <2>4
<1>16. IdsAreNew'
  <2> SUFFICES ASSUME NEW g \in given, NEW c \in 1 .. Contexts,
                      NEW name \in ToSet(StacksOf(g[3]))
               PROVE  g[4] < size'[<<c, name>>]
    BY <1>1 DEF IdsAreNew
  <2>1. g[4] < size[<<c, name>>] /\ g[4] \in Nat /\ g[3] \in Kinds
    BY DEF IdsAreNew, Typed
  <2>2. <<c, name>> \in Stacks
    BY <2>1, StackNames DEF Nth
  <2> QED
    BY <2>1, <2>2, <1>4
<1>17. FailsForReason'
  <2> SUFFICES ASSUME NEW u \in Threads, reason[u] = "full"
               PROVE  size'[At(u)] = MaxBlocks * BlockLen
    BY <1>1, <1>3 DEF FailsForReason
  <2>1. At(u) \in Stacks /\ size[At(u)] = MaxBlocks * BlockLen
    BY Facts DEF FailsForReason
  <2>2. At(u) # s
    <3>1. capacity[s] <= MaxBlocks * BlockLen /\ MaxBlocks * BlockLen \in Nat
          /\ capacity[s] \in Nat
      <4> HIDE DEF s
      <4> QED
        BY <1>2, StackFacts
    <3> QED
      BY <2>1, <3>1, <1>2
  <2> QED
    BY <2>1, <2>2, <1>4
<1> QED
  BY <1>10, <1>11, <1>12, <1>13, <1>14, <1>15, <1>16, <1>17

LEMMA RegisterStep ==
    ASSUME Sane, IInv, NEW t \in Threads, Registers(t)
    PROVE  IInv'
<1> USE DEF IInv
<1> DEFINE kind == Wanted[t][done[t] + 1]
<1>1. /\ pc[t] = "idle" /\ done[t] < Len(Wanted[t])
      /\ done' = [done EXCEPT ![t] = @ + 1]
      /\ cntx' = [cntx EXCEPT ![t] = 1] /\ stack' = [stack EXCEPT ![t] = 1]
      /\ id' = [id EXCEPT ![t] = 0] /\ pc' = [pc EXCEPT ![t] = "lock"]
      /\ reason' = [reason EXCEPT ![t] = "none"]
      /\ UNCHANGED <<checking, aborted, size, capacity, blocks, lock, failures,
                     num_blocks_new, new, id_blksz, given>>
  BY DEF Registers, Register, Goto, stacks
<1>2. /\ done[t] \in Nat /\ done'[t] = done[t] + 1 /\ cntx'[t] = 1 /\ stack'[t] = 1
      /\ id'[t] = 0 /\ pc'[t] = "lock" /\ reason'[t] = "none" /\ Kind(t)' = kind
  BY <1>1 DEF Typed, Kind
<1>3. disturbed' = IF Running(kind) = {} THEN disturbed ELSE disturbed \cup {kind}
  BY <1>2 DEF Registers, Register
<1>4. kind \in Kinds
  <2>1. Wanted[t] \in Seq(Kinds)
    BY DEF Sane
  <2>2. Len(Wanted[t]) \in Nat /\ DOMAIN Wanted[t] = 1 .. Len(Wanted[t])
    BY <2>1
  <2>3. done[t] + 1 \in 1 .. Len(Wanted[t])
    BY <1>1, <1>2, <2>2
  <2> QED
    BY <2>1, <2>2, <2>3
<1>5. \A u \in Threads \ {t} : Stays(u)
  BY OthersStay
<1>6. \A u \in Threads \ {t} : Kind(u)' = Kind(u)
  BY <1>5, StaysSame
<1>7. \A c, n \in Nat \ {0} : ~ Passed(t, c, n)' /\ ~ Passed(t, c, n)
  BY <1>1, <1>2 DEF Passed
<1>8. Typed'
  <2>1. /\ done' \in [Threads -> Nat] /\ cntx' \in [Threads -> 1 .. Contexts]
        /\ stack' \in [Threads -> {1, 2}] /\ id' \in [Threads -> Nat]
        /\ pc' \in [Threads -> Points] /\ reason' \in [Threads -> {"none", "full", "mismatch"}]
    BY <1>1, <1>2 DEF Typed, Points, Sane
  <2>2. disturbed' \subseteq Kinds
    BY <1>3, <1>4 DEF Typed
  <2>3. ASSUME NEW u \in Threads
        PROVE  /\ done'[u] <= Len(Wanted[u])
               /\ pc'[u] # "idle" \/ reason'[u] # "none" =>
                     /\ done'[u] # 0
                     /\ stack'[u] \in 1 .. Len(StacksOf(Kind(u)'))
               /\ pc'[u] # "idle" => reason'[u] = "none" /\ (cntx'[u] = 1 => id'[u] = 0)
    <3>1. CASE u = t
      <4>1. Len(Wanted[t]) \in Nat
        BY DEF Sane
      <4>2. 1 \in 1 .. Len(StacksOf(kind))
        BY <1>4, StackNames
      <4>3. done'[t] <= Len(Wanted[t]) /\ done'[t] # 0
        BY <4>1, <1>1, <1>2
      <4>4. stack'[t] \in 1 .. Len(StacksOf(Kind(t)'))
        BY <1>2, <4>2
      <4> QED
        BY <3>1, <1>2, <4>3, <4>4
    <3>2. CASE u # t
      <4>1. Stays(u) /\ Kind(u)' = Kind(u)
        BY <3>2, <1>5, <1>6
      <4> QED
        BY <4>1 DEF Stays, Typed
    <3> QED
      BY <3>1, <3>2
  <2> QED
    BY <1>1, <2>1, <2>2, <2>3 DEF Typed
<1>9. StackInv'
  BY <1>1 DEF StackInv, Allocated
<1>10. PushInv'
  <2>1. \A u \in Threads \ {t} : PushOk(u)'
    BY <1>1, <1>5, PushElsewhere
  <2>2. PushOk(t)'
    BY <1>2 DEF PushOk, HoldsLock
  <2> QED
    BY <2>1, <2>2 DEF PushInv
<1>11. IdInv' /\ FirstInv' /\ IdsAreNew'
  <2>1. \A u \in Threads : \A c, n \in Nat \ {0} : Passed(u, c, n)' =>
            Passed(u, c, n) /\ IdIn(u, c, n)' = IdIn(u, c, n) /\ Kind(u)' = Kind(u)
    BY <1>5, <1>7, StaysSame
  <2> QED
    BY <1>1, <2>1, Fewer
<1>12. LevelInv'
  <2> SUFFICES ASSUME NEW k \in Kinds \ disturbed'
               PROVE  /\ \A u, v \in Running(k)' : u = v
                      /\ \A u \in Running(k)' : \E size0 \in Nat : Level(k, size0, u)'
                      /\ Running(k)' = {} => \E size0 \in Nat :
                          \A c \in 1 .. Contexts : \A n \in 1 .. Len(StacksOf(k)) :
                              size'[Nth(k, c, n)] = size0
    BY DEF LevelInv, Nth
  <2>1. k \notin disturbed
    BY <1>3
  <2>2. Running(k)' = IF k = kind THEN Running(k) \cup {t} ELSE Running(k)
    <3>1. \A u \in Threads \ {t} : pc'[u] = pc[u]
      BY <1>5 DEF Stays
    <3> QED
      BY <1>1, <1>2, <1>6, <3>1 DEF Running
  <2>3. ASSUME NEW u \in Running(k), NEW size0 \in Nat, Level(k, size0, u)
        PROVE  Level(k, size0, u)'
    <3>1. u \in Threads \ {t}
      BY <1>1 DEF Running
    <3>2. \A c, n : (Passed(u, c, n)' <=> Passed(u, c, n)) /\ IdIn(u, c, n)' = IdIn(u, c, n)
      BY <3>1, <1>5, StaysSame
    <3>3. ASSUME NEW c \in 1 .. Contexts, NEW n \in 1 .. Len(StacksOf(k))
          PROVE  /\ size'[Nth(k, c, n)] = IF Passed(u, c, n)' THEN size0 + 1 ELSE size0
                 /\ Passed(u, c, n)' => IdIn(u, c, n)' = size0
      BY <2>3, <3>2, <1>1 DEF Level
    <3> QED
      BY <3>3 DEF Level, Nth
  <2>4. CASE k = kind
    <3>1. Running(k) = {} /\ Running(k)' = {t}
      BY <2>4, <2>2, <1>3
    <3>2. PICK size0 \in Nat :
            \A c \in 1 .. Contexts : \A n \in 1 .. Len(StacksOf(k)) :
                size[Nth(k, c, n)] = size0
      BY <2>1, <3>1 DEF LevelInv
    <3>3. \A c \in 1 .. Contexts : \A n \in 1 .. Len(StacksOf(k)) : ~ Passed(t, c, n)'
      BY <1>7 DEF Sane
    <3>4. Level(k, size0, t)'
      BY <3>2, <3>3, <1>1 DEF Level, Nth
    <3> QED
      BY <3>1, <3>4
  <2>5. CASE k # kind
    <3>1. \A u, v \in Running(k) : u = v
      BY <2>1 DEF LevelInv
    <3>2. \A u \in Running(k) : \E size0 \in Nat : Level(k, size0, u)'
      <4>1. \A u \in Running(k) : \E size0 \in Nat : Level(k, size0, u)
        BY <2>1 DEF LevelInv
      <4> QED
        BY <4>1, <2>3
    <3>3. Running(k) = {} => \E size0 \in Nat :
            \A c \in 1 .. Contexts : \A n \in 1 .. Len(StacksOf(k)) :
                size[Nth(k, c, n)] = size0
      BY <2>1 DEF LevelInv
    <3> QED
      BY <2>2, <2>5, <3>1, <3>2, <3>3, <1>1
  <2> QED
    BY <2>4, <2>5
<1>13. FailsForReason'
  <2> SUFFICES ASSUME NEW u \in Threads
               PROVE  /\ reason'[u] = "full" => size'[At(u)'] = MaxBlocks * BlockLen
                      /\ reason'[u] = "mismatch" => Kind(u)' \in disturbed'
    BY DEF FailsForReason
  <2>1. CASE u = t
    BY <2>1, <1>2
  <2>2. CASE u # t
    <3>1. reason'[u] = reason[u] /\ At(u)' = At(u) /\ Kind(u)' = Kind(u)
      BY <2>2, <1>5, StaysSame DEF Stays
    <3>2. disturbed \subseteq disturbed'
      BY <1>3
    <3> QED
      BY <1>1, <3>1, <3>2 DEF FailsForReason
  <2> QED
    BY <2>1, <2>2
<1> QED
  BY <1>8, <1>9, <1>10, <1>11, <1>12, <1>13

\* Once the ids have been compared, they are the same in all contexts so far.
LEMMA SameIds ==
    ASSUME Sane, IInv, NEW t \in Threads, pc[t] = "pushed",
           stack[t] = Len(StacksOf(Kind(t))), NEW first,
           first = IF stack[t] = 1 THEN new[t] ELSE id_blksz[t],
           first = new[t], Agree(t, first)
    PROVE  /\ first \in Nat
           /\ \A c \in 1 .. cntx[t] : \A n \in 1 .. Len(StacksOf(Kind(t))) :
                 Passed(t, c, n) /\ IdIn(t, c, n) = first
<1> USE DEF IInv
<1>1. /\ Kind(t) \in Kinds /\ stack[t] \in 1 .. Len(StacksOf(Kind(t)))
      /\ cntx[t] \in 1 .. Contexts /\ stack[t] \in Nat /\ cntx[t] \in Nat
      /\ Contexts \in Nat
  BY Facts DEF Sane
<1>2. Len(StacksOf(Kind(t))) \in {1, 2}
  BY <1>1, StackNames
<1>3. first \in Nat
  BY DEF Typed
<1>4. ASSUME NEW c \in 1 .. cntx[t], NEW n \in 1 .. Len(StacksOf(Kind(t)))
      PROVE  Passed(t, c, n)
  BY <1>1, <1>2 DEF Passed
<1>5. ASSUME NEW c \in 1 .. cntx[t], NEW n \in 1 .. Len(StacksOf(Kind(t)))
      PROVE  IdIn(t, c, n) = first
  <2>1. CASE c < cntx[t]
    <3>1. c \in 1 .. Contexts
      BY <1>1
    <3>2. IdIn(t, c, n) = id[t]
      BY <2>1 DEF IdIn
    <3>3. Registered <= id[t]
      BY <1>4, <3>1, <3>2 DEF IdInv
    <3>4. id[t] # 0
      BY <3>3 DEF Sane, Typed
    <3> QED
      BY <3>2, <3>4 DEF Agree
  <2>2. CASE ~ (c < cntx[t])
    <3>1. CASE stack[t] = 1
      <4>1. n = 1
        BY <3>1
      <4> QED
        BY <2>2, <3>1, <4>1 DEF IdIn
    <3>2. CASE stack[t] = 2
      <4>1. n = 1 \/ n = 2
        BY <3>2
      <4> QED
        BY <2>2, <3>2, <4>1 DEF IdIn
    <3> QED
      BY <1>2, <3>1, <3>2
  <2> QED
    BY <2>1, <2>2
<1> QED
  BY <1>3, <1>4, <1>5

LEMMA PushedStep ==
    ASSUME Sane, IInv, NEW t \in Threads, Pushes(t), Pushed(t)
    PROVE  IInv'
<1> USE DEF IInv
<1> DEFINE first == IF stack[t] = 1 THEN new[t] ELSE id_blksz[t]
           len == Len(StacksOf(Kind(t)))
           Second == /\ stack[t] < len /\ id_blksz' = [id_blksz EXCEPT ![t] = new[t]]
                     /\ stack' = [stack EXCEPT ![t] = @ + 1]
                     /\ pc' = [pc EXCEPT ![t] = "lock"]
                     /\ UNCHANGED <<cntx, id, given, reason, disturbed>>
           Mismatch == /\ ~ (stack[t] < len) /\ (first # new[t] \/ ~Agree(t, first))
                       /\ pc' = [pc EXCEPT ![t] = "idle"]
                       /\ reason' = [reason EXCEPT ![t] = "mismatch"]
                       /\ UNCHANGED <<cntx, stack, id_blksz, id, given, disturbed>>
           Agreed == /\ ~ (stack[t] < len) /\ first = new[t] /\ Agree(t, first)
                     /\ id' = [id EXCEPT ![t] = first]
                     /\ stack' = [stack EXCEPT ![t] = 1]
                     /\ UNCHANGED <<id_blksz, reason, disturbed>>
           NextCntx == /\ cntx[t] < Contexts /\ cntx' = [cntx EXCEPT ![t] = @ + 1]
                       /\ pc' = [pc EXCEPT ![t] = "lock"] /\ UNCHANGED given
           Given == /\ ~ (cntx[t] < Contexts)
                    /\ given' = given \cup {<<t, done[t], Kind(t), first>>}
                    /\ pc' = [pc EXCEPT ![t] = "idle"] /\ UNCHANGED cntx
<1>1. /\ pc[t] = "pushed"
      /\ UNCHANGED <<checking, aborted, size, capacity, blocks, lock, failures, done,
                     num_blocks_new, new>>
  BY DEF Pushes, Pushed, stacks
<1>2. Second \/ Mismatch \/ (Agreed /\ NextCntx) \/ (Agreed /\ Given)
  BY DEF Pushed, Fail, Goto, history
<1>3. /\ Kind(t) \in Kinds /\ stack[t] \in 1 .. len /\ cntx[t] \in 1 .. Contexts
      /\ stack[t] \in Nat /\ cntx[t] \in Nat /\ len \in {1, 2} /\ Contexts \in Nat
      /\ reason[t] = "none" /\ done[t] # 0
  <2>1. /\ Kind(t) \in Kinds /\ stack[t] \in 1 .. len /\ cntx[t] \in 1 .. Contexts
        /\ stack[t] \in Nat /\ cntx[t] \in Nat
    BY <1>1, Facts
  <2>2. len \in {1, 2}
    BY <2>1, StackNames
  <2> QED
    BY <2>1, <2>2, <1>1 DEF Typed, Sane
<1>4. first \in Nat /\ new[t] \in Nat
  BY DEF Typed
<1> HIDE DEF first
<1>5. \A u \in Threads \ {t} : Stays(u)
  BY OthersStay DEF Step
<1>6. \A u : Kind(u)' = Kind(u)
  BY <1>1 DEF Kind
<1>7. StackInv'
  BY <1>1 DEF StackInv, Allocated
<1>8. pc'[t] \in {"lock", "idle"} /\ pc' = [pc EXCEPT ![t] = pc'[t]]
  BY <1>2 DEF Typed
<1>9. PushInv'
  <2>1. \A u \in Threads \ {t} : PushOk(u)'
    BY <1>1, <1>5, PushElsewhere
  <2>2. PushOk(t)'
    BY <1>8 DEF PushOk, HoldsLock
  <2> QED
    BY <2>1, <2>2 DEF PushInv
<1>10. ASSUME stack' \in [Threads -> {1, 2}], stack'[t] \in 1 .. len,
              cntx' \in [Threads -> 1 .. Contexts], id' \in [Threads -> Nat],
              id_blksz' \in [Threads -> Nat],
              given' \subseteq Threads \X Nat \X Kinds \X Nat,
              reason' \in [Threads -> {"none", "full", "mismatch"}],
              UNCHANGED disturbed,
              pc'[t] # "idle" => reason'[t] = "none" /\ (cntx'[t] = 1 => id'[t] = 0)
       PROVE  Typed'
  <2>1. pc' \in [Threads -> Points]
    BY <1>8 DEF Typed, Points
  <2>2. ASSUME NEW u \in Threads
        PROVE  /\ done'[u] <= Len(Wanted[u])
               /\ pc'[u] # "idle" \/ reason'[u] # "none" =>
                     /\ done'[u] # 0
                     /\ stack'[u] \in 1 .. Len(StacksOf(Kind(u)'))
               /\ pc'[u] # "idle" => reason'[u] = "none" /\ (cntx'[u] = 1 => id'[u] = 0)
    <3>1. CASE u = t
      BY <3>1, <1>1, <1>3, <1>6, <1>10 DEF Typed
    <3>2. CASE u # t
      <4>1. Stays(u) /\ Kind(u)' = Kind(u)
        BY <3>2, <1>5, <1>6
      <4> QED
        BY <4>1 DEF Stays, Typed
    <3> QED
      BY <3>1, <3>2
  <2> QED
    BY <1>1, <1>10, <2>1, <2>2 DEF Typed
<1>11. ASSUME UNCHANGED <<size, given, reason, disturbed>>, pc'[t] # "idle",
              \A c \in 1 .. Contexts : \A n \in 1 .. len :
                 /\ Passed(t, c, n)' <=> Passed(t, c, n)
                 /\ Passed(t, c, n) => IdIn(t, c, n)' = IdIn(t, c, n)
       PROVE  Quiet
  <2> SUFFICES ASSUME NEW u \in Threads
               PROVE  /\ pc'[u] = "idle" <=> pc[u] = "idle"
                      /\ reason[u] # "none" => At(u)' = At(u)
                      /\ pc[u] # "idle" =>
                          \A c \in 1 .. Contexts : \A n \in 1 .. Len(StacksOf(Kind(u))) :
                              /\ Passed(u, c, n)' <=> Passed(u, c, n)
                              /\ Passed(u, c, n) => IdIn(u, c, n)' = IdIn(u, c, n)
    BY <1>6, <1>11 DEF Quiet
  <2>1. CASE u = t
    BY <2>1, <1>1, <1>3, <1>11
  <2>2. CASE u # t
    <3>1. Stays(u)
      BY <2>2, <1>5
    <3>2. pc'[u] = pc[u] /\ At(u)' = At(u)
          /\ \A c, n : (Passed(u, c, n)' <=> Passed(u, c, n))
                       /\ IdIn(u, c, n)' = IdIn(u, c, n)
      BY <3>1, StaysSame DEF Stays
    <3> QED
      BY <3>2
  <2> QED
    BY <2>1, <2>2
<1>12. CASE Second
  <2>1. stack[t] = 1 /\ len = 2 /\ stack'[t] = 2 /\ id_blksz'[t] = new[t] /\ pc'[t] = "lock"
    <3>1. stack[t] = 1 /\ len = 2
      <4>1. stack[t] < len
        BY <1>12
      <4> HIDE DEF len
      <4> QED
        BY <1>3, <4>1
    <3> HIDE DEF len
    <3>2. stack'[t] = stack[t] + 1 /\ id_blksz'[t] = new[t] /\ pc'[t] = "lock"
      BY <1>12 DEF Typed
    <3> QED
      BY <3>1, <3>2
  <2>2. Typed'
    <3>1. stack' \in [Threads -> {1, 2}] /\ id_blksz' \in [Threads -> Nat]
      BY <1>4, <1>12, <2>1 DEF Typed
    <3>2. stack'[t] \in 1 .. len
      BY <2>1
    <3> QED
      BY <1>1, <1>10, <1>12, <3>1, <3>2 DEF Typed
  <2>3. ASSUME NEW c \in 1 .. Contexts, NEW n \in 1 .. len
        PROVE  /\ Passed(t, c, n)' <=> Passed(t, c, n)
               /\ Passed(t, c, n) => IdIn(t, c, n)' = IdIn(t, c, n)
    <3>1. n = 1 \/ n = 2
      BY <2>1
    <3>2. cntx' = cntx /\ id' = id /\ new' = new
      BY <1>1, <1>12
    <3> QED
      BY <1>1, <2>1, <3>1, <3>2 DEF Passed, IdIn
  <2>4. Quiet
    <3>1. UNCHANGED <<size, given, reason, disturbed>> /\ pc'[t] # "idle"
      BY <1>1, <1>12, <2>1
    <3> QED
      BY <1>11, <2>3, <3>1
  <2> QED
    BY <1>7, <1>9, <2>2, <2>4, QuietStep
<1>13. ASSUME pc'[t] = "idle", UNCHANGED <<size, disturbed>>
       PROVE  /\ \A u \in Threads : \A c, n \in Nat \ {0} : Passed(u, c, n)' =>
                     /\ u # t /\ Passed(u, c, n) /\ IdIn(u, c, n)' = IdIn(u, c, n)
                     /\ Kind(u)' = Kind(u)
              /\ Kind(t) \notin disturbed =>
                    \E size0 \in Nat : Level(Kind(t), size0, t)
  <2>1. \A u \in Threads : \A c, n \in Nat \ {0} : Passed(u, c, n)' =>
            /\ u # t /\ Passed(u, c, n) /\ IdIn(u, c, n)' = IdIn(u, c, n)
            /\ Kind(u)' = Kind(u)
    <3>1. \A c, n : ~ Passed(t, c, n)'
      BY <1>13 DEF Passed
    <3> QED
      BY <3>1, <1>5, StaysSame
  <2>2. ASSUME Kind(t) \notin disturbed
        PROVE  \E size0 \in Nat : Level(Kind(t), size0, t)
    <3>1. t \in Running(Kind(t))
      BY <1>1 DEF Running
    <3> QED
      BY <1>3, <2>2, <3>1 DEF LevelInv
  <2> QED
    BY <2>1, <2>2
<1>14. CASE Mismatch
  <2>1. pc'[t] = "idle" /\ reason'[t] = "mismatch" /\ UNCHANGED <<size, given, disturbed>>
    BY <1>1, <1>14 DEF Typed
  <2>2. Typed'
    BY <1>3, <1>10, <1>14, <2>1 DEF Typed
  <2>3. Kind(t) \in disturbed
    <3> SUFFICES ASSUME Kind(t) \notin disturbed
                 PROVE  FALSE
      OBVIOUS
    <3>1. PICK size0 \in Nat : Level(Kind(t), size0, t)
      BY <1>13, <2>1
    <3>2. stack[t] = len
      BY <1>3, <1>14
    <3>3. \A c \in 1 .. cntx[t] : \A n \in 1 .. len : IdIn(t, c, n) = size0
      <4>1. \A c \in 1 .. cntx[t] : \A n \in 1 .. len : c \in 1 .. Contexts /\ Passed(t, c, n)
        BY <1>1, <1>3, <3>2 DEF Passed
      <4> QED
        BY <3>1, <4>1 DEF Level
    <3>4. cntx[t] \in 1 .. cntx[t] /\ len \in 1 .. len /\ 1 \in 1 .. len
      BY <1>3
    <3>5. new[t] = size0
      <4>1. IdIn(t, cntx[t], len) = size0
        BY <3>3, <3>4
      <4> QED
        BY <4>1, <3>2, <1>3 DEF IdIn
    <3>6. first = size0
      <4>1. CASE stack[t] = 1
        BY <4>1, <3>5 DEF first
      <4>2. CASE stack[t] # 1
        <5>1. IdIn(t, cntx[t], 1) = size0
          BY <3>3, <3>4
        <5>2. 1 < stack[t]
          BY <4>2, <1>3
        <5> QED
          BY <4>2, <5>1, <5>2, <1>3 DEF first, IdIn
      <4> QED
        BY <4>1, <4>2
    <3>7. Agree(t, first)
      <4>1. CASE cntx[t] = 1
        BY <4>1, <1>1 DEF Agree, Typed
      <4>2. CASE cntx[t] # 1
        <5>1. 1 \in 1 .. cntx[t] /\ 1 < cntx[t]
          BY <4>2, <1>3
        <5>2. IdIn(t, 1, 1) = size0
          BY <3>3, <3>4, <5>1
        <5> QED
          BY <3>6, <5>1, <5>2 DEF IdIn, Agree
      <4> QED
        BY <4>1, <4>2
    <3> QED
      BY <1>14, <3>5, <3>6, <3>7
  <2>4. IdInv' /\ FirstInv' /\ IdsAreNew'
    <3>1. \A u \in Threads : \A c, n \in Nat \ {0} : Passed(u, c, n)' =>
            Passed(u, c, n) /\ IdIn(u, c, n)' = IdIn(u, c, n) /\ Kind(u)' = Kind(u)
      BY <1>13, <2>1
    <3> QED
      BY <2>1, <3>1, Fewer
  <2>5. LevelInv'
    BY <1>1, <1>5, <2>1, <2>3, EndLevels
  <2>6. FailsForReason'
    <3> SUFFICES ASSUME NEW u \in Threads
                 PROVE  /\ reason'[u] = "full" => size'[At(u)'] = MaxBlocks * BlockLen
                        /\ reason'[u] = "mismatch" => Kind(u)' \in disturbed'
      BY DEF FailsForReason
    <3>1. CASE u = t
      BY <3>1, <1>6, <2>1, <2>3
    <3>2. CASE u # t
      <4>1. reason'[u] = reason[u] /\ At(u)' = At(u)
        BY <3>2, <1>5, StaysSame DEF Stays
      <4> QED
        BY <4>1, <1>6, <2>1 DEF FailsForReason
    <3> QED
      BY <3>1, <3>2
  <2> QED
    BY <1>7, <1>9, <2>2, <2>4, <2>5, <2>6
<1>15. ASSUME Agreed
       PROVE  /\ stack[t] = len /\ stack'[t] = 1 /\ id'[t] = first
              /\ stack' \in [Threads -> {1, 2}] /\ id' \in [Threads -> Nat]
              /\ 1 \in 1 .. len
              /\ \A c \in 1 .. cntx[t] : \A n \in 1 .. len :
                    Passed(t, c, n) /\ IdIn(t, c, n) = first
  <2>1. stack[t] = len /\ 1 \in 1 .. len
    BY <1>3, <1>15
  <2>2. stack'[t] = 1 /\ id'[t] = first
        /\ stack' \in [Threads -> {1, 2}] /\ id' \in [Threads -> Nat]
    BY <1>4, <1>15 DEF Typed
  <2>3. \A c \in 1 .. cntx[t] : \A n \in 1 .. len :
          Passed(t, c, n) /\ IdIn(t, c, n) = first
    <3>1. first = IF stack[t] = 1 THEN new[t] ELSE id_blksz[t]
      BY DEF first
    <3>2. first = new[t] /\ Agree(t, first)
      BY <1>15
    <3> QED
      BY <1>1, <2>1, <3>1, <3>2, SameIds
  <2> QED
    BY <2>1, <2>2, <2>3
<1>16. CASE Agreed /\ NextCntx
  <2>1. cntx'[t] = cntx[t] + 1 /\ cntx' \in [Threads -> 1 .. Contexts] /\ pc'[t] = "lock"
    <3>1. cntx[t] + 1 \in 1 .. Contexts
      BY <1>3, <1>16
    <3> QED
      BY <1>16, <3>1 DEF Typed
  <2>2. Typed'
    <3>1. cntx'[t] # 1
      BY <2>1, <1>3
    <3> QED
      BY <1>3, <1>10, <1>15, <1>16, <2>1, <3>1 DEF Typed
  <2>3. ASSUME NEW c \in 1 .. Contexts, NEW n \in 1 .. len
        PROVE  /\ Passed(t, c, n)' <=> Passed(t, c, n)
               /\ Passed(t, c, n) => IdIn(t, c, n)' = IdIn(t, c, n)
    <3>1. CASE c <= cntx[t]
      <4>1. c \in 1 .. cntx[t] /\ c < cntx'[t]
        BY <3>1, <2>1, <1>3
      <4>2. Passed(t, c, n) /\ IdIn(t, c, n) = first
        BY <4>1, <1>15, <1>16
      <4>3. Passed(t, c, n)' /\ IdIn(t, c, n)' = first
        BY <4>1, <2>1, <1>15, <1>16 DEF Passed, IdIn
      <4> QED
        BY <4>2, <4>3
    <3>2. CASE ~ (c <= cntx[t])
      <4>1. ~ Passed(t, c, n)
        BY <3>2, <1>3 DEF Passed
      <4>2. ~ Passed(t, c, n)'
        BY <3>2, <2>1, <1>3, <1>15, <1>16 DEF Passed
      <4> QED
        BY <4>1, <4>2
    <3> QED
      BY <3>1, <3>2
  <2>4. Quiet
    <3>1. UNCHANGED <<size, given, reason, disturbed>> /\ pc'[t] # "idle"
      BY <1>1, <1>16, <2>1
    <3> QED
      BY <1>11, <2>3, <3>1
  <2> QED
    BY <1>7, <1>9, <2>2, <2>4, QuietStep
<1>17. CASE Agreed /\ Given
  <2> DEFINE g0 == <<t, done[t], Kind(t), first>>
  <2>1. /\ pc'[t] = "idle" /\ UNCHANGED <<size, reason, disturbed>> /\ cntx[t] = Contexts
        /\ given' = given \cup {g0} /\ g0[3] = Kind(t) /\ g0[4] = first
        /\ g0 \in Threads \X Nat \X Kinds \X Nat
    BY <1>1, <1>3, <1>4, <1>17 DEF Typed
  <2> HIDE DEF g0
  <2>2. Typed'
    BY <1>3, <1>10, <1>15, <1>17, <2>1 DEF Typed
  <2>3. \A c \in 1 .. Contexts : \A n \in 1 .. len :
          Passed(t, c, n) /\ IdIn(t, c, n) = first
    BY <1>15, <1>17, <2>1
  <2>4. 1 \in 1 .. Contexts /\ 1 \in 1 .. len /\ Passed(t, 1, 1) /\ IdIn(t, 1, 1) = first
    BY <2>3, <1>15, <1>17 DEF Sane
  <2>5. \A u \in Threads : \A c, n \in Nat \ {0} : Passed(u, c, n)' =>
          u # t /\ Passed(u, c, n) /\ IdIn(u, c, n)' = IdIn(u, c, n) /\ Kind(u)' = Kind(u)
    BY <1>13, <2>1
  <2>6. IdInv'
    <3> SUFFICES ASSUME NEW u \in Threads, NEW c \in 1 .. Contexts,
                        NEW n \in 1 .. Len(StacksOf(Kind(u)')), Passed(u, c, n)'
                 PROVE  /\ Registered <= IdIn(u, c, n)'
                        /\ IdIn(u, c, n)' < size'[Nth(Kind(u)', c, n)]
      BY DEF IdInv, Nth
    <3>1. c \in Nat \ {0} /\ n \in Nat \ {0}
      BY <1>3
    <3>2. Passed(u, c, n) /\ IdIn(u, c, n)' = IdIn(u, c, n) /\ Kind(u)' = Kind(u)
      BY <2>5, <3>1
    <3>3. pc[u] # "idle"
      BY <3>2 DEF Passed
    <3> QED
      BY <2>1, <3>2, <3>3 DEF IdInv
  <2>7. FirstInv'
    <3>1. \A u \in Threads : Passed(u, 1, 1)' =>
            u # t /\ Passed(u, 1, 1) /\ IdIn(u, 1, 1)' = IdIn(u, 1, 1)
      BY <2>5
    <3> SUFFICES ASSUME NEW x \in Threads, Passed(x, 1, 1)'
                 PROVE  /\ \A u \in Threads :
                             Passed(u, 1, 1)' /\ Kind(u) = Kind(x) /\ u # x =>
                                IdIn(u, 1, 1)' # IdIn(x, 1, 1)'
                        /\ \A g \in given \cup {g0} :
                             g[3] = Kind(x) => g[4] # IdIn(x, 1, 1)'
      BY <1>6, <2>1 DEF FirstInv
    <3>2. x # t /\ Passed(x, 1, 1) /\ IdIn(x, 1, 1)' = IdIn(x, 1, 1)
      BY <3>1
    <3>3. \A u \in Threads : Passed(u, 1, 1)' /\ Kind(u) = Kind(x) /\ u # x =>
            IdIn(u, 1, 1)' # IdIn(x, 1, 1)'
      BY <3>1, <3>2 DEF FirstInv
    <3>4. \A g \in given : g[3] = Kind(x) => g[4] # IdIn(x, 1, 1)'
      BY <3>2 DEF FirstInv
    <3>5. g0[3] = Kind(x) => g0[4] # IdIn(x, 1, 1)'
      BY <2>1, <2>4, <3>2 DEF FirstInv
    <3> QED
      BY <3>3, <3>4, <3>5
  <2>8. IdsAreNew'
    <3>1. \A h \in given : h[3] = g0[3] => h[4] # g0[4]
      BY <2>1, <2>4 DEF FirstInv
    <3>2. \A g, h \in given' : g[3] = h[3] /\ g[4] = h[4] => g = h
      BY <2>1, <3>1 DEF IdsAreNew
    <3>3. ASSUME NEW c \in 1 .. Contexts, NEW name \in ToSet(StacksOf(g0[3]))
          PROVE  Registered <= g0[4] /\ g0[4] < size[<<c, name>>]
      <4>1. PICK n \in 1 .. len : name = StacksOf(Kind(t))[n]
        BY <1>3, <2>1, <3>3, StackNames
      <4>2. <<c, name>> = Nth(Kind(t), c, n)
        BY <4>1 DEF Nth
      <4>3. Registered <= IdIn(t, c, n) /\ IdIn(t, c, n) < size[Nth(Kind(t), c, n)]
        BY <2>3, <1>1 DEF IdInv
      <4> QED
        BY <2>1, <2>3, <4>2, <4>3
    <3>4. Registered <= g0[4]
      <4>1. StacksOf(g0[3])[1] \in ToSet(StacksOf(g0[3]))
        BY <1>3, <2>1, <2>4, StackNames
      <4> QED
        BY <3>3, <4>1, <2>4
    <3>5. g0[4] >= Registered
      BY <3>4, <2>1, <1>4 DEF Sane
    <3>6. \A g \in given' :
            /\ g[4] >= Registered
            /\ \A c \in 1 .. Contexts, name \in ToSet(StacksOf(g[3])) :
                  g[4] < size[<<c, name>>]
      BY <2>1, <3>3, <3>5 DEF IdsAreNew
    <3> QED
      BY <2>1, <3>2, <3>6 DEF IdsAreNew
  <2>9. LevelInv'
    <3>1. Kind(t) \in Kinds \ disturbed => \E size0 \in Nat :
            \A c \in 1 .. Contexts : \A n \in 1 .. Len(StacksOf(Kind(t))) :
                size[Nth(Kind(t), c, n)] = size0
      <4> SUFFICES ASSUME Kind(t) \in Kinds \ disturbed
                   PROVE  \E size0 \in Nat :
                             \A c \in 1 .. Contexts : \A n \in 1 .. Len(StacksOf(Kind(t))) :
                                 size[Nth(Kind(t), c, n)] = size0
        OBVIOUS
      <4>1. PICK size0 \in Nat : Level(Kind(t), size0, t)
        BY <1>13, <2>1
      <4>2. \A c \in 1 .. Contexts : \A n \in 1 .. Len(StacksOf(Kind(t))) :
              size[Nth(Kind(t), c, n)] = size0 + 1
        BY <4>1, <2>3 DEF Level
      <4>3. size0 + 1 \in Nat
        OBVIOUS
      <4> QED
        BY <4>2, <4>3
    <3> QED
      BY <1>1, <1>5, <2>1, <3>1, EndLevels
  <2>10. FailsForReason'
    <3> SUFFICES ASSUME NEW u \in Threads
                 PROVE  /\ reason'[u] = "full" => size'[At(u)'] = MaxBlocks * BlockLen
                        /\ reason'[u] = "mismatch" => Kind(u)' \in disturbed'
      BY DEF FailsForReason
    <3>1. CASE u = t
      BY <3>1, <1>3, <2>1
    <3>2. CASE u # t
      <4>1. reason'[u] = reason[u] /\ At(u)' = At(u)
        BY <3>2, <1>5, StaysSame DEF Stays
      <4> QED
        BY <4>1, <1>6, <2>1 DEF FailsForReason
    <3> QED
      BY <3>1, <3>2
  <2> QED
    BY <1>7, <1>9, <2>2, <2>6, <2>7, <2>8, <2>9, <2>10
<1> QED
  BY <1>2, <1>12, <1>14, <1>16, <1>17

-----------------------------------------------------------------------------

\* What registrations keep, with or without fairness.
THEOREM Invariance == ASSUME Sane PROVE Init /\ [][Next]_vars => []IInv
<1>1. Init => IInv
  BY InitIInv
<1>2. IInv /\ [Next]_vars => IInv'
  <2> SUFFICES ASSUME IInv, [Next]_vars
               PROVE  IInv'
    OBVIOUS
  <2>1. CASE UNCHANGED vars
    <3>1. UNCHANGED <<checking, aborted, size, capacity, blocks, lock, failures, pc, done,
                      cntx, stack, num_blocks_new, new, id_blksz, id, given, reason,
                      disturbed>>
      BY <2>1 DEF vars, stacks, call, history
    <3>2. \A u : Kind(u)' = Kind(u) /\ At(u)' = At(u)
      BY <3>1 DEF Kind, At
    <3>3. Typed' /\ StackInv'
      BY <3>1, <3>2 DEF IInv, Typed, StackInv, Allocated
    <3>4. PushInv'
      BY <3>1, <3>2 DEF IInv, PushInv, PushOk, HoldsLock, Allocated
    <3>5. Quiet
      BY <3>1, <3>2 DEF Quiet, Passed, IdIn
    <3> QED
      BY <3>3, <3>4, <3>5, QuietStep DEF IInv
  <2>2. ASSUME NEW t \in Threads, Registers(t)
        PROVE  IInv'
    BY <2>2, RegisterStep
  <2>3. ASSUME NEW t \in Threads, Grows(t)
        PROVE  IInv'
    BY <2>3, GrowStep, GrowFailsStep DEF Grows
  <2>4. ASSUME NEW t \in Threads, Pushes(t)
        PROVE  IInv'
    <3>1. Lock(t) \/ Test(t) \/ Save(t) \/ Increase(t) \/ Pushed(t)
      BY <2>4 DEF Pushes
    <3> QED
      BY <2>4, <3>1, LockStep, TestStep, SaveStep, IncreaseStep, PushedStep
  <2> QED
    BY <2>1, <2>2, <2>3, <2>4 DEF Next, Step, Terminated
<1> QED
  BY <1>1, <1>2, PTL

\* bli_gks_register_*: every id that a successful registration returns is new,
\* and an element of all stacks of its kind, though each stack has a lock of
\* its own and registrations of the same kind go from one to the next.
THEOREM NewIds == ASSUME Sane PROVE Init /\ [][Next]_vars => []IdsAreNew
BY Invariance, PTL DEF IInv

\* A registration that returns 0 has met a full stack, or another registration
\* of the same kind has come between.
THEOREM ReasonsForFailure == ASSUME Sane PROVE Init /\ [][Next]_vars => []FailsForReason
BY Invariance, PTL DEF IInv

\* bli_stack_get without the lock: an element below the size has a block, and
\* no step of any thread replaces it.
THEOREM LookupsAreSafe == ASSUME Sane PROVE Init /\ [][Next]_vars => LookupsNeedNoLock
<1> DEFINE Found == \A s \in Stacks : \A i \in 0 .. size[s] - 1 :
              LET b == i \div BlockLen
              IN /\ b \in DOMAIN blocks[s] /\ blocks'[s][b] = blocks[s][b]
                 /\ blocks[s][b] = 0 => ~checking /\ failures > 0
<1>1. IInv /\ [Next]_vars => [Found]_vars
  <2> SUFFICES ASSUME IInv, Next, ~ UNCHANGED vars, NEW s \in Stacks,
                      NEW i \in 0 .. size[s] - 1
               PROVE  /\ i \div BlockLen \in DOMAIN blocks[s]
                      /\ blocks'[s][i \div BlockLen] = blocks[s][i \div BlockLen]
                      /\ blocks[s][i \div BlockLen] = 0 => ~checking /\ failures > 0
    OBVIOUS
  <2> USE DEF IInv
  <2>1. /\ size[s] \in Nat /\ capacity[s] \in Nat /\ Allocated(s) \in Nat
        /\ capacity[s] = BlockLen * Allocated(s) /\ size[s] <= capacity[s]
        /\ DOMAIN blocks[s] = 0 .. Allocated(s) - 1
    BY StackFacts
  <2> DEFINE b == i \div BlockLen
  <2>2. b \in 0 .. Allocated(s) - 1
    <3>1. i \in Nat /\ i < BlockLen * Allocated(s)
      BY <2>1
    <3>2. b \in Nat /\ i % BlockLen \in 0 .. BlockLen - 1
          /\ i = (BlockLen * b) + (i % BlockLen)
      BY <3>1, DivMod DEF Sane
    <3>3. BlockLen * b \in Nat /\ BlockLen * Allocated(s) \in Nat
      BY <3>2, <2>1, Product DEF Sane
    <3> HIDE DEF b
    <3>4. BlockLen * b < BlockLen * Allocated(s)
      BY <3>1, <3>2, <3>3
    <3>5. b < Allocated(s)
      BY <3>2, <3>4, <2>1, MoreBlocks DEF Sane
    <3> QED
      BY <3>2, <3>5, <2>1
  <2>3. b \in DOMAIN blocks[s] /\ (blocks[s][b] = 0 => ~checking /\ failures > 0)
    BY <2>1, <2>2 DEF StackInv
  <2>4. ASSUME NEW t \in Threads, pc[t] = "grow", NEW block,
               AddBlock(t, NextBlock(At(t)), block)
        PROVE  blocks'[s][b] = blocks[s][b]
    <3>1. At(t) \in Stacks
      BY <2>4, Facts
    <3>2. NextBlock(At(t)) = Allocated(At(t))
      <4>1. capacity[At(t)] = BlockLen * Allocated(At(t)) /\ Allocated(At(t)) \in Nat
        BY <3>1, StackFacts
      <4> QED
        BY <4>1, CeilExact DEF NextBlock, Sane
    <3>3. CASE s = At(t)
      <4>1. b # NextBlock(s)
        BY <2>1, <2>2, <3>2, <3>3
      <4> HIDE DEF b
      <4> QED
        BY <2>3, <2>4, <3>1, <3>3, <4>1 DEF AddBlock, Typed
    <3>4. CASE s # At(t)
      BY <2>4, <3>1, <3>4 DEF AddBlock, Typed
    <3> QED
      BY <3>3, <3>4
  <2>5. blocks'[s][b] = blocks[s][b]
    <3>1. ASSUME NEW t \in Threads, Grow(t)
          PROVE  blocks'[s][b] = blocks[s][b]
      BY <3>1, <2>4 DEF Grow
    <3>2. ASSUME NEW t \in Threads, GrowFails(t)
          PROVE  blocks'[s][b] = blocks[s][b]
      BY <3>2, <2>4 DEF GrowFails
    <3>3. ASSUME NEW t \in Threads, Registers(t) \/ Pushes(t)
          PROVE  blocks' = blocks
      BY <3>3 DEF Registers, Register, Pushes, Lock, Test, Save, Increase, Pushed, stacks
    <3>4. Terminated => blocks' = blocks
      BY DEF Terminated, vars, stacks
    <3> QED
      BY <3>1, <3>2, <3>3, <3>4 DEF Next, Step, Grows
  <2> QED
    BY <2>3, <2>5
<1>2. Init /\ [][Next]_vars => []IInv
  BY Invariance
<1>3. [][Found]_vars => LookupsNeedNoLock
  BY DEF LookupsNeedNoLock
<1> QED
  BY <1>1, <1>2, <1>3, PTL
=============================================================================
