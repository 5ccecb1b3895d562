---------------------------- MODULE LibInitProofs ----------------------------
(***************************************************************************)
(* Theorems about LibInit, for any number of application threads and of    *)
(* calls; and the theorems about Registry as properties of MCLibInit,      *)
(* which checks the two together.                                          *)
(***************************************************************************)
EXTENDS MCLibInit, TLAPS

\* The switch that t sees of the i-th API, and the number of the API that t
\* is at.
Slot(t, i) == Switch(t, Apis[i])
At(t) == IF op[t] = "init" THEN api[t] + 1 ELSE 5 - api[t]

Points == {"idle", "test", "lock", "retest", "run", "drain", "unlock"}

Typed ==
    /\ in_order \in BOOLEAN
    /\ status \in [Switches -> {0, 1}]
    /\ mutex \in [Switches -> Threads \cup {NULL}]
    /\ up \in [Switches -> BOOLEAN]
    /\ pc \in [Threads -> Points]
    /\ op \in [Threads -> {"init", "finalize"}]
    /\ api \in [Threads -> 0 .. 5]
    /\ cycle \in Nat
    /\ born \in [Switches -> Nat]
    /\ ready \subseteq Threads /\ closed \subseteq Threads
    /\ \A t \in Threads : pc[t] # "idle" => api[t] \in 0 .. 4

\* The threads inside a switch hold its lock.
Holding(t) == pc[t] \in {"retest", "run", "drain", "unlock"}
LockInv == \A t \in Threads : Holding(t) => mutex[Slot(t, At(t))] = t

\* What a thread inside a switch knows of it.
InsideInv ==
    \A t \in Threads :
        LET sw == Slot(t, At(t))
        IN /\ pc[t] = "run" => status[sw] = Before(t) /\ ~up[sw]
           /\ pc[t] = "drain" => status[sw] = 1 - Before(t) /\ ~up[sw] /\ ~in_order
           /\ pc[t] = "unlock" => status[sw] = 1 - Before(t)

\* A switch shows whether its data is up, unless a thread is at work there.
UpInv ==
    \A sw \in Switches :
        \/ up[sw] <=> status[sw] = 1
        \/ \E t \in Threads : pc[t] \in {"run", "drain"} /\ Slot(t, At(t)) = sw

\* Initializations and finalizations do not overlap.
PhaseInv ==
    \A t \in Threads : pc[t] # "idle" =>
        /\ \A u \in Threads : pc[u] # "idle" => op[u] = op[t]
        /\ ready # {} => op[t] = "init"
        /\ closed # {} => op[t] = "finalize"

\* The switches that a thread has passed in its call are on, or off.
PassedInv ==
    \A t \in Threads, i \in 1 .. 5 :
        /\ pc[t] # "idle" /\ op[t] = "init" /\ i <= api[t] => status[Slot(t, i)] = 1
        /\ pc[t] # "idle" /\ op[t] = "finalize" /\ i > 5 - api[t] => status[Slot(t, i)] = 0
        /\ t \in ready => status[Slot(t, i)] = 1
        /\ t \in closed => status[Slot(t, i)] = 0

\* No global API is on without gks, and those that are on are of this cycle.
CycleInv ==
    \A t \in Threads : \A i \in {1, 3, 5} :
        status[Slot(t, i)] = 1 => status[Slot(t, 1)] = 1 /\ born[Slot(t, i)] = cycle

IInv == Typed /\ LockInv /\ InsideInv /\ UpInv /\ PhaseInv /\ PassedInv /\ CycleInv

-----------------------------------------------------------------------------

\* The five APIs, by number.
LEMMA ApisByNumber ==
    /\ Len(Apis) = 5
    /\ Apis[1] = "gks" /\ Apis[2] = "ind" /\ Apis[3] = "thread"
    /\ Apis[4] = "rntm" /\ Apis[5] = "memsys"
  BY DEF Apis

\* Each number has a switch of its own; those of the odd numbers are shared.
LEMMA Slots ==
    /\ \A t \in Threads, i \in 1 .. 5 : Slot(t, i) \in Switches
    /\ \A t, u \in Threads, i, j \in 1 .. 5 : Slot(t, i) = Slot(u, j) => i = j
    /\ \A t, u \in Threads, i \in {1, 3, 5} : Slot(t, i) = Slot(u, i)
    /\ \A sw \in GlobalSwitches : \E t \in Threads, i \in {1, 3, 5} : sw = Slot(t, i)
<1>1. \A t \in Threads, i \in 1 .. 5 : Slot(t, i) \in Switches
  BY ApisByNumber DEF Slot, Switches
<1>2. \A t, u \in Threads, i, j \in 1 .. 5 : Slot(t, i) = Slot(u, j) => i = j
  <2> SUFFICES ASSUME NEW t \in Threads, NEW u \in Threads,
                      NEW i \in 1 .. 5, NEW j \in 1 .. 5, Slot(t, i) = Slot(u, j)
               PROVE i = j
    OBVIOUS
  <2>1. Apis[i] = Apis[j]
    BY DEF Slot, Switch
  <2> QED
    BY <2>1, ApisByNumber
<1>3. \A t, u \in Threads, i \in {1, 3, 5} : Slot(t, i) = Slot(u, i)
  BY ApisByNumber DEF Slot, Switch, ThreadLocal
<1>4. ASSUME NEW sw \in GlobalSwitches
      PROVE  \E t \in Threads, i \in {1, 3, 5} : sw = Slot(t, i)
  <2>1. PICK t \in Threads, i \in 1 .. 5 : sw = Slot(t, i)
    BY ApisByNumber DEF GlobalSwitches, Switches, Slot
  <2>2. Apis[i] \notin ThreadLocal
    BY <2>1 DEF GlobalSwitches, Slot, Switch
  <2>3. i \in {1, 3, 5}
    BY <2>2, ApisByNumber DEF ThreadLocal
  <2> QED
    BY <2>1, <2>3
<1> QED
  BY <1>1, <1>2, <1>3, <1>4

\* The switch of a thread in a call.
LEMMA CurrentSlot ==
    ASSUME Typed, NEW t \in Threads, pc[t] # "idle"
    PROVE  /\ At(t) \in 1 .. 5
           /\ Current(t) = Slot(t, At(t))
           /\ Slot(t, At(t)) \in Switches
           /\ api[t] \in 0 .. 4
<1>1. api[t] \in 0 .. 4 /\ At(t) \in 1 .. 5
  BY DEF Typed, At
<1>2. Current(t) = Slot(t, At(t))
  BY ApisByNumber DEF Current, Slot, At
<1> QED
  BY <1>1, <1>2, Slots

LEMMA InitIInv == Init => IInv
<1> SUFFICES ASSUME Init PROVE IInv
  OBVIOUS
<1>1. Typed
  BY DEF Init, Typed, Points
<1>2. \A t \in Threads, i \in 1 .. 5 : status[Slot(t, i)] = 0
  BY Slots DEF Init
<1>3. LockInv /\ InsideInv /\ PhaseInv /\ PassedInv
  BY DEF Init, LockInv, Holding, InsideInv, PhaseInv, PassedInv
<1>4. UpInv
  BY DEF Init, UpInv
<1>5. CycleInv
  BY <1>2 DEF CycleInv
<1> QED
  BY <1>1, <1>3, <1>4, <1>5 DEF IInv

-----------------------------------------------------------------------------

\* A step of t that leaves the other threads where they are.
Alone(t) ==
    /\ \A u \in Threads \ {t} : pc'[u] = pc[u] /\ op'[u] = op[u] /\ api'[u] = api[u]
    /\ UNCHANGED in_order

\* Two threads inside the same switch are one.
LEMMA OneInside ==
    ASSUME LockInv, NEW t \in Threads, NEW u \in Threads, Holding(t), Holding(u),
           Slot(t, At(t)) = Slot(u, At(u))
    PROVE  t = u
  BY DEF LockInv

\* A call begins.
LEMMA CallStep ==
    ASSUME IInv, NEW t \in Threads, NEW o \in {"init", "finalize"}, Call(t, o)
    PROVE  IInv'
<1> USE DEF IInv, Call, Goto
<1>1. Alone(t) /\ pc[t] = "idle" /\ pc'[t] = "test" /\ op'[t] = o /\ api'[t] = 0
  BY DEF Typed, Alone
<1>2. Typed'
  BY DEF Typed, Points
<1>3. \A u \in Threads \ {t} : At(u)' = At(u)
  BY <1>1 DEF At, Alone
<1>4. LockInv' /\ InsideInv'
  BY <1>1, <1>3 DEF LockInv, Holding, InsideInv, Before, Alone
<1>5. UpInv'
  BY <1>1, <1>3 DEF UpInv, Alone
<1>6. PhaseInv'
  <2>1. \A u \in Threads : pc'[u] # "idle" => op'[u] = o
    BY <1>1 DEF Alone
  <2>2. /\ ready' # {} => o = "init"
        /\ closed' # {} => o = "finalize"
    OBVIOUS
  <2> QED
    BY <2>1, <2>2 DEF PhaseInv
<1>7. PassedInv'
  <2>1. api'[t] = 0 /\ ready' \subseteq ready /\ closed' \subseteq closed
    BY <1>1
  <2> QED
    BY <1>1, <2>1, <1>2 DEF PassedInv, Alone, Typed
<1>8. CycleInv'
  BY DEF CycleInv
<1> QED
  BY <1>2, <1>4, <1>5, <1>6, <1>7, <1>8

\* A switch is done with, and nothing has been changed but perhaps its lock.
LEMMA ReturnStep ==
    ASSUME IInv, NEW t \in Threads, pc[t] \in {"test", "unlock"}, SwitchReturn(t),
           status[Slot(t, At(t))] = 1 - Before(t),
           \/ UNCHANGED mutex
           \/ pc[t] = "unlock" /\ mutex' = [mutex EXCEPT ![Slot(t, At(t))] = NULL],
           UNCHANGED <<in_order, status, up, op, calls, cycle, born>>
    PROVE  IInv'
<1> USE DEF IInv, SwitchReturn, Goto
<1>0. api[t] \in 0 .. 4 /\ At(t) \in 1 .. 5 /\ Slot(t, At(t)) \in Switches
  BY CurrentSlot
<1>1. /\ Alone(t) /\ api'[t] = api[t] + 1 /\ op'[t] = op[t]
      /\ \/ api[t] < 4 /\ pc'[t] = "test" /\ ready' = ready /\ closed' = closed
         \/ /\ api[t] = 4 /\ pc'[t] = "idle"
            /\ ready' = IF op[t] = "init" THEN ready \cup {t} ELSE ready
            /\ closed' = IF op[t] = "init" THEN closed ELSE closed \cup {t}
  BY <1>0, ApisByNumber DEF Typed, Alone
<1>2. Typed'
  BY <1>0, <1>1, ApisByNumber DEF Typed, Points
<1>3. \A u \in Threads \ {t} : At(u)' = At(u)
  BY <1>1 DEF At, Alone
<1>4. ~Holding(t)'
  BY <1>1 DEF Holding
<1>5. LockInv'
  <2> SUFFICES ASSUME NEW u \in Threads \ {t}, Holding(u)
               PROVE  mutex'[Slot(u, At(u))] = u
    BY <1>1, <1>3, <1>4 DEF LockInv, Holding, Alone
  <2>1. mutex[Slot(u, At(u))] = u
    BY DEF LockInv
  <2>2. pc[t] = "unlock" => Slot(u, At(u)) # Slot(t, At(t))
    BY <2>1 DEF LockInv, Holding
  <2>3. Slot(u, At(u)) \in Switches
    BY CurrentSlot DEF Holding
  <2> QED
    BY <2>1, <2>2, <2>3 DEF Typed
<1>6. InsideInv'
  BY <1>1, <1>3 DEF InsideInv, Before, Alone
<1>7. UpInv'
  BY <1>1, <1>3 DEF UpInv, Alone
<1>8. PhaseInv'
  <2>1. \A u \in Threads : pc'[u] # "idle" => pc[u] # "idle" /\ op'[u] = op[u]
    BY <1>1 DEF Alone
  <2>2. \A u \in Threads : pc[u] # "idle" =>
           /\ op[u] = op[t]
           /\ ready # {} => op[t] = "init"
           /\ closed # {} => op[t] = "finalize"
    BY DEF PhaseInv
  <2>3. /\ ready' # {} => op[t] = "init"
        /\ closed' # {} => op[t] = "finalize"
    BY <1>1, <2>2 DEF Typed
  <2> QED
    BY <2>1, <2>2, <2>3 DEF PhaseInv
<1>9. PassedInv'
  <2>1. ASSUME NEW i \in 1 .. 5, op[t] = "init", i <= api[t] + 1
        PROVE  status[Slot(t, i)] = 1
    BY <1>0, <2>1 DEF PassedInv, Before, At
  <2>2. ASSUME NEW i \in 1 .. 5, op[t] = "finalize", i > 5 - (api[t] + 1)
        PROVE  status[Slot(t, i)] = 0
    BY <1>0, <2>2 DEF PassedInv, Before, At
  <2>3. ASSUME NEW u \in Threads \ {t}, NEW i \in 1 .. 5
        PROVE  PassedInv!(u, i)'
    BY <1>1 DEF PassedInv, Alone
  <2>4. ASSUME NEW i \in 1 .. 5
        PROVE  PassedInv!(t, i)'
    BY <1>0, <1>1, <2>1, <2>2 DEF PassedInv, Typed
  <2> QED
    BY <2>3, <2>4 DEF PassedInv
<1>10. CycleInv'
  BY DEF CycleInv
<1> QED
  BY <1>2, <1>5, <1>6, <1>7, <1>8, <1>9, <1>10

\* The test without the lock.
LEMMA TestStep ==
    ASSUME IInv, NEW t \in Threads, Test(t), UNCHANGED in_order
    PROVE  IInv'
<1>0. /\ pc[t] = "test" /\ Current(t) = Slot(t, At(t))
      /\ Slot(t, At(t)) \in Switches
  BY CurrentSlot DEF IInv, Test
<1>1. CASE status[Current(t)] = Before(t)
  <2> USE DEF IInv
  <2>1. /\ Alone(t) /\ pc' = [pc EXCEPT ![t] = "lock"]
        /\ UNCHANGED <<in_order, status, mutex, up, op, api, cycle, born, ready, closed>>
    BY <1>1 DEF Test, Goto, Typed, Alone
  <2>2. Typed'
    BY <1>0, <2>1 DEF Typed, Points
  <2>3. \A u \in Threads : At(u)' = At(u)
    BY <2>1 DEF At
  <2>4. LockInv' /\ InsideInv' /\ UpInv'
    BY <1>0, <2>1, <2>3 DEF LockInv, Holding, InsideInv, Before, UpInv, Typed
  <2>5. PhaseInv' /\ PassedInv' /\ CycleInv'
    BY <1>0, <2>1 DEF PhaseInv, PassedInv, CycleInv, Typed
  <2> QED
    BY <2>2, <2>4, <2>5
<1>2. CASE status[Current(t)] # Before(t)
  <2>1. status[Slot(t, At(t))] = 1 - Before(t)
    BY <1>0, <1>2 DEF IInv, Typed, Before
  <2>2. SwitchReturn(t) /\ UNCHANGED <<status, mutex, up, op, calls, cycle, born>>
    BY <1>2 DEF Test
  <2> QED
    BY <1>0, <2>1, <2>2, ReturnStep
<1> QED
  BY <1>1, <1>2

\* The lock is taken.
LEMMA LockStep ==
    ASSUME IInv, NEW t \in Threads, Lock(t), UNCHANGED in_order
    PROVE  IInv'
<1> USE DEF IInv
<1>0. /\ pc[t] = "lock" /\ Current(t) = Slot(t, At(t))
      /\ Slot(t, At(t)) \in Switches
  BY CurrentSlot DEF Lock
<1>1. /\ Alone(t) /\ pc' = [pc EXCEPT ![t] = "retest"]
      /\ mutex[Slot(t, At(t))] = NULL
      /\ mutex' = [mutex EXCEPT ![Slot(t, At(t))] = t]
      /\ UNCHANGED <<in_order, status, up, op, api, cycle, born, ready, closed>>
  BY <1>0 DEF Lock, Goto, Typed, Alone, history
<1>2. Typed'
  BY <1>0, <1>1 DEF Typed, Points
<1>3. \A u \in Threads : At(u)' = At(u)
  BY <1>1 DEF At
<1>4. LockInv'
  <2> SUFFICES ASSUME NEW u \in Threads, Holding(u)'
               PROVE  mutex'[Slot(u, At(u))] = u
    BY <1>3 DEF LockInv
  <2>1. CASE u = t
    BY <2>1, <1>0, <1>1 DEF Typed
  <2>2. CASE u # t
    <3>1. Holding(u)
      BY <2>2, <1>1 DEF Holding, Typed
    <3>2. mutex[Slot(u, At(u))] = u /\ u # NULL /\ Slot(u, At(u)) \in Switches
      BY <3>1, LibInitAssumption, CurrentSlot DEF LockInv, Holding
    <3> QED
      BY <3>2, <1>1 DEF Typed
  <2> QED
    BY <2>1, <2>2
<1>5. InsideInv' /\ UpInv'
  BY <1>0, <1>1, <1>3 DEF InsideInv, Before, UpInv, Typed
<1>6. PhaseInv' /\ PassedInv' /\ CycleInv'
  BY <1>0, <1>1 DEF PhaseInv, PassedInv, CycleInv, Typed
<1> QED
  BY <1>2, <1>4, <1>5, <1>6

\* The test with the lock, and the beginning of the function.
LEMMA RetestStep ==
    ASSUME IInv, NEW t \in Threads, Retest(t), UNCHANGED in_order
    PROVE  IInv'
<1> USE DEF IInv
<1> DEFINE sw == Slot(t, At(t))
<1>0. pc[t] = "retest" /\ Current(t) = sw /\ sw \in Switches /\ At(t) \in 1 .. 5
  BY CurrentSlot DEF Retest
<1>1. /\ Alone(t) /\ pc' \in [Threads -> Points] /\ pc'[t] # "idle"
      /\ pc'[t] \in {"run", "unlock"}
      /\ UNCHANGED <<in_order, status, mutex, op, api, born, ready, closed>>
  BY <1>0 DEF Retest, Goto, Typed, Alone, Points
<1>2. /\ pc'[t] = "run" => status[sw] = Before(t) /\ up' = [up EXCEPT ![sw] = FALSE]
      /\ pc'[t] = "unlock" => status[sw] = 1 - Before(t) /\ up' = up
  BY <1>0 DEF Retest, Goto, Typed, Before
<1>3. /\ cycle' \in Nat
      /\ cycle' # cycle => op[t] = "init" /\ At(t) = 1 /\ status[sw] = 0
  <2>1. sw[1] = "gks" => At(t) = 1
    BY <1>0, ApisByNumber DEF Slot, Switch
  <2> QED
    BY <1>0, <2>1 DEF Retest, Typed, Before
<1>4. Typed'
  <2>1. up' \in [Switches -> BOOLEAN]
    BY <1>0, <1>1, <1>2 DEF Typed
  <2> QED
    BY <1>0, <1>1, <1>3, <2>1 DEF Typed, Alone
<1>5. \A u \in Threads : At(u)' = At(u)
  BY <1>1 DEF At
<1>6. LockInv'
  BY <1>0, <1>1, <1>5 DEF LockInv, Holding, Alone
<1>7. \A u \in Threads \ {t} : Holding(u) => Slot(u, At(u)) # sw
  BY <1>0, OneInside DEF Holding
<1>8. InsideInv'
  <2> SUFFICES ASSUME NEW u \in Threads PROVE InsideInv!(u)'
    BY DEF InsideInv
  <2>1. CASE u = t
    BY <2>1, <1>0, <1>1, <1>2, <1>5 DEF InsideInv, Before, Typed
  <2>2. CASE u # t
    <3>1. Holding(u) => up'[Slot(u, At(u))] = up[Slot(u, At(u))]
      <4> SUFFICES ASSUME Holding(u) PROVE up'[Slot(u, At(u))] = up[Slot(u, At(u))]
        OBVIOUS
      <4>1. Slot(u, At(u)) # sw /\ Slot(u, At(u)) \in Switches
        BY <2>2, <1>7, CurrentSlot DEF Holding
      <4> QED
        BY <4>1, <1>0, <1>1, <1>2 DEF Typed
    <3> QED
      BY <2>2, <3>1, <1>1, <1>5 DEF InsideInv, Before, Alone, Holding
  <2> QED
    BY <2>1, <2>2
<1>9. UpInv'
  <2> SUFFICES ASSUME NEW s \in Switches PROVE UpInv!(s)'
    BY DEF UpInv
  <2>1. CASE s = sw /\ pc'[t] = "run"
    BY <2>1, <1>5
  <2>2. CASE s # sw \/ pc'[t] = "unlock"
    <3>1. up'[s] = up[s]
      BY <2>2, <1>0, <1>1, <1>2 DEF Typed
    <3>2. \A u \in Threads : pc[u] \in {"run", "drain"} => pc'[u] = pc[u]
      BY <1>0, <1>1 DEF Alone
    <3> QED
      BY <3>1, <3>2, <1>1, <1>5 DEF UpInv
  <2> QED
    BY <2>1, <2>2, <1>1
<1>10. PhaseInv'
  BY <1>0, <1>1 DEF PhaseInv, Alone
<1>11. PassedInv'
  BY <1>0, <1>1 DEF PassedInv, Alone
<1>12. CycleInv'
  <2> SUFFICES ASSUME NEW u \in Threads, NEW i \in {1, 3, 5}, status[Slot(u, i)] = 1
               PROVE  status[Slot(u, 1)] = 1 /\ born[Slot(u, i)] = cycle'
    BY <1>1 DEF CycleInv
  <2>1. status[Slot(u, 1)] = 1 /\ born[Slot(u, i)] = cycle
    BY DEF CycleInv
  <2>2. Slot(u, 1) = Slot(t, 1)
    BY Slots
  <2> QED
    BY <2>1, <2>2, <1>3
<1> QED
  BY <1>4, <1>6, <1>8, <1>9, <1>10, <1>11, <1>12

\* The function returns and the switch is turned.
LEMMA FunctionReturnStep ==
    ASSUME IInv, NEW t \in Threads, FunctionReturn(t), UNCHANGED in_order
    PROVE  IInv'
<1> USE DEF IInv
<1> DEFINE sw == Slot(t, At(t))
<1>0. /\ pc[t] = "run" /\ Current(t) = sw /\ sw \in Switches
      /\ At(t) \in 1 .. 5 /\ api[t] \in 0 .. 4
  BY CurrentSlot DEF FunctionReturn
<1>1. /\ Alone(t) /\ pc' \in [Threads -> Points]
      /\ pc'[t] \in {"unlock", "drain"}
      /\ status' = [status EXCEPT ![sw] = 1 - Before(t)]
      /\ born' = [born EXCEPT ![sw] = IF op[t] = "init" THEN cycle ELSE @]
      /\ UNCHANGED <<in_order, mutex, op, api, cycle, ready, closed>>
  BY <1>0 DEF FunctionReturn, Goto, Typed, Alone, Points
<1>2. \/ pc'[t] = "unlock" /\ up' = [up EXCEPT ![sw] = op[t] = "init"]
      \/ pc'[t] = "drain" /\ ~in_order /\ up' = up
  BY <1>0 DEF FunctionReturn, Goto, Typed
<1>3. /\ status[sw] = Before(t) /\ ~up[sw]
      /\ status'[sw] = 1 - Before(t)
      /\ Before(t) = IF op[t] = "init" THEN 0 ELSE 1
      /\ op[t] \in {"init", "finalize"}
  BY <1>0, <1>1 DEF InsideInv, Before, Typed
<1>4. Typed'
  <2>1. status' \in [Switches -> {0, 1}] /\ born' \in [Switches -> Nat]
    BY <1>1, <1>3 DEF Typed
  <2>2. up' \in [Switches -> BOOLEAN]
    BY <1>2 DEF Typed
  <2> QED
    BY <1>0, <1>1, <2>1, <2>2 DEF Typed, Alone
<1>5. \A u \in Threads : At(u)' = At(u)
  BY <1>1 DEF At
<1>6. LockInv'
  BY <1>0, <1>1, <1>5 DEF LockInv, Holding, Alone
<1>7. ASSUME NEW s \in Switches, s # sw
      PROVE  up'[s] = up[s] /\ status'[s] = status[s] /\ born'[s] = born[s]
  BY <1>7, <1>1, <1>2 DEF Typed
<1>8. ASSUME NEW u \in Threads \ {t}, Holding(u)
      PROVE  Slot(u, At(u)) \in Switches /\ Slot(u, At(u)) # sw
  BY <1>8, <1>0, OneInside, CurrentSlot DEF Holding
<1>9. InsideInv'
  <2> SUFFICES ASSUME NEW u \in Threads PROVE InsideInv!(u)'
    BY DEF InsideInv
  <2>1. CASE u = t
    BY <2>1, <1>0, <1>1, <1>2, <1>3, <1>5 DEF Before, Typed
  <2>2. CASE u # t
    <3>1. Holding(u) => /\ up'[Slot(u, At(u))] = up[Slot(u, At(u))]
                        /\ status'[Slot(u, At(u))] = status[Slot(u, At(u))]
      BY <2>2, <1>7, <1>8
    <3> QED
      BY <2>2, <3>1, <1>1, <1>5 DEF InsideInv, Before, Alone, Holding
  <2> QED
    BY <2>1, <2>2
<1>10. UpInv'
  <2> SUFFICES ASSUME NEW s \in Switches PROVE UpInv!(s)'
    BY DEF UpInv
  <2>1. CASE s = sw /\ pc'[t] = "drain"
    BY <2>1, <1>5
  <2>2. CASE s = sw /\ pc'[t] = "unlock"
    <3>1. up'[sw] <=> op[t] = "init"
      BY <2>2, <1>0, <1>2 DEF Typed
    <3> QED
      BY <2>2, <3>1, <1>3
  <2>3. CASE s # sw
    <3>1. \A u \in Threads : Slot(u, At(u)) = s => u # t
      BY <2>3
    <3> QED
      BY <2>3, <3>1, <1>7, <1>1, <1>5 DEF UpInv, Alone
  <2> QED
    BY <2>1, <2>2, <2>3, <1>1
<1>11. PhaseInv'
  BY <1>0, <1>1 DEF PhaseInv, Alone
<1>12. PassedInv'
  <2>1. ASSUME NEW u \in Threads, NEW i \in 1 .. 5
        PROVE  \/ status'[Slot(u, i)] = status[Slot(u, i)]
               \/ status'[Slot(u, i)] = IF op[t] = "init" THEN 1 ELSE 0
    BY <1>3, <1>7, Slots
  <2>2. /\ \A u \in Threads : pc[u] # "idle" => op[u] = op[t]
        /\ ready # {} => op[t] = "init"
        /\ closed # {} => op[t] = "finalize"
    BY <1>0 DEF PhaseInv
  <2>3. \A u \in Threads : pc'[u] # "idle" => pc[u] # "idle"
    BY <1>0, <1>1 DEF Alone
  <2> SUFFICES ASSUME NEW u \in Threads, NEW i \in 1 .. 5 PROVE PassedInv!(u, i)'
    BY DEF PassedInv
  <2>4. PassedInv!(u, i)
    BY DEF PassedInv
  <2> QED
    BY <1>1, <1>3, <2>1, <2>2, <2>3, <2>4
<1>13. CycleInv'
  <2> SUFFICES ASSUME NEW u \in Threads, NEW i \in {1, 3, 5}, status'[Slot(u, i)] = 1
               PROVE  status'[Slot(u, 1)] = 1 /\ born'[Slot(u, i)] = cycle'
    BY DEF CycleInv
  <2>1. Slot(u, i) = Slot(t, i) /\ Slot(u, 1) = Slot(t, 1)
    BY Slots
  <2>2. Slot(t, i) \in Switches /\ Slot(t, 1) \in Switches
    BY Slots
  <2>3. CASE op[t] = "init"
    <3>1. status'[Slot(t, 1)] = 1
      <4>1. CASE At(t) = 1
        BY <4>1, <2>3, <1>3
      <4>2. CASE At(t) # 1
        <5>1. 1 <= api[t]
          BY <4>2, <2>3, <1>0 DEF At
        <5>2. status[Slot(t, 1)] = 1
          BY <5>1, <2>3, <1>0 DEF PassedInv
        <5> QED
          BY <5>2, <2>2, <2>3, <1>3, <1>7
      <4> QED
        BY <4>1, <4>2
    <3>2. born'[Slot(t, i)] = cycle
      <4>1. CASE Slot(t, i) = sw
        BY <4>1, <2>3, <1>0, <1>1 DEF Typed
      <4>2. CASE Slot(t, i) # sw
        BY <4>2, <2>1, <2>2, <1>7 DEF CycleInv
      <4> QED
        BY <4>1, <4>2
    <3> QED
      BY <3>1, <3>2, <2>1, <1>1
  <2>4. CASE op[t] = "finalize"
    <3>1. Slot(t, i) # sw
      BY <2>1, <2>4, <1>3
    <3>2. status[Slot(t, i)] = 1
      BY <3>1, <2>1, <2>2, <1>7
    <3>3. status[Slot(t, 1)] = 1 /\ born[Slot(t, i)] = cycle
      BY <3>2 DEF CycleInv
    <3>4. At(t) # 1
      <4> SUFFICES ASSUME At(t) = 1 PROVE FALSE
        OBVIOUS
      <4>1. api[t] = 4
        BY <2>4, <1>0 DEF At
      <4>2. i # 1
        BY <3>1
      <4>3. status[Slot(t, i)] = 0
        BY <4>1, <4>2, <2>4, <1>0 DEF PassedInv
      <4> QED
        BY <4>3, <3>2
    <3>5. Slot(t, 1) # sw
      BY <3>4, <1>0, Slots
    <3> QED
      BY <3>1, <3>3, <3>5, <2>1, <2>2, <1>1, <1>7
  <2> QED
    BY <2>3, <2>4, <1>3
<1> QED
  BY <1>4, <1>6, <1>9, <1>10, <1>11, <1>12, <1>13

\* The stores of the function are seen at last.
LEMMA StoresSeenStep ==
    ASSUME IInv, NEW t \in Threads, StoresSeen(t), UNCHANGED in_order
    PROVE  IInv'
<1> USE DEF IInv
<1> DEFINE sw == Slot(t, At(t))
<1>0. pc[t] = "drain" /\ Current(t) = sw /\ sw \in Switches
  BY CurrentSlot DEF StoresSeen
<1>1. /\ Alone(t) /\ pc' = [pc EXCEPT ![t] = "unlock"]
      /\ up' = [up EXCEPT ![sw] = op[t] = "init"]
      /\ UNCHANGED <<in_order, status, mutex, op, api, cycle, born, ready, closed>>
  BY <1>0 DEF StoresSeen, Goto, Typed, Alone, history
<1>2. Typed'
  BY <1>0, <1>1 DEF Typed, Points
<1>3. \A u \in Threads : At(u)' = At(u)
  BY <1>1 DEF At
<1>4. LockInv'
  BY <1>0, <1>1, <1>3 DEF LockInv, Holding, Typed
<1>5. ASSUME NEW u \in Threads \ {t}, Holding(u)
      PROVE  up'[Slot(u, At(u))] = up[Slot(u, At(u))]
  <2>1. Slot(u, At(u)) # sw /\ Slot(u, At(u)) \in Switches
    BY <1>0, <1>5, OneInside, CurrentSlot DEF Holding
  <2> QED
    BY <2>1, <1>1 DEF Typed
<1>6. InsideInv'
  BY <1>0, <1>1, <1>3, <1>5 DEF InsideInv, Before, Holding, Alone, Typed
<1>7. UpInv'
  <2> SUFFICES ASSUME NEW s \in Switches PROVE UpInv!(s)'
    BY DEF UpInv
  <2>1. CASE s = sw
    <3>1. up'[sw] <=> op[t] = "init"
      BY <1>0, <1>1 DEF Typed
    <3>2. status[sw] = IF op[t] = "init" THEN 1 ELSE 0
      BY <1>0 DEF InsideInv, Before
    <3> QED
      BY <2>1, <3>1, <3>2, <1>1
  <2>2. CASE s # sw
    <3>1. up'[s] = up[s]
      BY <2>2, <1>1 DEF Typed
    <3>2. \A u \in Threads : Slot(u, At(u)) = s => u # t
      BY <2>2
    <3> QED
      BY <3>1, <3>2, <1>1, <1>3 DEF UpInv, Alone
  <2> QED
    BY <2>1, <2>2
<1>8. PhaseInv' /\ PassedInv' /\ CycleInv'
  BY <1>0, <1>1 DEF PhaseInv, PassedInv, CycleInv, Typed
<1> QED
  BY <1>2, <1>4, <1>6, <1>7, <1>8

\* The lock is released.
LEMMA UnlockStep ==
    ASSUME IInv, NEW t \in Threads, Unlock(t), UNCHANGED in_order
    PROVE  IInv'
<1>1. pc[t] = "unlock" /\ Current(t) = Slot(t, At(t))
  BY CurrentSlot DEF IInv, Unlock
<1>2. status[Slot(t, At(t))] = 1 - Before(t)
  BY <1>1 DEF IInv, InsideInv
<1>3. /\ SwitchReturn(t) /\ mutex' = [mutex EXCEPT ![Slot(t, At(t))] = NULL]
      /\ UNCHANGED <<status, up, op, calls, cycle, born>>
  BY <1>1 DEF Unlock
<1> QED
  BY <1>1, <1>2, <1>3, ReturnStep

-----------------------------------------------------------------------------

\* The inductive invariant of initialization and finalization, whatever the
\* threads call and in whatever order their stores are seen.
THEOREM Invariance == Spec => []IInv
<1>1. IInv /\ [Next]_vars => IInv'
  <2> SUFFICES ASSUME IInv, [Next]_vars PROVE IInv'
    OBVIOUS
  <2>1. ASSUME NEW t \in Threads, Step(t) PROVE IInv'
    BY <2>1, TestStep, LockStep, RetestStep, FunctionReturnStep, StoresSeenStep,
       UnlockStep DEF Step
  <2>2. ASSUME NEW t \in Threads, NEW o \in {"init", "finalize"}, Call(t, o) PROVE IInv'
    BY <2>2, CallStep
  <2>3. CASE UNCHANGED vars
    <3>1. \A t \in Threads : At(t)' = At(t) /\ Before(t)' = Before(t) /\ Holding(t)' = Holding(t)
      BY <2>3 DEF At, Before, Holding, vars, thread
    <3> QED
      BY <2>3, <3>1 DEF IInv, vars, thread, history, Typed, LockInv, InsideInv, UpInv,
         PhaseInv, PassedInv, CycleInv
  <2> QED
    BY <2>1, <2>2, <2>3 DEF Next, Terminated
<1> QED
  BY <1>1, InitIInv, PTL DEF Spec

\* The function of each API (bli_pthread_switch_on, _off) runs in one thread
\* at a time, on a switch that is the other way, and after bli_gks_init where
\* it needs a context.
THEOREM InitsOneAtATime == Spec => []OneAtATime
<1>1. IInv => OneAtATime
  <2> SUFFICES ASSUME IInv PROVE OneAtATime
    OBVIOUS
  <2> USE DEF IInv
  <2>1. ASSUME NEW t \in Threads, pc[t] = "run"
        PROVE  /\ status[Current(t)] = Before(t)
               /\ \A u \in Threads \ {t} : pc[u] = "run" => Current(u) # Current(t)
    <3>1. \A u \in Threads : pc[u] = "run" => Current(u) = Slot(u, At(u)) /\ Holding(u)
      BY CurrentSlot DEF Holding
    <3> QED
      BY <2>1, <3>1, OneInside DEF InsideInv
  <2>2. ASSUME NEW t \in Threads, in_order, pc[t] = "run", op[t] = "init",
               Current(t)[1] \in {"ind", "memsys"}
        PROVE  up[Switch(t, "gks")]
    <3>1. Current(t) = Slot(t, At(t)) /\ At(t) \in 1 .. 5 /\ api[t] \in 0 .. 4
      BY <2>2, CurrentSlot
    <3>2. At(t) # 1
      BY <2>2, <3>1, ApisByNumber DEF Slot, Switch
    <3>3. 1 <= api[t]
      BY <2>2, <3>1, <3>2 DEF At
    <3>4. status[Slot(t, 1)] = 1
      BY <2>2, <3>1, <3>3 DEF PassedInv
    <3>5. Slot(t, 1) \in Switches /\ Slot(t, 1) = Switch(t, "gks")
      BY Slots, ApisByNumber DEF Slot
    <3>6. \A u \in Threads : pc[u] \in {"run", "drain"} => Slot(u, At(u)) # Slot(t, 1)
      <4> SUFFICES ASSUME NEW u \in Threads, pc[u] = "run" PROVE Slot(u, At(u)) # Slot(t, 1)
        BY <2>2 DEF InsideInv
      <4>1. op[u] = "init"
        BY <2>2 DEF PhaseInv
      <4>2. status[Slot(u, At(u))] = 0
        BY <4>1 DEF InsideInv, Before
      <4> QED
        BY <4>2, <3>4
    <3> QED
      BY <3>4, <3>5, <3>6 DEF UpInv
  <2> QED
    BY <2>1, <2>2 DEF OneAtATime, SwitchExcludes, GksBeforeUse
<1> QED
  BY <1>1, Invariance, PTL

\* Whoever returns from bli_init_once finds the library initialized, in this
\* cycle, if stores are seen in order; whoever returns from bli_finalize finds
\* it down.
THEOREM ReturnsTakeEffect == Spec => []CallsTakeEffect
<1>1. IInv => CallsTakeEffect
  <2> SUFFICES ASSUME IInv PROVE CallsTakeEffect
    OBVIOUS
  <2> USE DEF IInv
  <2>0. ASSUME NEW t \in Threads, NEW i \in 1 .. 5
        PROVE  Slot(t, i) \in Switches /\ Slot(t, i) = Switch(t, Apis[i])
    BY Slots DEF Slot
  <2>1. ASSUME in_order, NEW t \in ready, NEW i \in 1 .. 5 PROVE up[Slot(t, i)]
    <3>1. t \in Threads /\ status[Slot(t, i)] = 1
      BY <2>1 DEF PassedInv, Typed
    <3>2. \A u \in Threads : pc[u] \in {"run", "drain"} => Slot(u, At(u)) # Slot(t, i)
      <4> SUFFICES ASSUME NEW u \in Threads, pc[u] = "run" PROVE Slot(u, At(u)) # Slot(t, i)
        BY <2>1 DEF InsideInv
      <4>1. op[u] = "init"
        BY DEF PhaseInv
      <4>2. status[Slot(u, At(u))] = 0
        BY <4>1 DEF InsideInv, Before
      <4> QED
        BY <4>2, <3>1
    <3> QED
      BY <3>1, <3>2, <2>0 DEF UpInv
  <2>2. ASSUME NEW t \in ready, NEW sw \in GlobalSwitches PROVE born[sw] = cycle
    <3>1. PICK u \in Threads, i \in {1, 3, 5} : sw = Slot(u, i)
      BY Slots
    <3>2. t \in Threads /\ Slot(t, i) = sw
      BY <3>1, Slots DEF Typed
    <3>3. status[Slot(t, i)] = 1
      BY <3>2 DEF PassedInv
    <3> QED
      BY <3>2, <3>3 DEF CycleInv
  <2>3. ASSUME NEW t \in closed, NEW i \in 1 .. 5 PROVE ~up[Slot(t, i)]
    <3>1. t \in Threads /\ status[Slot(t, i)] = 0
      BY <2>3 DEF PassedInv, Typed
    <3>2. CASE \E u \in Threads : pc[u] \in {"run", "drain"} /\ Slot(u, At(u)) = Slot(t, i)
      BY <3>2 DEF InsideInv
    <3>3. CASE ~ \E u \in Threads : pc[u] \in {"run", "drain"} /\ Slot(u, At(u)) = Slot(t, i)
      BY <3>1, <3>3, <2>0 DEF UpInv
    <3> QED
      BY <3>2, <3>3
  <2>4. ReadyOnReturn
    <3>1. ASSUME in_order, NEW t \in ready PROVE Initialized(t)
      <4>1. t \in Threads
        BY <3>1 DEF Typed
      <4>2. ASSUME NEW i \in 1 .. 5 PROVE up[Switch(t, Apis[i])]
        BY <3>1, <2>1 DEF Slot
      <4> QED
        BY <4>2, ApisByNumber DEF Initialized
    <3> QED
      BY <3>1, <2>2 DEF ReadyOnReturn
  <2>5. DownOnReturn
    BY <2>0, <2>3, ApisByNumber DEF DownOnReturn, Typed
  <2> QED
    BY <2>4, <2>5 DEF CallsTakeEffect
<1> QED
  BY <1>1, Invariance, PTL

-----------------------------------------------------------------------------
(***************************************************************************)
(* Registry in MCLibInit.  RP is the instance with the theorems; that its  *)
(* definitions are those of the instance that MCLibInit checks is seen by  *)
(* expanding both.                                                         *)
(***************************************************************************)

RP == INSTANCE RegistryProofs WITH
    checking <- reg_checking, aborted <- reg_aborted, size <- reg_size,
    capacity <- reg_capacity, blocks <- reg_blocks, lock <- reg_lock,
    failures <- reg_failures, pc <- reg_pc, done <- reg_done, cntx <- reg_cntx,
    stack <- reg_stack, num_blocks_new <- reg_num_blocks_new, new <- reg_new,
    id_blksz <- reg_id_blksz, id <- reg_id, given <- reg_given,
    reason <- reg_reason, disturbed <- reg_disturbed

LEMMA SameIdsAreNew == RP!IdsAreNew <=> IdsAreNew
  BY DEF IdsAreNew, Registry!IdsAreNew, RP!IdsAreNew,
         Registry!StacksOf, RP!StacksOf, Registry!ToSet, RP!ToSet

LEMMA SameFailsForReason == RP!FailsForReason <=> FailsForReason
  BY DEF FailsForReason, Registry!FailsForReason, RP!FailsForReason,
         Registry!StacksOf, RP!StacksOf, Registry!At, RP!At, Registry!Kind, RP!Kind

LEMMA SameLookups == RP!LookupsNeedNoLock <=> LookupsNeedNoLock
  BY DEF LookupsNeedNoLock, Registry!LookupsNeedNoLock, RP!LookupsNeedNoLock,
         Registry!Stacks, RP!Stacks, Registry!vars, RP!vars, Registry!stacks, RP!stacks,
         Registry!call, RP!call, Registry!history, RP!history

LEMMA SameInit == Registry!Init <=> RP!Init
  BY DEF Registry!Init, RP!Init, Registry!Stacks, RP!Stacks,
         Registry!CeilBlocks, RP!CeilBlocks

LEMMA SameRegisters ==
  ASSUME NEW t PROVE Registry!Registers(t) <=> RP!Registers(t)
  BY DEF Registry!Registers, RP!Registers, Registry!Register, RP!Register,
         Registry!Running, RP!Running, Registry!Kind, RP!Kind, Registry!Goto, RP!Goto,
         Registry!stacks, RP!stacks

LEMMA SameGrows == ASSUME NEW t PROVE Registry!Grows(t) <=> RP!Grows(t)
  <1> USE DEF Registry!AddBlock, RP!AddBlock, Registry!NextBlock, RP!NextBlock,
              Registry!CeilBlocks, RP!CeilBlocks, Registry!At, RP!At,
              Registry!StacksOf, RP!StacksOf, Registry!Kind, RP!Kind,
              Registry!Goto, RP!Goto, Registry!call, RP!call,
              Registry!history, RP!history
  <1>1. Registry!Grow(t) <=> RP!Grow(t)
    BY DEF Registry!Grow, RP!Grow
  <1>2. Registry!GrowFails(t) <=> RP!GrowFails(t)
    BY DEF Registry!GrowFails, RP!GrowFails
  <1> QED
    BY <1>1, <1>2 DEF Registry!Grows, RP!Grows

LEMMA SamePushes == ASSUME NEW t PROVE Registry!Pushes(t) <=> RP!Pushes(t)
  <1> USE DEF Registry!At, RP!At, Registry!StacksOf, RP!StacksOf,
              Registry!Kind, RP!Kind, Registry!Goto, RP!Goto, Registry!Fail, RP!Fail,
              Registry!stacks, RP!stacks, Registry!call, RP!call,
              Registry!history, RP!history
  <1>1. Registry!Lock(t) <=> RP!Lock(t)
    BY DEF Registry!Lock, RP!Lock
  <1>2. Registry!Test(t) <=> RP!Test(t)
    BY DEF Registry!Test, RP!Test, Registry!Needed, RP!Needed,
           Registry!CeilBlocks, RP!CeilBlocks, Registry!Max, RP!Max, Registry!Min, RP!Min
  <1>3. Registry!Save(t) <=> RP!Save(t)
    BY DEF Registry!Save, RP!Save
  <1>4. Registry!Increase(t) <=> RP!Increase(t)
    BY DEF Registry!Increase, RP!Increase
  <1>5. Registry!Pushed(t) <=> RP!Pushed(t)
    BY DEF Registry!Pushed, RP!Pushed, Registry!Agree, RP!Agree
  <1> QED
    BY <1>1, <1>2, <1>3, <1>4, <1>5 DEF Registry!Pushes, RP!Pushes

\* A step of MCLibInit is one of Registry, or leaves it alone.
LEMMA RegistrySteps == [MCNext]_MCvars => [RP!Next]_(RP!vars)
  <1> SUFFICES ASSUME [MCNext]_MCvars
               PROVE  RP!Next \/ UNCHANGED RP!vars
    OBVIOUS
  <1>1. UNCHANGED reg_vars => UNCHANGED RP!vars
    BY DEF reg_vars, RP!vars, RP!stacks, RP!call, RP!history
  <1>2. UNCHANGED MCvars => UNCHANGED reg_vars
    BY DEF MCvars
  <1>3. ASSUME NEW t \in Threads, Registry!Step(t) \/ Registry!Registers(t)
        PROVE  RP!Next
    BY <1>3, SameRegisters, SameGrows, SamePushes
    DEF Registry!Step, RP!Step, RP!Next
  <1> QED
    BY <1>1, <1>2, <1>3 DEF MCNext, MCStep, MCCall, MCTerminated, InLibrary, InRegistry

\* The registrations of MCLibInit are among those the theorems are about.
LEMMA RegistrySane == RP!Sane
  <1>1. Wanted \in [Threads -> Seq(RP!Kinds)]
    BY DEF Wanted, RP!Kinds
  <1>2. MaxBlocks * BlockLen = BlockLen * MaxBlocks
    BY RegistryAssumption
  <1> QED
    BY <1>1, <1>2, RegistryAssumption, LibInitAssumption DEF RP!Sane

\* MCLibInit behaves, as far as Registry can see, as Registry does.
LEMMA RegistryBehaves == MCSpec => RP!Init /\ [][RP!Next]_(RP!vars)
  <1>1. MCInit => RP!Init
    BY SameInit DEF MCInit
  <1> QED
    BY <1>1, RegistrySteps, PTL DEF MCSpec

\* Every id that a successful registration returns is new, and an element of
\* all stacks of its kind (theorem NewIds of RegistryProofs).
THEOREM NewIds == MCSpec => []IdsAreNew
  BY RegistryBehaves, RegistrySane, RP!NewIds, SameIdsAreNew, PTL

\* A registration fails only if the stack is full or registrations of the kind
\* overlap (theorem ReasonsForFailure).
THEOREM ReasonsForFailure == MCSpec => []FailsForReason
  BY RegistryBehaves, RegistrySane, RP!ReasonsForFailure, SameFailsForReason, PTL

\* bli_stack_get needs no lock: what is below the size of a stack has its block,
\* and no step replaces it (theorem LookupsAreSafe).
THEOREM LookupsAreSafe == MCSpec => LookupsNeedNoLock
  BY RegistryBehaves, RegistrySane, RP!LookupsAreSafe, SameLookups
=============================================================================
