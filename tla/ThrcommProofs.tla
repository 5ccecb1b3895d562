---------------------------- MODULE ThrcommProofs ----------------------------
(***************************************************************************)
(* Theorems about Thrcomm, for every number of threads and every list of   *)
(* collective calls, and about the barrier made of a condition variable    *)
(* and the tree barrier, as MCThrcomm instantiates them, for every number  *)
(* of threads and of crossings, and every arity of the tree.               *)
(***************************************************************************)
EXTENDS MCThrcomm, FiniteSetTheorems, WellFoundedInduction, TLAPS

\* The communicator's threads are a finite set of n_threads members.
LEMMA ThreadsFinite == IsFiniteSet(Threads) /\ Cardinality(Threads) = N
<1>1. Threads = 0 .. N - 1
  BY DEF Threads
<1>2. N - 1 - 0 + 1 = N
  BY NAssumption
<1> QED
  BY <1>1, <1>2, FS_Interval, NAssumption

\* The threads counted by the barrier in progress are among them.
LEMMA ArrivalsFinite ==
    /\ IsFiniteSet(Arrivals)
    /\ Cardinality(Arrivals) \in 0 .. N
    /\ Cardinality(Arrivals) = N => Arrivals = Threads
<1>1. Arrivals \subseteq Threads
  BY DEF Arrivals
<1>2. IsFiniteSet(Arrivals) /\ Cardinality(Arrivals) <= N
  BY <1>1, ThreadsFinite, FS_Subset
<1>3. Cardinality(Arrivals) \in Nat
  BY <1>2, FS_CardinalityType
<1>4. Cardinality(Arrivals) = N => Arrivals = Threads
  BY <1>1, ThreadsFinite, FS_Subset
<1> QED
  BY <1>2, <1>3, <1>4, NAssumption

\* The elements of Calls.
LEMMA CallsTyping ==
    /\ Len(Calls) \in Nat
    /\ \A k \in 1 .. Len(Calls) : Calls[k] \in {"barrier", "bcast"}
  BY CallsAssumption

-----------------------------------------------------------------------------

\* The initial state satisfies the invariant.
LEMMA InitIInv == Init => IInv
<1> SUFFICES ASSUME Init PROVE IInv
  OBVIOUS
<1> USE NAssumption, CallsTyping DEF Init
<1>1. TypeOK
  BY DEF TypeOK, Points, Inside, Objects, NULL
<1>2. \A t \in Threads : Entered(t) = 0
  BY DEF Entered, Inside
<1>3. Arrivals = {}
  BY <1>2 DEF Arrivals
<1>4. BarrierInv
  BY <1>3, FS_EmptySet DEF BarrierInv, SenseInv, OneLastInv, CountInv
<1>5. 0 \in Threads
  BY DEF Threads
<1>6. CallInv
  BY <1>5 DEF CallInv, PointInv, AgreeInv, SentInv, LastOfComm, LastDone, Current
<1>7. BcastAgreement
  BY DEF BcastAgreement, HasReceived
<1> QED
  BY <1>1, <1>4, <1>6, <1>7 DEF IInv

\* Steps outside the barrier, and the load of the sense, leave every
\* thread's count of entered barriers as it is.
LEMMA OutsideStep ==
    ASSUME IInv, NEW t \in Threads,
           CallBarrier(t) \/ CallBcast(t) \/ Send(t) \/ Receive(t) \/ LoadSense(t)
    PROVE  /\ \A u \in Threads : Entered(u)' = Entered(u)
           /\ Arrivals' = Arrivals
           /\ \A u \in Threads \ {t} : pc'[u] = pc[u]
           /\ pc'[t] \in {"ready", "send", "load", "arrive"}
           /\ pc[t] \notin Inside
           /\ UNCHANGED <<crossed, generation, barrier_sense, barrier_threads_arrived>>
<1> USE DEF IInv, TypeOK, CallBarrier, CallBcast, Send, Receive, LoadSense,
            Goto, shared, history, Inside
<1>1. /\ \A u \in Threads \ {t} : pc'[u] = pc[u]
      /\ pc'[t] \in {"ready", "send", "load", "arrive"}
      /\ pc[t] \notin Inside
      /\ UNCHANGED <<crossed, generation, barrier_sense, barrier_threads_arrived>>
  OBVIOUS
<1>2. \A u \in Threads : Entered(u)' = Entered(u)
  BY <1>1 DEF Entered
<1>3. Arrivals' = Arrivals
  BY <1>1, <1>2 DEF Arrivals
<1> QED
  BY <1>1, <1>2, <1>3

\* An arrival adds the thread, and nobody else, to the counted ones.
LEMMA ArriveStep ==
    ASSUME IInv, NEW t \in Threads, Arrive(t)
    PROVE  /\ t \notin Arrivals
           /\ Arrivals' = Arrivals \cup {t}
           /\ barrier_threads_arrived = Cardinality(Arrivals)
           /\ barrier_threads_arrived' = Cardinality(Arrivals')
           /\ ~ \E u \in Threads : pc[u] \in {"reset", "toggle"}
           /\ barrier_threads_arrived < N
<1> USE DEF IInv, TypeOK
<1>0. Entered(t) = generation
  BY DEF Entered, Arrive, BarrierInv, SenseInv, OneLastInv, CountInv, Inside
<1>1. t \notin Arrivals
  BY <1>0 DEF Arrivals
<1>2. ~ \E u \in Threads : pc[u] \in {"reset", "toggle"}
  BY <1>1 DEF BarrierInv, SenseInv, OneLastInv, CountInv
<1>3. barrier_threads_arrived = Cardinality(Arrivals)
  BY <1>2 DEF BarrierInv, SenseInv, OneLastInv, CountInv
<1>4. \A u \in Threads \ {t} : Entered(u)' = Entered(u)
  BY DEF Entered, Arrive, Goto, history
<1>5. Entered(t)' = generation' + 1
  BY DEF Entered, Arrive, Goto, history, BarrierInv, SenseInv, OneLastInv, CountInv, Inside
<1>6. generation' = generation
  BY DEF Arrive, history
<1>7. Arrivals' = Arrivals \cup {t}
  BY <1>4, <1>5, <1>6 DEF Arrivals
<1>8. Cardinality(Arrivals') = Cardinality(Arrivals) + 1
  BY <1>1, <1>7, ArrivalsFinite, FS_AddElement
<1>9. barrier_threads_arrived' = Cardinality(Arrivals')
  BY <1>3, <1>8 DEF Arrive
<1>10. Arrivals # Threads
  BY <1>1
<1>11. barrier_threads_arrived < N
  BY <1>3, <1>10, ArrivalsFinite, NAssumption
<1> QED
  BY <1>1, <1>2, <1>3, <1>7, <1>9, <1>11

\* When the last thread toggles the sense all the others wait for it.
LEMMA ToggleStep ==
    ASSUME IInv, NEW t \in Threads, ToggleSense(t)
    PROVE  /\ \A u \in Threads \ {t} :
                /\ pc[u] = "spin" /\ pc'[u] = "spin"
                /\ crossed[u] = generation /\ crossed'[u] = generation
                /\ orig_sense[u] = barrier_sense
           /\ crossed[t] = generation /\ crossed'[t] = generation + 1
           /\ pc'[t] = resume[t] /\ pc'[t] \in {"ready", "receive"}
           /\ Arrivals = Threads
           /\ Arrivals' = {}
<1> USE DEF IInv, TypeOK
<1>1. Arrivals = Threads /\ crossed[t] = generation
  BY DEF BarrierInv, SenseInv, OneLastInv, CountInv, ToggleSense
<1>2. ASSUME NEW u \in Threads \ {t}
      PROVE  /\ pc[u] = "spin" /\ pc'[u] = "spin"
             /\ crossed[u] = generation /\ crossed'[u] = generation
             /\ orig_sense[u] = barrier_sense
  <2>1. Entered(u) = generation + 1
    BY <1>1 DEF Arrivals
  <2>2. pc[u] \in Inside
    <3>1. CASE pc[u] = "spin"
      BY <3>1 DEF Inside
    <3>2. CASE pc[u] # "spin"
      <4>1. crossed[u] = generation
        BY <3>2 DEF BarrierInv, SenseInv, OneLastInv, CountInv
      <4> QED
        BY <2>1, <4>1 DEF Entered
    <3> QED
      BY <3>1, <3>2
  <2>3. pc[u] = "spin"
    BY <2>2 DEF Inside, BarrierInv, SenseInv, OneLastInv, CountInv, ToggleSense
  <2>4. crossed[u] = generation
    BY <2>1, <2>3 DEF Entered, Inside
  <2> QED
    BY <2>3, <2>4 DEF BarrierInv, SenseInv, OneLastInv, CountInv, ToggleSense, Return, Goto
<1>3. crossed'[t] = generation + 1 /\ pc'[t] = resume[t] /\ pc'[t] \in {"ready", "receive"}
  BY <1>1 DEF ToggleSense, Return, Goto
<1>4. generation' = generation + 1
  BY DEF ToggleSense
<1>5. \A u \in Threads : Entered(u)' = generation + 1
  BY <1>2, <1>3 DEF Entered, Inside
<1>6. Arrivals' = {}
  BY <1>4, <1>5 DEF Arrivals
<1> QED
  BY <1>1, <1>2, <1>3, <1>6

\* A thread leaves the spin loop of the barrier before the current one.
LEMMA SpinStep ==
    ASSUME IInv, NEW t \in Threads, SpinExit(t)
    PROVE  /\ crossed[t] = generation - 1 /\ crossed'[t] = generation
           /\ \A u \in Threads \ {t} : pc'[u] = pc[u] /\ crossed'[u] = crossed[u]
           /\ pc'[t] = resume[t] /\ pc'[t] \in {"ready", "receive"}
           /\ \A u \in Threads : Entered(u)' = Entered(u)
           /\ Arrivals' = Arrivals
           /\ t \notin Arrivals
<1> USE DEF IInv, TypeOK
<1>1. crossed[t] = generation - 1
  BY DEF BarrierInv, SenseInv, OneLastInv, CountInv, SpinExit
<1>2. /\ crossed'[t] = generation
      /\ \A u \in Threads \ {t} : pc'[u] = pc[u] /\ crossed'[u] = crossed[u]
      /\ pc'[t] = resume[t] /\ pc'[t] \in {"ready", "receive"}
  BY <1>1 DEF SpinExit, Return, Goto
<1>3. \A u \in Threads : Entered(u)' = Entered(u)
  <2>1. Entered(t) = generation /\ Entered(t)' = generation
    BY <1>1, <1>2 DEF Entered, SpinExit, Inside
  <2>2. \A u \in Threads \ {t} : Entered(u)' = Entered(u)
    BY <1>2 DEF Entered
  <2> QED
    BY <2>1, <2>2
<1>4. Arrivals' = Arrivals
  BY <1>3 DEF Arrivals, SpinExit
<1>5. Entered(t) = generation
  BY <1>1 DEF Entered, SpinExit, Inside
<1>6. t \notin Arrivals
  BY <1>5 DEF Arrivals
<1> QED
  BY <1>1, <1>2, <1>3, <1>4, <1>6

-----------------------------------------------------------------------------

\* The type invariant is preserved; that barrier_threads_arrived stays
\* within n_threads is the part that needs the rest of the invariant.
LEMMA TypeStep ==
    ASSUME IInv, [Next]_vars
    PROVE  TypeOK'
<1> USE NAssumption, CallsTyping DEF IInv, TypeOK, Goto, shared, local, history,
            Points, Inside, Objects
<1>1. CASE UNCHANGED vars
  BY <1>1 DEF vars
<1>2. ASSUME NEW t \in Threads, Step(t)
      PROVE  TypeOK'
  <2>1. CASE CallBarrier(t)
    BY <2>1 DEF CallBarrier
  <2>2. CASE CallBcast(t)
    <3>1. call'[t] \in 0 .. Len(Calls) /\ call[t] + 1 \in Objects
      BY <2>2 DEF CallBcast
    <3> QED
      BY <2>2, <3>1 DEF CallBcast
  <2>3. CASE Send(t)
    BY <2>3 DEF Send
  <2>4. CASE Receive(t)
    BY <2>4 DEF Receive
  <2>5. CASE LoadSense(t)
    BY <2>5 DEF LoadSense
  <2>6. CASE Arrive(t)
    <3>1. barrier_threads_arrived < N
      BY <2>6, ArriveStep
    <3> QED
      BY <2>6, <3>1 DEF Arrive
  <2>7. CASE ResetArrived(t)
    BY <2>7 DEF ResetArrived
  <2>8. CASE ToggleSense(t)
    BY <2>8 DEF ToggleSense, Return
  <2>9. CASE SpinExit(t)
    BY <2>9 DEF SpinExit, Return
  <2> QED
    BY <1>2, <2>1, <2>2, <2>3, <2>4, <2>5, <2>6, <2>7, <2>8, <2>9 DEF Step
<1> QED
  BY <1>1, <1>2 DEF Next, Terminated

\* The barrier's part of the invariant is preserved.
LEMMA BarrierStep ==
    ASSUME IInv, [Next]_vars
    PROVE  BarrierInv'
<1> USE DEF IInv, TypeOK
<1>1. CASE UNCHANGED vars
  <2>1. Arrivals' = Arrivals
    BY <1>1 DEF vars, local, history, Arrivals, Entered
  <2> QED
    BY <1>1, <2>1
    DEF vars, shared, local, history, BarrierInv, SenseInv, OneLastInv, CountInv
<1>2. ASSUME NEW t \in Threads,
             CallBarrier(t) \/ CallBcast(t) \/ Send(t) \/ Receive(t) \/ LoadSense(t)
      PROVE  BarrierInv'
  <2>1. /\ \A u \in Threads \ {t} : orig_sense'[u] = orig_sense[u]
        /\ pc'[t] = "arrive" => orig_sense'[t] = barrier_sense
    BY <1>2 DEF CallBarrier, CallBcast, Send, Receive, LoadSense, Goto
  <2>2. /\ Arrivals' = Arrivals
        /\ \A u \in Threads \ {t} : pc'[u] = pc[u]
        /\ pc'[t] \in {"ready", "send", "load", "arrive"}
        /\ pc[t] \notin {"reset", "toggle", "spin"}
        /\ UNCHANGED <<crossed, generation, barrier_sense, barrier_threads_arrived>>
    BY <1>2, OutsideStep DEF Inside
  <2>3. ASSUME NEW u \in Threads PROVE SenseInv(u)'
    <3>1. SenseInv(u)
      BY DEF BarrierInv
    <3>2. CASE u = t
      BY <2>1, <2>2, <3>1, <3>2 DEF SenseInv
    <3>3. CASE u # t
      BY <2>1, <2>2, <3>1, <3>3 DEF SenseInv
    <3> QED
      BY <3>2, <3>3
  <2>4. OneLastInv'
    BY <2>2 DEF BarrierInv, OneLastInv
  <2>5. CountInv'
    BY <2>2 DEF BarrierInv, CountInv
  <2> QED
    BY <2>3, <2>4, <2>5 DEF BarrierInv
<1>3. ASSUME NEW t \in Threads, Arrive(t)
      PROVE  BarrierInv'
  <2>1. /\ \A u \in Threads \ {t} : pc'[u] = pc[u]
        /\ pc'[t] = IF barrier_threads_arrived' = N THEN "reset" ELSE "spin"
        /\ UNCHANGED <<barrier_sense, orig_sense, crossed, generation>>
        /\ orig_sense[t] = barrier_sense
        /\ crossed[t] = generation
    BY <1>3 DEF Arrive, Goto, history, BarrierInv, SenseInv
  <2>2. /\ ~ \E u \in Threads : pc[u] \in {"reset", "toggle"}
        /\ barrier_threads_arrived' = Cardinality(Arrivals')
    BY <1>3, ArriveStep
  <2>3. pc'[t] = "reset" => Arrivals' = Threads
    <3>1. Arrivals' \subseteq Threads
      BY DEF Arrivals
    <3> QED
      BY <2>1, <2>2, <3>1, ThreadsFinite, FS_Subset
  <2>4. ASSUME NEW u \in Threads PROVE SenseInv(u)'
    <3>1. CASE u = t
      BY <2>1, <2>3, <3>1 DEF SenseInv
    <3>2. CASE u # t
      BY <2>1, <2>2, <3>2 DEF BarrierInv, SenseInv
    <3> QED
      BY <3>1, <3>2
  <2>5. OneLastInv'
    BY <2>1, <2>2 DEF OneLastInv
  <2>6. CountInv'
    BY <2>1, <2>2 DEF CountInv
  <2> QED
    BY <2>4, <2>5, <2>6 DEF BarrierInv
<1>4. ASSUME NEW t \in Threads, ResetArrived(t)
      PROVE  BarrierInv'
  <2>1. /\ \A u \in Threads \ {t} : pc'[u] = pc[u]
        /\ pc[t] = "reset" /\ pc'[t] = "toggle"
        /\ barrier_threads_arrived' = 0
        /\ UNCHANGED <<barrier_sense, orig_sense, crossed, generation>>
    BY <1>4 DEF ResetArrived, Goto, history
  <2>2. \A u \in Threads : Entered(u)' = Entered(u)
    BY <2>1 DEF Entered, Inside
  <2>3. Arrivals' = Arrivals
    BY <2>1, <2>2 DEF Arrivals
  <2>4. \A u \in Threads : SenseInv(u)'
    BY <2>1, <2>3 DEF BarrierInv, SenseInv
  <2>5. OneLastInv'
    BY <2>1 DEF BarrierInv, OneLastInv
  <2>6. CountInv'
    BY <2>1 DEF CountInv
  <2> QED
    BY <2>4, <2>5, <2>6 DEF BarrierInv
<1>5. ASSUME NEW t \in Threads, ToggleSense(t)
      PROVE  BarrierInv'
  <2>1. /\ barrier_sense' = 1 - barrier_sense
        /\ generation' = generation + 1
        /\ barrier_threads_arrived' = barrier_threads_arrived
        /\ orig_sense' = orig_sense
        /\ pc[t] = "toggle"
    BY <1>5 DEF ToggleSense
  <2>2. barrier_threads_arrived' = Cardinality(Arrivals')
    BY <1>5, <2>1, ToggleStep, FS_EmptySet DEF BarrierInv, CountInv
  <2>3. \A u \in Threads \ {t} : orig_sense'[u] # barrier_sense'
    BY <1>5, <2>1, ToggleStep
  <2>4. \A u \in Threads : pc'[u] \notin {"reset", "toggle", "arrive"}
    BY <1>5, ToggleStep
  <2>5. \A u \in Threads : crossed'[u] = IF u = t THEN generation' ELSE generation' - 1
    BY <1>5, <2>1, ToggleStep
  <2>6. \A u \in Threads : pc'[u] = "spin" <=> u # t
    BY <1>5, ToggleStep
  <2>7. \A u \in Threads : SenseInv(u)'
    BY <2>3, <2>4, <2>5, <2>6 DEF SenseInv
  <2> QED
    BY <2>2, <2>4, <2>7 DEF BarrierInv, OneLastInv, CountInv
<1>6. ASSUME NEW t \in Threads, SpinExit(t)
      PROVE  BarrierInv'
  <2>1. UNCHANGED <<barrier_sense, barrier_threads_arrived, orig_sense, generation>>
    BY <1>6 DEF SpinExit, shared
  <2>2. /\ Arrivals' = Arrivals
        /\ pc[t] = "spin" /\ pc'[t] \in {"ready", "receive"}
        /\ crossed'[t] = generation
        /\ \A u \in Threads \ {t} : pc'[u] = pc[u] /\ crossed'[u] = crossed[u]
    BY <1>6, SpinStep DEF SpinExit
  <2>3. \A u \in Threads : SenseInv(u)'
    BY <2>1, <2>2 DEF BarrierInv, SenseInv
  <2>4. OneLastInv'
    BY <2>2 DEF BarrierInv, OneLastInv
  <2>5. CountInv'
    BY <2>1, <2>2 DEF BarrierInv, CountInv
  <2> QED
    BY <2>3, <2>4, <2>5 DEF BarrierInv
<1> QED
  BY <1>1, <1>2, <1>3, <1>4, <1>5, <1>6 DEF Next, Step, Terminated

\* The list position of every thread's call is an element of Calls.
LEMMA CallTyping ==
    ASSUME TypeOK, NEW t \in Threads, call[t] > 0
    PROVE  call[t] \in Nat /\ Calls[call[t]] \in {"barrier", "bcast"}
  BY CallsTyping DEF TypeOK

\* A step that is neither a toggle nor an exit from the spin loop completes
\* no barrier, for the thread that takes it as for the others.
LEMMA LastDoneStep ==
    ASSUME IInv, N > 1, NEW t \in Threads,
           \/ CallBarrier(t) \/ CallBcast(t) \/ Send(t) \/ Receive(t)
           \/ LoadSense(t) \/ Arrive(t) \/ ResetArrived(t)
    PROVE  \A u \in Threads : LastOfComm(u)' = LastOfComm(u)
<1> USE DEF IInv, TypeOK
<1>1. UNCHANGED <<crossed, generation>> /\ pc[t] # "spin"
  BY DEF CallBarrier, CallBcast, Send, Receive, LoadSense, Arrive, ResetArrived, history
<1>2. \A u \in Threads \ {t} : LastOfComm(u)' = LastOfComm(u)
  <2>1. \A u \in Threads \ {t} : pc'[u] = pc[u] /\ call'[u] = call[u] /\ resume'[u] = resume[u]
    BY DEF CallBarrier, CallBcast, Send, Receive, LoadSense, Arrive, ResetArrived, Goto
  <2> QED
    BY <1>1, <2>1 DEF LastOfComm, LastDone, Current
<1>3. LastOfComm(t) = LastDone(t) /\ LastOfComm(t)' = LastDone(t)'
  BY <1>1 DEF LastOfComm, BarrierInv, SenseInv
<1>4. PointInv(t)
  BY DEF CallInv
<1>5. LastDone(t)' = LastDone(t)
  <2>1. CASE CallBarrier(t)
    <3>1. /\ pc[t] = "ready" /\ call[t] \in Nat /\ call'[t] = call[t] + 1
          /\ pc'[t] = "load" /\ Calls[call'[t]] = "barrier"
      BY <2>1, CallsTyping DEF CallBarrier, Goto
    <3>2. LastDone(t) = 2 * call[t] /\ LastDone(t)' = 2 * call'[t] - 2
      BY <3>1 DEF LastDone
    <3> QED
      BY <3>1, <3>2
  <2>2. CASE CallBcast(t)
    <3>1. /\ pc[t] = "ready" /\ call[t] \in Nat /\ call'[t] = call[t] + 1
          /\ pc'[t] \in {"send", "load"} /\ resume'[t] = "receive"
      BY <2>2, CallsTyping DEF CallBcast, Goto
    <3>2. LastDone(t) = 2 * call[t] /\ LastDone(t)' = 2 * call'[t] - 2
      BY <3>1 DEF LastDone
    <3> QED
      BY <3>1, <3>2
  <2>3. CASE Send(t)
    BY <1>4, <2>3 DEF LastDone, Send, Goto, PointInv
  <2>4. CASE Receive(t)
    BY <1>4, <2>4 DEF LastDone, Receive, Goto, PointInv
  <2>5. CASE LoadSense(t)
    BY <2>5 DEF LastDone, LoadSense, Goto
  <2>6. CASE Arrive(t)
    BY <2>6 DEF LastDone, Arrive, Goto
  <2>7. CASE ResetArrived(t)
    BY <2>7 DEF LastDone, ResetArrived, Goto
  <2> QED
    BY <2>1, <2>2, <2>3, <2>4, <2>5, <2>6, <2>7
<1> QED
  BY <1>2, <1>3, <1>5

\* The two barriers of a broadcast have numbers of different parity.
LEMMA Parity ==
    ASSUME NEW a \in Nat, NEW b \in Nat
    PROVE  /\ 2 * a - 1 # 2 * b - 2
           /\ 2 * a - 1 = 2 * b - 1 => a = b
           /\ 2 * a - 2 = 2 * b - 2 => a = b
  OBVIOUS

\* A toggle completes the same barrier for all threads of the communicator,
\* and an exit from the spin loop acknowledges it.
LEMMA AgreeStep ==
    ASSUME IInv, [Next]_vars
    PROVE  AgreeInv'
<1> USE DEF IInv, TypeOK
<1>1. CASE UNCHANGED vars
  <2>1. \A u \in Threads : LastOfComm(u)' = LastOfComm(u)
    BY <1>1 DEF vars, local, history, LastOfComm, LastDone, Current
  <2> QED
    BY <2>1 DEF CallInv, AgreeInv
<1>2. CASE N = 1
  <2>1. \A t, u \in Threads : t = u
    BY <1>2 DEF Threads
  <2> QED
    BY <2>1 DEF AgreeInv
<1>3. ASSUME N > 1, NEW t \in Threads,
             \/ CallBarrier(t) \/ CallBcast(t) \/ Send(t) \/ Receive(t)
             \/ LoadSense(t) \/ Arrive(t) \/ ResetArrived(t)
      PROVE  AgreeInv'
  <2>1. \A u \in Threads : LastOfComm(u)' = LastOfComm(u)
    BY <1>3, LastDoneStep
  <2> QED
    BY <2>1 DEF CallInv, AgreeInv
<1>4. ASSUME NEW t \in Threads, ToggleSense(t)
      PROVE  AgreeInv'
  <2>1. /\ UNCHANGED <<call, resume>>
        /\ generation' = generation + 1
        /\ pc[t] = "toggle"
    BY <1>4 DEF ToggleSense
  <2>2. \A u \in Threads : LastOfComm(u) = LastDone(u) /\ pc[u] \in {"spin", "toggle"}
    BY <1>4, <2>1, ToggleStep DEF LastOfComm
  <2>3. \A u \in Threads : LastOfComm(u)' = Current(u)
    <3>1. \A u \in Threads \ {t} : LastOfComm(u)' = Current(u)
      BY <1>4, <2>1, ToggleStep DEF LastOfComm, Current
    <3>2. LastOfComm(t)' = LastDone(t)'
      BY <1>4, <2>1, ToggleStep DEF LastOfComm
    <3>3. LastDone(t)' = Current(t)
      BY <1>4, <2>1, ToggleStep DEF LastDone, Current
    <3> QED
      BY <3>1, <3>2, <3>3
  <2>4. ASSUME NEW u \in Threads
        PROVE  /\ call[u] \in Nat
               /\ \/ /\ Calls[call[u]] = "bcast" /\ resume[u] = "ready"
                     /\ LastDone(u) = 2 * call[u] - 1 /\ Current(u) = 2 * call[u]
                  \/ /\ Calls[call[u]] # "bcast" /\ resume[u] = "ready"
                     /\ LastDone(u) = 2 * call[u] - 2 /\ Current(u) = 2 * call[u]
                  \/ /\ Calls[call[u]] = "bcast" /\ resume[u] = "receive"
                     /\ LastDone(u) = 2 * call[u] - 2 /\ Current(u) = 2 * call[u] - 1
    <3>1. PointInv(u) /\ call[u] \in Nat /\ pc[u] \in {"spin", "toggle"}
      BY <2>2 DEF CallInv
    <3>2. resume[u] \in {"ready", "receive"}
      OBVIOUS
    <3>3. CASE resume[u] = "receive"
      BY <3>1, <3>3 DEF PointInv, LastDone, Current
    <3>4. CASE resume[u] = "ready"
      BY <3>1, <3>4 DEF LastDone, Current
    <3> QED
      BY <3>1, <3>2, <3>3, <3>4
  <2>5. ASSUME NEW u \in Threads, NEW v \in Threads
        PROVE  Current(u) = Current(v)
    <3>1. LastDone(u) = LastDone(v)
      BY <2>2 DEF CallInv, AgreeInv
    <3>2. call[u] \in Nat /\ call[v] \in Nat
      BY <2>4
    <3>3. LastDone(u) \in {2 * call[u] - 1, 2 * call[u] - 2}
          /\ LastDone(v) \in {2 * call[v] - 1, 2 * call[v] - 2}
      BY <2>4
    <3>4. call[u] = call[v]
      BY <3>1, <3>2, <3>3, Parity
    <3>5. 2 * call[u] - 1 # 2 * call[u] - 2
      BY <3>2
    <3> QED
      BY <2>4, <3>1, <3>4, <3>5
  <2> QED
    BY <2>3, <2>5 DEF AgreeInv
<1>5. ASSUME NEW t \in Threads, SpinExit(t)
      PROVE  AgreeInv'
  <2>1. UNCHANGED <<call, resume, generation>> /\ pc[t] = "spin"
    BY <1>5 DEF SpinExit
  <2>2. \A u \in Threads \ {t} : LastOfComm(u)' = LastOfComm(u)
    BY <1>5, <2>1, SpinStep DEF LastOfComm, LastDone, Current
  <2>3. LastOfComm(t)' = LastOfComm(t)
    <3>1. LastOfComm(t) = Current(t) /\ LastOfComm(t)' = LastDone(t)'
      BY <1>5, <2>1, SpinStep DEF LastOfComm
    <3>2. LastDone(t)' = Current(t)
      BY <1>5, <2>1, SpinStep DEF LastDone, Current
    <3> QED
      BY <3>1, <3>2
  <2> QED
    BY <2>2, <2>3 DEF CallInv, AgreeInv
<1> QED
  BY <1>1, <1>2, <1>3, <1>4, <1>5, NAssumption DEF Next, Step, Terminated

\* The control state of each thread, and what the chief has published.
LEMMA PointStep ==
    ASSUME IInv, [Next]_vars
    PROVE  (\A u \in Threads : PointInv(u)') /\ SentInv'
<1> USE NAssumption, CallsTyping DEF IInv, TypeOK
<1>1. CASE UNCHANGED vars
  BY <1>1 DEF vars, shared, local, CallInv, PointInv, SentInv
<1>2. ASSUME NEW t \in Threads, Step(t), NEW u \in Threads
      PROVE  PointInv(u)'
  <2>1. PointInv(u) /\ PointInv(t)
    BY DEF CallInv
  <2>2. CASE u # t
    <3>1. pc'[u] = pc[u] /\ call'[u] = call[u] /\ resume'[u] = resume[u]
      BY <1>2, <2>2 DEF Step, CallBarrier, CallBcast, Send, Receive, LoadSense,
                        Arrive, ResetArrived, ToggleSense, SpinExit, Goto, Return
    <3> QED
      BY <2>1, <3>1 DEF PointInv
  <2>3. CASE u = t /\ (CallBarrier(t) \/ CallBcast(t))
    <3>1. CASE CallBarrier(t)
      BY <2>1, <2>3, <3>1 DEF PointInv, CallBarrier, Goto
    <3>2. CASE CallBcast(t)
      <4>1. pc[t] = "ready" /\ resume[t] = "ready" /\ call[t] \in Nat
        BY <2>1, <3>2 DEF PointInv, CallBcast
      <4>2. CASE N = 1
        BY <2>3, <3>2, <4>1, <4>2 DEF PointInv, CallBcast
      <4>3. CASE N # 1
        <5>1. /\ resume'[t] = "receive" /\ call'[t] = call[t] + 1
              /\ pc'[t] = IF t = 0 THEN "send" ELSE "load"
              /\ Calls[call'[t]] = "bcast"
          BY <3>2, <4>3 DEF CallBcast, Goto
        <5> QED
          BY <2>3, <4>1, <4>3, <5>1 DEF PointInv
      <4> QED
        BY <4>2, <4>3
    <3> QED
      BY <2>3, <3>1, <3>2
  <2>4. CASE u = t /\ (Send(t) \/ Receive(t))
    BY <2>1, <2>4 DEF PointInv, Send, Receive, Goto
  <2>5. CASE u = t /\ (LoadSense(t) \/ Arrive(t) \/ ResetArrived(t))
    BY <2>1, <2>5 DEF PointInv, LoadSense, Arrive, ResetArrived, Goto
  <2>6. CASE u = t /\ (ToggleSense(t) \/ SpinExit(t))
    BY <2>1, <2>6 DEF PointInv, ToggleSense, SpinExit, Goto, Return
  <2> QED
    BY <1>2, <2>2, <2>3, <2>4, <2>5, <2>6 DEF Step
<1>3. ASSUME NEW t \in Threads, Step(t)
      PROVE  SentInv'
  <2>1. SentInv /\ PointInv(t) /\ 0 \in Threads
    BY DEF CallInv, Threads
  <2>2. CASE Send(t)
    <3>1. t = 0
      BY <2>1, <2>2 DEF PointInv, Send
    <3>2. sent_object' = call[t] /\ call' = call
      BY <2>2 DEF Send
    <3> QED
      BY <3>1, <3>2 DEF SentInv
  <2>3. CASE CallBarrier(t)
    <3>1. CASE t = 0
      <4>1. Calls[call'[0]] = "barrier"
        BY <2>3, <3>1 DEF CallBarrier
      <4> QED
        BY <4>1 DEF SentInv
    <3>2. CASE t # 0
      <4>1. pc'[0] = pc[0] /\ call'[0] = call[0] /\ sent_object' = sent_object
        BY <2>1, <2>3, <3>2 DEF CallBarrier, Goto, shared
      <4> QED
        BY <2>1, <4>1 DEF SentInv
    <3> QED
      BY <3>1, <3>2
  <2>4. CASE CallBcast(t)
    BY <2>1, <2>4 DEF SentInv, CallBcast, Goto, shared
  <2>5. CASE Receive(t)
    <3>1. pc[0] = "send" => pc'[0] = "send"
      BY <2>1, <2>5 DEF Receive, Goto
    <3> QED
      BY <2>1, <2>5, <3>1 DEF SentInv, Receive, shared
  <2>6. CASE LoadSense(t) \/ Arrive(t) \/ ResetArrived(t) \/ ToggleSense(t) \/ SpinExit(t)
    <3>1. pc[0] = "send" => pc'[0] = "send"
      BY <2>1, <2>6 DEF LoadSense, Arrive, ResetArrived, ToggleSense, SpinExit, Goto, Return
    <3> QED
      BY <2>1, <2>6, <3>1
      DEF SentInv, LoadSense, Arrive, ResetArrived, ToggleSense, SpinExit, shared
  <2> QED
    BY <1>3, <2>2, <2>3, <2>4, <2>5, <2>6 DEF Step
<1> QED
  BY <1>1, <1>2, <1>3 DEF Next, Terminated

\* A receiver reads the object of its own call: the chief has sent it, and
\* cannot have come to its next broadcast.
LEMMA ReceiveCurrent ==
    ASSUME IInv, NEW t \in Threads, Receive(t)
    PROVE  sent_object = call[t]
<1> USE DEF IInv, TypeOK
<1>1. 0 \in Threads /\ call[0] \in Nat /\ call[t] \in Nat
  BY NAssumption DEF Threads
<1>2. PointInv(0) /\ PointInv(t) /\ SentInv
  BY <1>1 DEF CallInv
<1>3. LastOfComm(0) = 2 * call[t] - 1
  <2>1. LastOfComm(t) = LastDone(t) /\ LastDone(t) = 2 * call[t] - 1
    BY DEF Receive, LastOfComm, LastDone, BarrierInv, SenseInv
  <2> QED
    BY <1>1, <2>1 DEF CallInv, AgreeInv
<1>4. call[0] = call[t] /\ pc[0] # "send"
  <2>1. CASE crossed[0] = generation
    <3>1. LastDone(0) = 2 * call[t] - 1
      BY <1>3, <2>1 DEF LastOfComm
    <3>2. CASE pc[0] = "ready"
      <4>1. 2 * call[0] # 2 * call[t] - 1
        BY <1>1
      <4> QED
        BY <3>1, <3>2, <4>1 DEF LastDone
    <3>3. CASE pc[0] = "receive"
      BY <1>1, <3>1, <3>3, Parity DEF LastDone
    <3>4. CASE pc[0] \notin {"ready", "receive"}
      <4>1. LastDone(0) = IF resume[0] = "ready" /\ Calls[call[0]] = "bcast"
                            THEN 2 * call[0] - 1 ELSE 2 * call[0] - 2
        BY <3>4 DEF LastDone
      <4>2. resume[0] = "ready" /\ 2 * call[0] - 1 = 2 * call[t] - 1
        BY <1>1, <3>1, <4>1, Parity
      <4> QED
        BY <1>1, <1>2, <4>2, Parity DEF PointInv
    <3> QED
      BY <3>2, <3>3, <3>4
  <2>2. CASE crossed[0] # generation
    <3>1. Current(0) = 2 * call[t] - 1 /\ pc[0] = "spin"
      BY <1>1, <1>3, <2>2 DEF LastOfComm, BarrierInv, SenseInv
    <3>2. Current(0) \in {2 * call[0], 2 * call[0] - 1} /\ 2 * call[0] # 2 * call[t] - 1
      BY <1>1 DEF Current
    <3> QED
      BY <1>1, <3>1, <3>2, Parity
  <2> QED
    BY <2>1, <2>2
<1>5. Calls[call[t]] = "bcast" /\ call[t] > 0 /\ N > 1
  BY <1>2 DEF PointInv, Receive
<1> QED
  BY <1>2, <1>4, <1>5 DEF SentInv

\* Every broadcast hands out the object of that broadcast.
LEMMA BcastStep ==
    ASSUME IInv, [Next]_vars
    PROVE  BcastAgreement'
<1> USE NAssumption, CallsTyping DEF IInv, TypeOK
<1>1. CASE UNCHANGED vars
  BY <1>1 DEF vars, local, BcastAgreement, HasReceived
<1>2. ASSUME NEW t \in Threads, Step(t), NEW u \in Threads
      PROVE  HasReceived(u)' => object'[u] = call'[u]
  <2>1. HasReceived(u) => object[u] = call[u]
    BY DEF BcastAgreement
  <2>2. CASE u # t
    <3>1. /\ call'[u] = call[u] /\ resume'[u] = resume[u]
          /\ object'[u] = object[u]
      BY <1>2, <2>2 DEF Step, CallBarrier, CallBcast, Send, Receive, LoadSense,
                        Arrive, ResetArrived, ToggleSense, SpinExit
    <3> QED
      BY <2>1, <3>1 DEF HasReceived
  <2>3. CASE u = t /\ Receive(t)
    BY <2>3, ReceiveCurrent DEF Receive
  <2>4. CASE u = t /\ CallBarrier(t)
    BY <2>4 DEF HasReceived, CallBarrier
  <2>5. CASE u = t /\ CallBcast(t)
    BY <2>5 DEF HasReceived, CallBcast
  <2>6. CASE Send(t) \/ LoadSense(t) \/ Arrive(t) \/ ResetArrived(t)
             \/ ToggleSense(t) \/ SpinExit(t)
    BY <2>1, <2>6 DEF HasReceived, Send, LoadSense, Arrive, ResetArrived,
                      ToggleSense, SpinExit
  <2> QED
    BY <1>2, <2>2, <2>3, <2>4, <2>5, <2>6 DEF Step
<1> QED
  BY <1>1, <1>2 DEF Next, Terminated, BcastAgreement

-----------------------------------------------------------------------------

\* The invariant of the communicator, for any number of threads and any
\* list of collective calls.
THEOREM Invariance == SafeSpec => []IInv
<1>1. IInv /\ [Next]_vars => IInv'
  <2> SUFFICES ASSUME IInv, [Next]_vars PROVE IInv'
    OBVIOUS
  <2>1. CallInv'
    BY AgreeStep, PointStep DEF CallInv
  <2> QED
    BY <2>1, TypeStep, BarrierStep, BcastStep DEF IInv
<1> QED
  BY <1>1, InitIInv, PTL DEF SafeSpec

\* Type correctness, with barrier_threads_arrived never above n_threads.
THEOREM TypeCorrect == SafeSpec => []TypeOK
<1>1. IInv => TypeOK
  BY DEF IInv
<1> QED
  BY <1>1, Invariance, PTL

\* No thread passes a barrier of bli_thrcomm_barrier_atomic that a peer has
\* not reached.
THEOREM BarrierIsSynchronised == SafeSpec => []BarrierSync
<1>1. IInv => BarrierSync
  <2> SUFFICES ASSUME IInv, NEW t \in Threads, NEW u \in Threads
               PROVE  crossed[t] <= Entered(u)
    BY DEF BarrierSync
  <2>1. crossed[t] <= generation
    BY DEF IInv, TypeOK, BarrierInv, SenseInv
  <2>2. generation <= Entered(u)
    BY DEF IInv, TypeOK, BarrierInv, SenseInv, Entered, Inside
  <2>3. crossed[t] \in Int /\ generation \in Int /\ Entered(u) \in Int
    BY DEF IInv, TypeOK, Entered
  <2> QED
    BY <2>1, <2>2, <2>3
<1> QED
  BY <1>1, Invariance, PTL

\* bli_thrcomm_bcast returns, in every thread, the chief's object of the
\* same call.
THEOREM BcastIsCurrent == SafeSpec => []BcastAgreement
<1>1. IInv => BcastAgreement
  BY DEF IInv
<1> QED
  BY <1>1, Invariance, PTL

\* The one-bit sense is enough: no thread can spin on a sense that has been
\* toggled twice.
THEOREM ToggleIsSeen == SafeSpec => []NoLostToggle
<1>1. IInv => NoLostToggle
  BY DEF IInv, TypeOK, BarrierInv, SenseInv, NoLostToggle
<1> QED
  BY <1>1, Invariance, PTL

-----------------------------------------------------------------------------

\* Arrive enters the abstract barrier, the return from the barrier leaves
\* it, and the other steps are invisible.
LEMMA BarrierSimulation ==
    ASSUME IInv, [Next]_vars
    PROVE  [AbstractBarrier!Next]_(AbstractBarrier!vars)
<1> DEFINE entered == [t \in Threads |-> Entered(t)]
<1> USE DEF IInv, TypeOK
<1>0. UNCHANGED <<entered, crossed>> => UNCHANGED AbstractBarrier!vars
  BY DEF AbstractBarrier!vars
<1>1. ASSUME \A u \in Threads : Entered(u)' = Entered(u), crossed' = crossed
      PROVE  UNCHANGED <<entered, crossed>>
  BY <1>1
<1>2. ASSUME UNCHANGED vars
      PROVE  UNCHANGED <<entered, crossed>>
  <2>1. \A u \in Threads : Entered(u)' = Entered(u)
    BY <1>2 DEF vars, local, history, Entered
  <2> QED
    BY <1>1, <1>2, <2>1 DEF vars, history
<1>3. ASSUME NEW t \in Threads,
             CallBarrier(t) \/ CallBcast(t) \/ Send(t) \/ Receive(t) \/ LoadSense(t)
      PROVE  UNCHANGED <<entered, crossed>>
  <2>1. (\A u \in Threads : Entered(u)' = Entered(u)) /\ crossed' = crossed
    BY <1>3, OutsideStep
  <2> QED
    BY <1>1, <2>1
<1>4. ASSUME NEW t \in Threads, ResetArrived(t)
      PROVE  UNCHANGED <<entered, crossed>>
  <2>1. (\A u \in Threads : Entered(u)' = Entered(u)) /\ crossed' = crossed
    BY <1>4 DEF ResetArrived, Goto, history, Entered, Inside
  <2> QED
    BY <1>1, <2>1
<1>5. ASSUME NEW t \in Threads, Arrive(t)
      PROVE  AbstractBarrier!Enter(t)
  <2>1. Entered(t) = crossed[t] /\ Entered(t)' = Entered(t) + 1
    BY <1>5 DEF Arrive, Goto, history, Entered, Inside
  <2>2. \A u \in Threads \ {t} : Entered(u)' = Entered(u)
    BY <1>5 DEF Arrive, Goto, history, Entered
  <2>3. crossed' = crossed
    BY <1>5 DEF Arrive, history
  <2>4. entered' = [entered EXCEPT ![t] = @ + 1]
    BY <2>1, <2>2
  <2> QED
    BY <2>1, <2>3, <2>4 DEF AbstractBarrier!Enter
<1>6. ASSUME NEW t \in Threads, ToggleSense(t) \/ SpinExit(t)
      PROVE  AbstractBarrier!Leave(t)
  <2>1. crossed' = [crossed EXCEPT ![t] = @ + 1]
    BY <1>6 DEF ToggleSense, SpinExit, Return
  <2>2. pc[t] \in Inside /\ pc'[t] \notin Inside
    BY <1>6 DEF ToggleSense, SpinExit, Return, Goto, Inside
  <2>3. \A u \in Threads \ {t} : pc'[u] = pc[u]
    BY <1>6 DEF ToggleSense, SpinExit, Return, Goto
  <2>4. \A u \in Threads : Entered(u)' = Entered(u)
    BY <2>1, <2>2, <2>3 DEF Entered
  <2>5. ASSUME NEW u \in Threads PROVE crossed[t] < Entered(u)
    <3>1. CASE ToggleSense(t)
      BY <3>1, ToggleStep DEF Arrivals
    <3>2. CASE SpinExit(t)
      <4>1. crossed[t] = generation - 1
        BY <3>2, SpinStep
      <4>2. generation <= Entered(u)
        BY DEF BarrierInv, SenseInv, Entered, Inside
      <4>3. Entered(u) \in Int
        BY DEF Entered
      <4> QED
        BY <4>1, <4>2, <4>3
    <3> QED
      BY <1>6, <3>1, <3>2
  <2>6. entered' = entered
    BY <2>4
  <2> QED
    BY <2>1, <2>5, <2>6 DEF AbstractBarrier!Leave
<1> HIDE DEF entered
<1> QED
  BY <1>0, <1>2, <1>3, <1>4, <1>5, <1>6
  DEF Next, Step, Terminated, AbstractBarrier!Next

\* bli_thrcomm_barrier_atomic implements the abstract barrier: its safety
\* part, for any number of threads.
THEOREM BarrierRefinement == SafeSpec => AbstractBarrier!SafeSpec
<1>1. Init => AbstractBarrier!Init
  BY DEF Init, AbstractBarrier!Init, Entered, Inside
<1> QED
  BY <1>1, BarrierSimulation, Invariance, PTL DEF SafeSpec, AbstractBarrier!SafeSpec

-----------------------------------------------------------------------------
(***************************************************************************)
(* The condition-variable barrier implements the abstract one, for any     *)
(* number of threads, as long as no wakeup is spurious.                    *)
(***************************************************************************)

\* After g broadcasts, a thread has crossed g times and waits or stays
\* outside, or it is on its way out of the g-th crossing.
CondRounds(g) ==
    \A t \in Cond!Threads :
        cond_crossed[t] = IF t \in cond_inside \ cond_waiting THEN g - 1 ELSE g

CondIInv ==
    /\ Cond!TypeOK
    /\ \A t \in cond_inside : cond_crossed[t] < Crossings
    /\ cond_count = Cardinality(cond_waiting)
    /\ \E g \in Nat : CondRounds(g)

\* The threads are finitely many.
LEMMA CondThreadsFinite ==
    IsFiniteSet(Cond!Threads) /\ Cardinality(Cond!Threads) = N
BY NAssumption, FS_Interval DEF Cond!Threads

\* What a set of waiting threads tells by its size.
LEMMA CondWaitingSize ==
    ASSUME NEW S \in SUBSET Cond!Threads, NEW t \in Cond!Threads, t \notin S
    PROVE  /\ IsFiniteSet(S)
           /\ Cardinality(S) \in Nat
           /\ Cardinality(S \cup {t}) = Cardinality(S) + 1
           /\ Cardinality(S) + 1 >= N => S \cup {t} = Cond!Threads
<1>1. IsFiniteSet(S) /\ Cardinality(S) \in Nat
  BY CondThreadsFinite, FS_Subset, FS_CardinalityType
<1>2. Cardinality(S \cup {t}) = Cardinality(S) + 1
  BY <1>1, FS_AddElement
<1>3. S \cup {t} # Cond!Threads => Cardinality(S \cup {t}) < Cardinality(Cond!Threads)
  <2>1. S \cup {t} \in SUBSET Cond!Threads
    OBVIOUS
  <2>2. /\ Cardinality(S \cup {t}) <= Cardinality(Cond!Threads)
        /\ Cardinality(Cond!Threads) = Cardinality(S \cup {t}) => Cond!Threads = S \cup {t}
    BY <2>1, CondThreadsFinite, FS_Subset
  <2> QED
    BY <1>1, <1>2, <2>2, CondThreadsFinite, NAssumption
<1>4. Cardinality(Cond!Threads) = N
  BY CondThreadsFinite
<1> QED
  BY <1>1, <1>2, <1>3, <1>4, NAssumption

LEMMA CondInitIInv == ASSUME Cond!Init PROVE CondIInv
<1>1. Cond!TypeOK
  BY NAssumption, TreeAssumption DEF Cond!Init, Cond!TypeOK
<1>2. cond_count = Cardinality(cond_waiting)
  BY FS_EmptySet DEF Cond!Init
<1>3. CondRounds(0)
  BY DEF Cond!Init, CondRounds
<1> QED
  BY <1>1, <1>2, <1>3 DEF CondIInv, Cond!Init

\* A thread that comes while others are missing waits with those that have
\* come.
LEMMA CondWaitStep ==
    ASSUME CondIInv, NEW t \in Cond!Threads, Cond!Wait(t)
    PROVE  CondIInv'
<1>1. t \notin cond_waiting /\ cond_waiting \in SUBSET Cond!Threads
  BY NAssumption, TreeAssumption DEF CondIInv, Cond!TypeOK, Cond!Wait, Cond!MayEnter
<1>2. Cardinality(cond_waiting') = Cardinality(cond_waiting) + 1
  BY <1>1, CondWaitingSize DEF Cond!Wait
<1>3. Cond!TypeOK' /\ \A u \in cond_inside' : cond_crossed'[u] < Crossings
  BY NAssumption, TreeAssumption DEF CondIInv, Cond!TypeOK, Cond!Wait, Cond!MayEnter
<1>4. PICK g \in Nat : CondRounds(g)
  BY DEF CondIInv
<1>5. CondRounds(g)'
  BY <1>1, <1>4 DEF CondRounds, Cond!Wait, Cond!MayEnter
<1> QED
  BY <1>2, <1>3, <1>4, <1>5 DEF CondIInv, Cond!Wait

\* The last thread finds all the others waiting: a round ends.
LEMMA CondBroadcastStep ==
    ASSUME CondIInv, NEW t \in Cond!Threads, Cond!Broadcast(t)
    PROVE  CondIInv'
<1>1. t \notin cond_waiting /\ cond_waiting \in SUBSET Cond!Threads
  BY NAssumption, TreeAssumption DEF CondIInv, Cond!TypeOK, Cond!Broadcast, Cond!MayEnter
<1>2. cond_waiting \cup {t} = Cond!Threads
  BY <1>1, CondWaitingSize DEF CondIInv, Cond!Broadcast
<1>3. Cond!TypeOK' /\ \A u \in cond_inside' : cond_crossed'[u] < Crossings
  BY NAssumption, TreeAssumption DEF CondIInv, Cond!TypeOK, Cond!Broadcast, Cond!MayEnter
<1>4. PICK g \in Nat : CondRounds(g)
  BY DEF CondIInv
<1>5. \A u \in Cond!Threads : cond_crossed[u] = g /\ u \in cond_inside' \ cond_waiting'
  BY <1>1, <1>2, <1>4 DEF CondRounds, Cond!Broadcast, Cond!MayEnter, CondIInv, Cond!TypeOK
<1>6. CondRounds(g + 1)' /\ g + 1 \in Nat
  BY <1>5 DEF CondRounds, Cond!Broadcast
<1>7. cond_count' = Cardinality(cond_waiting')
  BY FS_EmptySet DEF Cond!Broadcast
<1> QED
  BY <1>3, <1>6, <1>7 DEF CondIInv

LEMMA CondReturnStep ==
    ASSUME CondIInv, NEW t \in Cond!Threads, Cond!Return(t)
    PROVE  CondIInv'
<1>1. Cond!TypeOK' /\ \A u \in cond_inside' : cond_crossed'[u] < Crossings
  BY NAssumption, TreeAssumption DEF CondIInv, Cond!TypeOK, Cond!Return
<1>2. PICK g \in Nat : CondRounds(g)
  BY DEF CondIInv
<1>3. CondRounds(g)'
  BY <1>2 DEF CondRounds, Cond!Return, CondIInv, Cond!TypeOK
<1> QED
  BY <1>1, <1>2, <1>3 DEF CondIInv, Cond!Return

\* The type invariant, the count and the rounds hold for any number of
\* threads.
THEOREM CondInvariance ==
    Cond!Spec => []CondIInv
<1>1. Cond!Init => CondIInv
  BY CondInitIInv
<1>2. CondIInv /\ [Cond!Next]_(Cond!vars) => CondIInv'
  <2> SUFFICES ASSUME CondIInv, [Cond!Next]_(Cond!vars) PROVE CondIInv'
    OBVIOUS
  <2>1. CASE \E t \in Cond!Threads : Cond!Step(t)
    BY <2>1, CondWaitStep, CondBroadcastStep, CondReturnStep DEF Cond!Step
  <2>2. CASE UNCHANGED Cond!vars
    BY <2>2 DEF CondIInv, Cond!TypeOK, CondRounds, Cond!vars
  <2> QED
    BY <2>1, <2>2 DEF Cond!Next, Cond!Terminated
<1> QED
  BY <1>1, <1>2, PTL DEF Cond!Spec

\* bli_pthread_barrier_wait keeps the promise of a barrier: whoever returns
\* from it has met all the others there.
THEOREM CondRefinement ==
    Cond!Spec => Cond!AbstractBarrier!SafeSpec
<1>1. Cond!Init => Cond!AbstractBarrier!Init
  BY DEF Cond!Init, Cond!AbstractBarrier!Init, Cond!Entered
<1>2. CondIInv /\ [Cond!Next]_(Cond!vars) => [Cond!AbstractBarrier!Next]_(Cond!AbstractBarrier!vars)
  <2> SUFFICES ASSUME CondIInv, [Cond!Next]_(Cond!vars)
               PROVE  Cond!AbstractBarrier!Next \/ UNCHANGED Cond!AbstractBarrier!vars
    OBVIOUS
  <2>1. ASSUME NEW t \in Cond!Threads, Cond!Wait(t) \/ Cond!Broadcast(t)
        PROVE  Cond!AbstractBarrier!Enter(t)
    <3>1. t \notin cond_inside /\ cond_inside' = cond_inside \cup {t} /\ UNCHANGED cond_crossed
      BY <2>1 DEF Cond!Wait, Cond!Broadcast, Cond!MayEnter
    <3>2. Cond!Entered(t)' = Cond!Entered(t) + 1 /\ Cond!Entered(t) = cond_crossed[t]
      BY <3>1 DEF Cond!Entered, CondIInv, Cond!TypeOK
    <3>3. \A u \in Cond!Threads \ {t} : Cond!Entered(u)' = Cond!Entered(u)
      BY <3>1 DEF Cond!Entered
    <3> QED
      BY <3>1, <3>2, <3>3 DEF Cond!AbstractBarrier!Enter
  <2>2. ASSUME NEW t \in Cond!Threads, Cond!Return(t) PROVE Cond!AbstractBarrier!Leave(t)
    <3>1. PICK g \in Nat : CondRounds(g)
      BY DEF CondIInv
    <3>2. \A u \in Cond!Threads : Cond!Entered(u) >= g
      BY <3>1 DEF CondRounds, Cond!Entered, CondIInv, Cond!TypeOK
    <3>3. cond_crossed[t] = g - 1 /\ Cond!Entered(t) = g
      BY <2>2, <3>1 DEF CondRounds, Cond!Entered, Cond!Return
    <3>4. cond_crossed' = [cond_crossed EXCEPT ![t] = @ + 1]
          /\ \A u \in Cond!Threads : Cond!Entered(u)' = Cond!Entered(u)
      BY <2>2, <3>3 DEF Cond!Return, Cond!Entered, CondIInv, Cond!TypeOK
    <3>5. \A u \in Cond!Threads : Cond!Entered(u) \in Nat
      BY DEF Cond!Entered, CondIInv, Cond!TypeOK
    <3> QED
      BY <2>2, <3>1, <3>2, <3>3, <3>4, <3>5 DEF Cond!AbstractBarrier!Leave
  <2>3. CASE UNCHANGED Cond!vars
    BY <2>3 DEF Cond!vars, Cond!AbstractBarrier!vars, Cond!Entered
  <2> QED
    BY <2>1, <2>2, <2>3 DEF Cond!Next, Cond!Step, Cond!Terminated, Cond!AbstractBarrier!Next
<1> QED
  BY <1>1, <1>2, CondInvariance, PTL DEF Cond!Spec, Cond!AbstractBarrier!SafeSpec

-----------------------------------------------------------------------------
(***************************************************************************)
(* The tree barrier, for any number of threads and any arity: it           *)
(* implements the abstract one, and its cleanup frees every node.          *)
(*                                                                         *)
(* A thread is at a node over it.  In a round the nodes over it are        *)
(* released from the root down, so that a thread that has returned from a  *)
(* node finds those above it in the next round; whoever was the last to    *)
(* come to a node finds the others waiting below it.  A node's count is    *)
(* therefore its arity again whenever nobody is at it, which is what the   *)
(* cleanup counts down from.                                               *)
(***************************************************************************)

\* The assumptions about the size of the tree, together.
LEMMA TreeSizes == TreeN \in Nat \ {0} /\ ARITY \in Nat \ {0, 1} /\ Crossings \in Nat
BY NAssumption, TreeAssumption

\* The round that a thread is in; a single thread does not use its node.
TreeRound(t) == IF TreeN = 1 THEN 0 ELSE tree_crossed[t]

\* The last thread below a node, and the nodes over a thread.
TreeLast(node) == Tree!First(node) + Tree!Size(node) - 1
TreeOver(t) == {n \in Tree!Nodes : t \in Tree!Below(n)}

\* Who comes to a node: its threads, or one for each of its kids.
TreeParts(node) == IF Tree!Kids(node) = {} THEN Tree!Below(node) ELSE Tree!Kids(node)
TreePartOf(t, node) == IF Tree!Kids(node) = {} THEN t ELSE Tree!KidOn(t, node)

\* t was the last to come to the node, and has not released it yet.
TreeHolds(t, node) ==
    /\ node \in TreeOver(t)
    /\ \/ Tree!Size(node) < Tree!Size(tree_barack[t])
       \/ node = tree_barack[t] /\ tree_pc[t] \in {"reset", "toggle"}

\* The parts that have come to a node since it was last released.
TreeCountedAt(node) ==
    {t \in Tree!Below(node) :
        /\ TreeRound(t) = tree_generation[node]
        /\ TreeHolds(t, node) \/ (tree_barack[t] = node /\ tree_pc[t] = "spin")}
TreeArrived(node) == {TreePartOf(t, node) : t \in TreeCountedAt(node)}

TreePoints == {"ready", "load", "count", "spin", "reset", "toggle"}

TreeTypeInv ==
    /\ tree_count \in [Tree!Nodes -> Int]
    /\ tree_signal \in [Tree!Nodes -> {0, 1}]
    /\ tree_generation \in [Tree!Nodes -> Nat]
    /\ tree_pc \in [Tree!Threads -> TreePoints]
    /\ tree_barack \in [Tree!Threads -> Tree!Nodes]
    /\ tree_my_signal \in [Tree!Threads -> {0, 1}]
    /\ tree_crossed \in [Tree!Threads -> 0 .. Crossings]
    /\ tree_cleaned \in 0 .. TreeN
    /\ \A n \in Tree!Nodes : tree_signal[n] = tree_generation[n] % 2

\* Each thread is at a node over it, and knows the signal of its round.
TreePlaceInv ==
    \A t \in Tree!Threads :
        /\ tree_barack[t] \in TreeOver(t)
        /\ tree_pc[t] = "ready" => Tree!Kids(tree_barack[t]) = {}
        /\ TreeN = 1 => tree_pc[t] = "ready"
        /\ tree_pc[t] # "ready" => tree_crossed[t] < Crossings
        /\ tree_pc[t] \in {"count", "spin"} => tree_my_signal[t] = TreeRound(t) % 2

\* The nodes over a thread are released in its round, from the root down.
TreeRoundInv ==
    \A t \in Tree!Threads : \A n \in TreeOver(t) :
        /\ tree_generation[n] \in {TreeRound(t), TreeRound(t) + 1}
        /\ TreeHolds(t, n) \/ tree_pc[t] \in {"ready", "load", "count"} => tree_generation[n] = TreeRound(t)
        /\ tree_pc[t] \in {"reset", "toggle"} /\ Tree!Size(tree_barack[t]) < Tree!Size(n)
            => tree_generation[n] = TreeRound(t) + 1
        /\ \A m \in TreeOver(t) :
                Tree!Size(m) <= Tree!Size(n) => tree_generation[m] <= tree_generation[n]

\* Where one thread has gone on, the others wait.
TreeHoldInv ==
    \A t, u \in Tree!Threads : \A n \in TreeOver(u) :
        TreeHolds(t, n) /\ t # u =>
            tree_pc[u] = "spin" /\ Tree!Size(tree_barack[u]) <= Tree!Size(n) /\ TreeRound(u) = TreeRound(t)

\* A node counts its parts down, until its count is reset.
TreeResetting(node) == \E t \in Tree!Threads : tree_barack[t] = node /\ tree_pc[t] = "toggle"
TreeCountInv ==
    tree_cleaned = 0 => \A n \in Tree!Nodes :
        tree_count[n] = Tree!arity(n) - IF TreeResetting(n) THEN 0 ELSE Cardinality(TreeArrived(n))

\* The cleanup counts the parts whose threads are all cleaned up.
TreeLastOf(node, part) == IF Tree!Kids(node) = {} THEN part ELSE TreeLast(part)
TreeCleanInv ==
    /\ tree_allocated = {n \in Tree!Nodes : tree_cleaned <= TreeLast(n)}
    /\ tree_cleaned # 0 => \A t \in Tree!Threads : Tree!Finished(t)
    /\ tree_cleaned # 0 => \A n \in Tree!Nodes :
            tree_count[n] = Cardinality({p \in TreeParts(n) : tree_cleaned <= TreeLastOf(n, p)})

TreeIInv == TreeTypeInv /\ TreePlaceInv /\ TreeRoundInv /\ TreeHoldInv /\ TreeCountInv /\ TreeCleanInv

\* Every nonempty set of natural numbers has a least element.
LEMMA LeastElement ==
    ASSUME NEW T \in SUBSET Nat, T # {}
    PROVE  \E x \in T : \A y \in T : x <= y
<1>1. PICK x \in T : \A y \in T : ~ (<<y, x>> \in OpToRel(<, Nat))
  BY WFMin, NatLessThanWellFounded, Zenon
<1>2. \A y \in T : ~ (y < x)
  BY <1>1, Zenon DEF OpToRel
<1> QED
  BY <1>2, SMT

\* What <<first, number>> of threads are the nodes of a tree
Pairs == Nat \X (Nat \ {0})

LEMMA TreePairFacts ==
    ASSUME NEW n \in Pairs
    PROVE  /\ Tree!First(n) \in Nat /\ Tree!Size(n) \in Nat \ {0} /\ n = <<Tree!First(n), Tree!Size(n)>>
           /\ TreeLast(n) \in Nat /\ TreeLast(n) = Tree!First(n) + Tree!Size(n) - 1
           /\ Tree!Below(n) = Tree!First(n) .. TreeLast(n)
           /\ Tree!First(n) \in Tree!Below(n) /\ TreeLast(n) \in Tree!Below(n)
BY DEF Pairs, Tree!First, Tree!Size, TreeLast, Tree!Below

\* Division, as the solver is to know it.
LEMMA DivMod ==
    ASSUME NEW a \in Nat, NEW b \in Nat \ {0}
    PROVE  /\ a \div b \in Nat
           /\ a % b \in 0 .. b - 1
           /\ a = b * (a \div b) + (a % b)
BY SMT

LEMMA Multiples ==
    ASSUME NEW q \in Nat
    PROVE  /\ q * 0 = 0
           /\ \A i \in Nat : q * i \in Nat /\ q * (i + 1) = q * i + q
           /\ \A i, j \in Nat : i <= j => q * i <= q * j
           /\ \A i \in Nat : i * q = q * i
BY SMT

\* Where the kids of a node begin, and the last of them ends
TreeCuts(node) ==
    [i \in 0 .. ARITY |->
        (Tree!Size(node) \div ARITY) * i
            + (IF i < Tree!Size(node) % ARITY THEN i ELSE Tree!Size(node) % ARITY)]

LEMMA TreeCutFacts ==
    ASSUME NEW n \in Pairs, Tree!Size(n) > ARITY
    PROVE  /\ TreeCuts(n) \in [0 .. ARITY -> Nat]
           /\ TreeCuts(n)[0] = 0 /\ TreeCuts(n)[ARITY] = Tree!Size(n)
           /\ \A i \in 0 .. ARITY - 1 : TreeCuts(n)[i + 1] - TreeCuts(n)[i] \in 1 .. Tree!Size(n) - 1
           /\ \A i, j \in 0 .. ARITY : i <= j => TreeCuts(n)[i] <= TreeCuts(n)[j]
<1> DEFINE s == Tree!Size(n)
           q == s \div ARITY
           r == s % ARITY
           x(i) == IF i < r THEN i ELSE r
<1>1. s \in Nat \ {0} /\ ARITY \in Nat \ {0, 1}
  BY TreePairFacts, TreeSizes
<1>2. q \in Nat /\ r \in 0 .. ARITY - 1 /\ s = ARITY * q + r
  BY <1>1, DivMod
<1>3. \A i \in 0 .. ARITY : TreeCuts(n)[i] = q * i + x(i)
  BY DEF TreeCuts
<1>4. TreeCuts(n) = [i \in 0 .. ARITY |-> TreeCuts(n)[i]]
  BY DEF TreeCuts
<1> HIDE DEF q, r
<1>5. /\ q * 0 = 0
      /\ \A i \in Nat : q * i \in Nat /\ q * (i + 1) = q * i + q
      /\ \A i, j \in Nat : i <= j => q * i <= q * j
      /\ \A i \in Nat : i * q = q * i
  BY <1>2, Multiples
<1>6. q # 0
  <2> SUFFICES ASSUME q = 0 PROVE FALSE
    OBVIOUS
  <2>1. ARITY * q = 0
    BY <1>1, <1>5
  <2> QED
    BY <1>1, <1>2, <2>1
<1>7. q * 2 = q + q /\ q * 2 <= q * ARITY /\ s = q * ARITY + r /\ q * ARITY \in Nat
  <2>1. q * 2 = q + q
    BY <1>2, SMT
  <2>2. 2 <= ARITY /\ ARITY \in Nat
    BY <1>1
  <2> QED
    BY <1>2, <1>5, <2>1, <2>2
<1> DEFINE c(i) == q * i
<1>8. \A i \in 0 .. ARITY : TreeCuts(n)[i] = c(i) + x(i) /\ c(i) \in Nat /\ x(i) \in Nat
  BY <1>1, <1>2, <1>3, <1>5
<1>9. \A i \in 0 .. ARITY - 1 :
        /\ i \in 0 .. ARITY /\ i + 1 \in 0 .. ARITY /\ c(i + 1) = c(i) + q
        /\ x(i + 1) - x(i) \in {0, 1}
        /\ r = 0 => x(i + 1) = x(i)
  BY <1>1, <1>2, <1>5
<1>10. \A i, j \in 0 .. ARITY : i <= j => c(i) <= c(j) /\ x(i) <= x(j)
  BY <1>1, <1>2, <1>5
<1>12. c(0) + x(0) = 0 /\ c(ARITY) + x(ARITY) = s /\ q <= s - 1
  BY <1>1, <1>2, <1>5, <1>6, <1>7
<1>13. r # 0 => q + 1 <= s - 1
  BY <1>2, <1>6, <1>7
<1>14. 0 \in 0 .. ARITY /\ ARITY \in 0 .. ARITY
  BY <1>1
<1> HIDE DEF c, x, s
<1>15. ASSUME NEW i \in 0 .. ARITY - 1
       PROVE  TreeCuts(n)[i + 1] - TreeCuts(n)[i] \in 1 .. s - 1
  <2>1. /\ TreeCuts(n)[i + 1] = c(i) + q + x(i + 1) /\ TreeCuts(n)[i] = c(i) + x(i)
        /\ c(i) \in Nat /\ x(i) \in Nat /\ x(i + 1) \in Nat
    BY <1>8, <1>9
  <2>2. TreeCuts(n)[i + 1] - TreeCuts(n)[i] = q + (x(i + 1) - x(i))
    BY <2>1, <1>2
  <2> QED
    BY <2>1, <2>2, <1>1, <1>2, <1>6, <1>9, <1>12, <1>13
<1>16. ASSUME NEW i \in 0 .. ARITY, NEW j \in 0 .. ARITY, i <= j
       PROVE  TreeCuts(n)[i] <= TreeCuts(n)[j]
  BY <1>8, <1>10, <1>16
<1>17. TreeCuts(n)[0] = 0 /\ TreeCuts(n)[ARITY] = s
  BY <1>8, <1>12, <1>14
<1>18. \A i \in 0 .. ARITY : TreeCuts(n)[i] \in Nat
  BY <1>8
<1>19. TreeCuts(n) \in [0 .. ARITY -> Nat]
  BY <1>4, <1>18
<1> QED
  BY <1>15, <1>16, <1>17, <1>19 DEF s

\* The kids of a node are those between two cuts.
LEMMA TreeKidsAreCuts ==
    ASSUME NEW n \in Pairs, Tree!Size(n) > ARITY
    PROVE  Tree!Kids(n) = {<<Tree!First(n) + TreeCuts(n)[i], TreeCuts(n)[i + 1] - TreeCuts(n)[i]>> :
                            i \in 0 .. ARITY - 1}
<1> DEFINE threads_per_kid == Tree!Size(n) \div ARITY
           defecit == Tree!Size(n) % ARITY
           before(i) == threads_per_kid * i + (IF i < defecit THEN i ELSE defecit)
<1>1. Tree!Kids(n) = {<<Tree!First(n) + before(i), before(i + 1) - before(i)>> : i \in 0 .. ARITY - 1}
  BY TreePairFacts, TreeSizes DEF Tree!Kids
<1>2. ASSUME NEW i \in 0 .. ARITY - 1
      PROVE  TreeCuts(n)[i] = before(i) /\ TreeCuts(n)[i + 1] = before(i + 1)
  <2>1. i \in 0 .. ARITY /\ i + 1 \in 0 .. ARITY
    BY TreeSizes
  <2> QED
    BY <2>1 DEF TreeCuts
<1> HIDE DEF before
<1> QED
  BY <1>1, <1>2

\* A node has kids if it has more threads than the arity.
LEMMA TreeHasKids ==
    ASSUME NEW n \in Pairs
    PROVE  Tree!Kids(n) # {} <=> Tree!Size(n) > ARITY
<1>1. CASE Tree!Size(n) > ARITY
  <2>1. 0 \in 0 .. ARITY - 1
    BY TreeSizes
  <2> DEFINE kid(i) == <<Tree!First(n) + TreeCuts(n)[i], TreeCuts(n)[i + 1] - TreeCuts(n)[i]>>
  <2>2. Tree!Kids(n) = {kid(i) : i \in 0 .. ARITY - 1}
    BY <1>1, TreeKidsAreCuts
  <2> HIDE DEF kid
  <2>3. kid(0) \in Tree!Kids(n)
    BY <2>1, <2>2
  <2> QED
    BY <1>1, <2>3
<1>2. CASE ~ (Tree!Size(n) > ARITY)
  BY <1>2, TreePairFacts, TreeSizes DEF Tree!Kids
<1> QED
  BY <1>1, <1>2

\* Kids are smaller than their dad, and within it.
LEMMA TreeKidFacts ==
    ASSUME NEW n \in Pairs, NEW k \in Tree!Kids(n)
    PROVE  /\ k \in Pairs /\ Tree!Size(n) > ARITY /\ Tree!Size(k) < Tree!Size(n)
           /\ Tree!First(n) <= Tree!First(k) /\ TreeLast(k) <= TreeLast(n)
           /\ Tree!Below(k) \subseteq Tree!Below(n)
<1>1. Tree!Size(n) > ARITY
  BY TreeHasKids
<1>2. PICK i \in 0 .. ARITY - 1 :
            k = <<Tree!First(n) + TreeCuts(n)[i], TreeCuts(n)[i + 1] - TreeCuts(n)[i]>>
  BY <1>1, TreeKidsAreCuts
<1>3. /\ i \in 0 .. ARITY /\ i + 1 \in 0 .. ARITY /\ ARITY \in 0 .. ARITY
      /\ i + 1 <= ARITY
  BY TreeSizes
<1>4. /\ TreeCuts(n)[i] \in Nat /\ TreeCuts(n)[i + 1] \in Nat
      /\ TreeCuts(n)[i + 1] - TreeCuts(n)[i] \in 1 .. Tree!Size(n) - 1
      /\ TreeCuts(n)[i + 1] <= Tree!Size(n)
  BY <1>1, <1>3, TreeCutFacts
<1>5. /\ Tree!First(k) = Tree!First(n) + TreeCuts(n)[i]
      /\ Tree!Size(k) = TreeCuts(n)[i + 1] - TreeCuts(n)[i]
  BY <1>2 DEF Tree!First, Tree!Size
<1>6. /\ Tree!First(n) \in Nat /\ Tree!Size(n) \in Nat
      /\ TreeLast(n) = Tree!First(n) + Tree!Size(n) - 1
  BY TreePairFacts
<1>7. k \in Pairs
  BY <1>2, <1>4, <1>6 DEF Pairs
<1>8. /\ TreeLast(k) = Tree!First(k) + Tree!Size(k) - 1
      /\ Tree!Below(k) = Tree!First(k) .. TreeLast(k)
      /\ Tree!Below(n) = Tree!First(n) .. TreeLast(n)
  BY <1>7, TreePairFacts
<1>9. TreeLast(k) = Tree!First(n) + TreeCuts(n)[i + 1] - 1
  BY <1>4, <1>5, <1>6, <1>8
<1>10. /\ Tree!First(n) <= Tree!First(k) /\ TreeLast(k) <= TreeLast(n)
       /\ Tree!Size(k) < Tree!Size(n)
  BY <1>4, <1>5, <1>6, <1>9
<1>11. Tree!First(k) \in Nat /\ TreeLast(k) \in Nat /\ TreeLast(n) \in Nat
  BY <1>7, TreePairFacts
<1> QED
  BY <1>1, <1>6, <1>7, <1>8, <1>10, <1>11

\* The threads below the i-th kid
LEMMA TreeKidByCuts ==
    ASSUME NEW n \in Pairs, Tree!Size(n) > ARITY, NEW i \in 0 .. ARITY - 1, NEW t \in Nat
    PROVE  LET k == <<Tree!First(n) + TreeCuts(n)[i], TreeCuts(n)[i + 1] - TreeCuts(n)[i]>>
           IN  t \in Tree!Below(k)
                <=> Tree!First(n) + TreeCuts(n)[i] <= t /\ t < Tree!First(n) + TreeCuts(n)[i + 1]
<1>1. i \in 0 .. ARITY /\ i + 1 \in 0 .. ARITY
  BY TreeSizes
<1>2. TreeCuts(n)[i] \in Nat /\ TreeCuts(n)[i + 1] \in Nat /\ Tree!First(n) \in Nat
  BY <1>1, TreeCutFacts, TreePairFacts
<1> QED
  BY <1>2 DEF Tree!Below, Tree!First, Tree!Size

\* Each thread below a node is below one of its kids.
LEMMA TreeKidsPartition ==
    ASSUME NEW n \in Pairs, Tree!Kids(n) # {}, NEW t \in Tree!Below(n)
    PROVE  /\ \E k \in Tree!Kids(n) : t \in Tree!Below(k)
           /\ \A j, k \in Tree!Kids(n) : t \in Tree!Below(j) /\ t \in Tree!Below(k) => j = k
<1> DEFINE kid(i) == <<Tree!First(n) + TreeCuts(n)[i], TreeCuts(n)[i + 1] - TreeCuts(n)[i]>>
           f == Tree!First(n)
           c == TreeCuts(n)
<1>1. Tree!Size(n) > ARITY
  BY TreeHasKids
<1>2. Tree!Kids(n) = {kid(i) : i \in 0 .. ARITY - 1}
  BY <1>1, TreeKidsAreCuts
<1>3. f \in Nat /\ Tree!Size(n) \in Nat /\ t \in Nat /\ f <= t /\ t < f + Tree!Size(n)
  BY TreePairFacts
<1>4. /\ c[0] = 0 /\ c[ARITY] = Tree!Size(n)
      /\ \A i \in 0 .. ARITY : c[i] \in Nat
      /\ \A i, j \in 0 .. ARITY : i <= j => c[i] <= c[j]
  BY <1>1, TreeCutFacts
<1>5. \A i \in 0 .. ARITY - 1 : t \in Tree!Below(kid(i)) <=> f + c[i] <= t /\ t < f + c[i + 1]
  BY <1>1, <1>3, TreeKidByCuts
<1>6. \A i \in 0 .. ARITY - 1 : i \in 0 .. ARITY /\ i + 1 \in 0 .. ARITY
  BY TreeSizes
<1>7. 0 \in 0 .. ARITY /\ ARITY \in 0 .. ARITY /\ ARITY \in Nat \ {0}
  BY TreeSizes
<1> HIDE DEF kid, f, c
<1>8. \E k \in Tree!Kids(n) : t \in Tree!Below(k)
  <2> DEFINE above == {i \in 0 .. ARITY : t < f + c[i]}
  <2>1. ARITY \in above /\ 0 \notin above /\ above \in SUBSET Nat
    BY <1>3, <1>4, <1>7
  <2>2. PICK j \in above : \A i \in above : j <= i
    <3> HIDE DEF above
    <3> QED
      BY <2>1, LeastElement
  <2>3. j \in 0 .. ARITY /\ j # 0 /\ t < f + c[j]
    BY <2>1, <2>2
  <2>4. j - 1 \in 0 .. ARITY - 1 /\ j - 1 \in 0 .. ARITY /\ j - 1 + 1 = j
    BY <1>7, <2>3
  <2>5. f + c[j - 1] <= t
    <3>1. j - 1 \notin above
      <4>1. ~ (j <= j - 1)
        BY <2>3
      <4> HIDE DEF above
      <4> QED
        BY <2>2, <4>1
    <3>2. ~ (t < f + c[j - 1])
      BY <2>4, <3>1
    <3> QED
      BY <1>3, <1>4, <2>4, <3>2
  <2>6. t \in Tree!Below(kid(j - 1))
    BY <1>5, <2>3, <2>4, <2>5
  <2> QED
    BY <1>2, <2>4, <2>6
<1>9. ASSUME NEW j \in Tree!Kids(n), NEW k \in Tree!Kids(n), t \in Tree!Below(j), t \in Tree!Below(k)
      PROVE  j = k
  <2>1. PICK i \in 0 .. ARITY - 1 : j = kid(i)
    BY <1>2
  <2>2. PICK h \in 0 .. ARITY - 1 : k = kid(h)
    BY <1>2
  <2>3. f + c[i] <= t /\ t < f + c[i + 1] /\ f + c[h] <= t /\ t < f + c[h + 1]
    BY <1>5, <1>9, <2>1, <2>2
  <2>4. c[i] \in Nat /\ c[i + 1] \in Nat /\ c[h] \in Nat /\ c[h + 1] \in Nat
    BY <1>4, <1>6
  <2>5. ~ (i < h)
    <3> SUFFICES ASSUME i < h PROVE FALSE
      OBVIOUS
    <3>1. c[i + 1] <= c[h]
      BY <1>4, <1>6
    <3> QED
      BY <1>3, <2>3, <2>4, <3>1
  <2>6. ~ (h < i)
    <3> SUFFICES ASSUME h < i PROVE FALSE
      OBVIOUS
    <3>1. c[h + 1] <= c[i]
      BY <1>4, <1>6
    <3> QED
      BY <1>3, <2>3, <2>4, <3>1
  <2>7. i = h
    BY <2>5, <2>6
  <2> QED
    BY <2>1, <2>2, <2>7
<1> QED
  BY <1>8, <1>9

\* The kid of a node that is over t
LEMMA TreeKidOnFacts ==
    ASSUME NEW n \in Pairs, Tree!Kids(n) # {}, NEW t \in Tree!Below(n)
    PROVE  /\ Tree!KidOn(t, n) \in Tree!Kids(n) /\ t \in Tree!Below(Tree!KidOn(t, n))
           /\ \A k \in Tree!Kids(n) : t \in Tree!Below(k) => k = Tree!KidOn(t, n)
<1>1. \E k \in Tree!Kids(n) : t \in Tree!Below(k)
  BY TreeKidsPartition
<1>2. Tree!KidOn(t, n) \in Tree!Kids(n) /\ t \in Tree!Below(Tree!KidOn(t, n))
  BY <1>1 DEF Tree!KidOn
<1> QED
  BY <1>2, TreeKidsPartition

\* A node has as many parts as its arity says.
LEMMA TreeNumberOfParts ==
    ASSUME NEW n \in Pairs
    PROVE  IsFiniteSet(TreeParts(n)) /\ Cardinality(TreeParts(n)) = Tree!arity(n)
<1>1. CASE Tree!Kids(n) = {}
  <2>1. TreeParts(n) = Tree!First(n) .. TreeLast(n) /\ Tree!arity(n) = Tree!Size(n)
    BY <1>1, TreePairFacts, TreeHasKids, TreeSizes DEF TreeParts, Tree!arity
  <2>2. /\ Tree!First(n) \in Int /\ TreeLast(n) \in Int /\ ~ (Tree!First(n) > TreeLast(n))
        /\ TreeLast(n) - Tree!First(n) + 1 = Tree!Size(n)
    <3>1. /\ Tree!First(n) \in Nat /\ Tree!Size(n) \in Nat \ {0}
          /\ TreeLast(n) = Tree!First(n) + Tree!Size(n) - 1
      BY TreePairFacts
    <3> QED
      BY <3>1
  <2> QED
    BY <2>1, <2>2, FS_Interval
<1>2. CASE Tree!Kids(n) # {}
  <2> DEFINE kid(i) == <<Tree!First(n) + TreeCuts(n)[i], TreeCuts(n)[i + 1] - TreeCuts(n)[i]>>
             S == 0 .. ARITY - 1
             g == [i \in S |-> kid(i)]
  <2>1. Tree!Size(n) > ARITY
    BY <1>2, TreeHasKids
  <2>2. Tree!Kids(n) = {kid(i) : i \in S}
    BY <2>1, TreeKidsAreCuts
  <2>3. ASSUME NEW i \in S, NEW h \in S, i < h
        PROVE  kid(i) # kid(h)
    <3>1. i \in 0 .. ARITY /\ i + 1 \in 0 .. ARITY /\ h \in 0 .. ARITY /\ i + 1 <= h
      BY <2>3, TreeSizes
    <3>3. TreeCuts(n)[i] \in Nat /\ TreeCuts(n)[i + 1] \in Nat /\ TreeCuts(n)[h] \in Nat
      BY <2>1, <3>1, TreeCutFacts
    <3>7. /\ TreeCuts(n)[i + 1] - TreeCuts(n)[i] \in 1 .. Tree!Size(n) - 1
          /\ TreeCuts(n)[i + 1] <= TreeCuts(n)[h]
      BY <2>1, <3>1, TreeCutFacts
    <3>2. TreeCuts(n)[i] < TreeCuts(n)[i + 1] /\ TreeCuts(n)[i + 1] <= TreeCuts(n)[h]
      BY <3>3, <3>7
    <3>4. TreeCuts(n)[i] # TreeCuts(n)[h]
      BY <3>2, <3>3
    <3>5. Tree!First(n) \in Nat
      BY TreePairFacts
    <3>6. Tree!First(n) + TreeCuts(n)[i] # Tree!First(n) + TreeCuts(n)[h]
      BY <3>3, <3>4, <3>5
    <3> QED
      BY <3>6
  <2>4. \A i, h \in S : i # h => kid(i) # kid(h)
    <3>1. \A i, h \in S : i # h => i < h \/ h < i
      OBVIOUS
    <3> HIDE DEF kid
    <3> QED
      BY <2>3, <3>1
  <2>5. g \in Bijection(S, Tree!Kids(n))
    <3> HIDE DEF kid
    <3>1. g \in [S -> Tree!Kids(n)]
      BY <2>2
    <3>2. \A i, h \in S : g[i] = g[h] => i = h
      BY <2>4
    <3>3. \A k \in Tree!Kids(n) : \E i \in S : g[i] = k
      BY <2>2
    <3> HIDE DEF g, S
    <3> QED
      BY <3>1, <3>2, <3>3 DEF Bijection, Injection, Surjection, IsInjective
  <2>6. IsFiniteSet(S) /\ Cardinality(S) = ARITY
    <3>1. 0 \in Int /\ ARITY - 1 \in Int /\ ~ (0 > ARITY - 1) /\ ARITY - 1 - 0 + 1 = ARITY
      BY TreeSizes
    <3> QED
      BY <3>1, FS_Interval
  <2>7. TreeParts(n) = Tree!Kids(n) /\ Tree!arity(n) = ARITY
    BY <1>2, <2>1, TreePairFacts, TreeSizes DEF TreeParts, Tree!arity
  <2> HIDE DEF S, g
  <2> QED
    BY <2>5, <2>6, <2>7, FS_Bijection DEF ExistsBijection
<1> QED
  BY <1>1, <1>2

-----------------------------------------------------------------------------
\* The levels of the tree
TreeLevels ==
    LET level[k \in 0 .. TreeN] ==
            IF k = 0 THEN {Tree!Root} ELSE UNION {Tree!Kids(n) : n \in level[k - 1]}
    IN level

TreeKidsOf(S) == UNION {Tree!Kids(n) : n \in S}

LEMMA TreeKidsOfPairs ==
    ASSUME NEW S \in SUBSET Pairs
    PROVE  TreeKidsOf(S) \in SUBSET Pairs
BY TreeKidFacts DEF TreeKidsOf

LEMMA TreeRootFacts ==
    /\ Tree!Root \in Pairs /\ Tree!First(Tree!Root) = 0 /\ Tree!Size(Tree!Root) = TreeN
    /\ TreeLast(Tree!Root) = TreeN - 1 /\ Tree!Below(Tree!Root) = Tree!Threads
BY TreeSizes DEF Tree!Root, Pairs, Tree!First, Tree!Size, TreeLast, Tree!Below, Tree!Threads

\* There is such a function.
LEMMA TreeLevelsExist ==
    \E f \in [0 .. TreeN -> SUBSET Pairs] :
        \A k \in 0 .. TreeN : f[k] = IF k = 0 THEN {Tree!Root} ELSE TreeKidsOf(f[k - 1])
<1> DEFINE Good(f, b) ==
        \A k \in 0 .. TreeN : k <= b => f[k] = IF k = 0 THEN {Tree!Root} ELSE TreeKidsOf(f[k - 1])
           F == [0 .. TreeN -> SUBSET Pairs]
           bad == {b \in Nat : \A f \in F : ~ Good(f, b)}
<1>1. CASE bad # {}
  <2>1. PICK b \in bad : \A c \in bad : b <= c
    <3>1. bad \in SUBSET Nat
      OBVIOUS
    <3> HIDE DEF bad
    <3> QED
      BY <1>1, <3>1, LeastElement
  <2>2. b \in Nat
    OBVIOUS
  <2>3. b # 0
    <3>1. [k \in 0 .. TreeN |-> {Tree!Root}] \in F
      BY TreeRootFacts
    <3>2. Good([k \in 0 .. TreeN |-> {Tree!Root}], 0)
      OBVIOUS
    <3> QED
      BY <3>1, <3>2
  <2>4. b - 1 \in Nat /\ b - 1 \notin bad
    <3> HIDE DEF bad
    <3> QED
      BY <2>1, <2>2, <2>3
  <2>5. PICK f \in F : Good(f, b - 1)
    BY <2>4
  <2>6. CASE b \in 0 .. TreeN
    <3> DEFINE g == [f EXCEPT ![b] = TreeKidsOf(f[b - 1])]
    <3>1. b - 1 \in 0 .. TreeN /\ f[b - 1] \in SUBSET Pairs
      BY <2>2, <2>3, <2>6, TreeSizes
    <3>2. TreeKidsOf(f[b - 1]) \in SUBSET Pairs
      BY <3>1, TreeKidsOfPairs
    <3>3. g \in F /\ g[b] = TreeKidsOf(f[b - 1]) /\ \A i \in 0 .. TreeN : i # b => g[i] = f[i]
      BY <2>6, <3>2
    <3>4. ASSUME NEW i \in 0 .. TreeN, i <= b
          PROVE  g[i] = IF i = 0 THEN {Tree!Root} ELSE TreeKidsOf(g[i - 1])
      <4>1. i # 0 => i - 1 \in 0 .. TreeN /\ i - 1 # b
        BY <3>4, <2>2, TreeSizes
      <4>2. i # 0 => g[i - 1] = f[i - 1]
        BY <3>3, <4>1
      <4>3. CASE i = b
        BY <2>3, <3>3, <4>2, <4>3
      <4>4. CASE i # b
        <5>1. i <= b - 1
          BY <3>4, <4>4, <2>2
        <5>2. f[i] = IF i = 0 THEN {Tree!Root} ELSE TreeKidsOf(f[i - 1])
          BY <5>1, <2>5
        <5> QED
          BY <3>3, <4>2, <4>4, <5>2
      <4> QED
        BY <4>3, <4>4
    <3>5. Good(g, b)
      BY <3>4
    <3>6. \A h \in F : ~ Good(h, b)
      BY <2>1
    <3> HIDE DEF g, Good, F
    <3> QED
      BY <3>3, <3>5, <3>6
  <2>7. CASE b \notin 0 .. TreeN
    <3>1. \A i \in 0 .. TreeN : i <= b => i <= b - 1
      BY <2>2, <2>7
    <3>2. Good(f, b)
      BY <2>5, <3>1
    <3> QED
      BY <3>2, <2>1
  <2> QED
    BY <2>6, <2>7
<1>2. CASE bad = {}
  <2>1. TreeN \in Nat
    BY TreeSizes
  <2>2. PICK f \in F : Good(f, TreeN)
    BY <1>2, <2>1
  <2>3. \A k \in 0 .. TreeN : k <= TreeN
    BY <2>1
  <2> QED
    BY <2>2, <2>3
<1> QED
  BY <1>1, <1>2

\* The tree is that function.
LEMMA TreeLevelFacts ==
    /\ Tree!Nodes = UNION {TreeLevels[k] : k \in 0 .. TreeN}
    /\ \A k \in 0 .. TreeN :
        /\ TreeLevels[k] \in SUBSET Pairs
        /\ TreeLevels[k] = IF k = 0 THEN {Tree!Root} ELSE TreeKidsOf(TreeLevels[k - 1])
<1> DEFINE step(f) ==
        [k \in 0 .. TreeN |-> IF k = 0 THEN {Tree!Root} ELSE UNION {Tree!Kids(n) : n \in f[k - 1]}]
<1>1. PICK f \in [0 .. TreeN -> SUBSET Pairs] :
            \A k \in 0 .. TreeN : f[k] = IF k = 0 THEN {Tree!Root} ELSE TreeKidsOf(f[k - 1])
  BY TreeLevelsExist
<1>2. f = step(f)
  <2>1. f = [k \in 0 .. TreeN |-> f[k]]
    BY <1>1
  <2> QED
    BY <1>1, <2>1 DEF TreeKidsOf
<1>3. TreeLevels = CHOOSE g : g = step(g)
  BY DEF TreeLevels
<1> HIDE DEF step
<1>4. TreeLevels = step(TreeLevels)
  BY <1>2, <1>3
<1> USE DEF step
<1>5. \A k \in 0 .. TreeN : TreeLevels[k] = IF k = 0 THEN {Tree!Root} ELSE TreeKidsOf(TreeLevels[k - 1])
  BY <1>4 DEF TreeKidsOf
<1>6. Tree!Nodes = UNION {TreeLevels[k] : k \in 0 .. TreeN}
  BY DEF Tree!Nodes, TreeLevels
<1>7. \A k \in 0 .. TreeN : TreeLevels[k] \in SUBSET Pairs
  <2> DEFINE bad == {k \in 0 .. TreeN : TreeLevels[k] \notin SUBSET Pairs}
  <2> SUFFICES ASSUME bad # {} PROVE FALSE
    OBVIOUS
  <2>1. bad \in SUBSET Nat
    OBVIOUS
  <2>2. PICK b \in bad : \A c \in bad : b <= c
    <3> HIDE DEF bad
    <3> QED
      BY <2>1, LeastElement
  <2>3. b \in 0 .. TreeN /\ TreeLevels[b] \notin SUBSET Pairs
    OBVIOUS
  <2>4. b # 0
    BY <1>5, <2>3, TreeRootFacts
  <2>5. b - 1 \in 0 .. TreeN /\ ~ (b <= b - 1)
    BY <2>3, <2>4, TreeSizes
  <2>6. b - 1 \notin bad
    <3> HIDE DEF bad
    <3> QED
      BY <2>2, <2>5
  <2>7. TreeLevels[b - 1] \in SUBSET Pairs
    BY <2>5, <2>6
  <2> QED
    BY <1>5, <2>3, <2>4, <2>7, TreeKidsOfPairs
<1> QED
  BY <1>5, <1>6, <1>7

LEMMA TreeLevelDad ==
    ASSUME NEW k \in 0 .. TreeN, k # 0, NEW n \in TreeLevels[k]
    PROVE  \E m \in TreeLevels[k - 1] : n \in Tree!Kids(m)
<1>1. n \in TreeKidsOf(TreeLevels[k - 1])
  BY TreeLevelFacts
<1> QED
  BY <1>1 DEF TreeKidsOf

\* A level of the tree follows from those before it.
LEMMA TreeLevelInduction ==
    ASSUME NEW S \in SUBSET (0 .. TreeN), 0 \in S,
           \A k \in 0 .. TreeN : k # 0 /\ k - 1 \in S => k \in S
    PROVE  \A k \in 0 .. TreeN : k \in S
<1> DEFINE bad == {k \in 0 .. TreeN : k \notin S}
<1> SUFFICES ASSUME bad # {} PROVE FALSE
  OBVIOUS
<1>1. bad \in SUBSET Nat
  OBVIOUS
<1>2. PICK b \in bad : \A c \in bad : b <= c
  <2> HIDE DEF bad
  <2> QED
    BY <1>1, LeastElement
<1>3. b \in 0 .. TreeN /\ b \notin S /\ b # 0
  OBVIOUS
<1>4. b - 1 \in 0 .. TreeN /\ ~ (b <= b - 1)
  BY <1>3, TreeSizes
<1>5. b - 1 \notin bad
  <2> HIDE DEF bad
  <2> QED
    BY <1>2, <1>4
<1> QED
  BY <1>3, <1>4, <1>5

\* Nodes get smaller from level to level, so that the last level has no kids.
LEMMA TreeLevelSizes ==
    \A k \in 0 .. TreeN : \A n \in TreeLevels[k] : Tree!Size(n) + k <= TreeN
<1> DEFINE S == {k \in 0 .. TreeN : \A n \in TreeLevels[k] : Tree!Size(n) + k <= TreeN}
<1>1. 0 \in S
  BY TreeLevelFacts, TreeRootFacts, TreeSizes
<1>2. ASSUME NEW k \in 0 .. TreeN, k # 0, k - 1 \in S PROVE k \in S
  <2>1. k - 1 \in 0 .. TreeN /\ TreeLevels[k - 1] \in SUBSET Pairs
    BY <1>2, TreeLevelFacts
  <2>2. ASSUME NEW n \in TreeLevels[k] PROVE Tree!Size(n) + k <= TreeN
    <3>1. PICK m \in TreeLevels[k - 1] : n \in Tree!Kids(m)
      BY <1>2, TreeLevelDad
    <3>2. m \in Pairs
      BY <2>1
    <3>3. Tree!Size(n) < Tree!Size(m) /\ Tree!Size(n) \in Nat /\ Tree!Size(m) \in Nat
      BY <3>1, <3>2, TreeKidFacts, TreePairFacts
    <3>4. Tree!Size(m) + (k - 1) <= TreeN
      BY <1>2
    <3> QED
      BY <3>3, <3>4, TreeSizes
  <2> QED
    BY <2>2
<1>3. S \in SUBSET (0 .. TreeN)
  OBVIOUS
<1>4. \A k \in 0 .. TreeN : k \in S
  <2> HIDE DEF S
  <2> QED
    BY <1>1, <1>2, <1>3, TreeLevelInduction
<1> QED
  BY <1>4

\* Nodes of one level have no thread in common.
LEMMA TreeLevelDisjoint ==
    \A k \in 0 .. TreeN : \A m, n \in TreeLevels[k] : \A t : t \in Tree!Below(m) /\ t \in Tree!Below(n) => m = n
<1> DEFINE S == {k \in 0 .. TreeN : \A m, n \in TreeLevels[k] :
                    \A t : t \in Tree!Below(m) /\ t \in Tree!Below(n) => m = n}
<1>1. 0 \in S
  BY TreeLevelFacts, TreeSizes
<1>2. ASSUME NEW k \in 0 .. TreeN, k # 0, k - 1 \in S PROVE k \in S
  <2>1. k - 1 \in 0 .. TreeN /\ TreeLevels[k - 1] \in SUBSET Pairs
    BY <1>2, TreeLevelFacts
  <2>2. ASSUME NEW m \in TreeLevels[k], NEW n \in TreeLevels[k], NEW t, t \in Tree!Below(m), t \in Tree!Below(n)
        PROVE  m = n
    <3>1. PICK x \in TreeLevels[k - 1] : m \in Tree!Kids(x)
      BY <1>2, TreeLevelDad
    <3>2. PICK y \in TreeLevels[k - 1] : n \in Tree!Kids(y)
      BY <1>2, TreeLevelDad
    <3>3. x \in Pairs /\ y \in Pairs
      BY <2>1
    <3>4. t \in Tree!Below(x) /\ t \in Tree!Below(y)
      BY <2>2, <3>1, <3>2, <3>3, TreeKidFacts
    <3>5. x = y
      BY <1>2, <3>4
    <3> QED
      BY <2>2, <3>1, <3>2, <3>3, <3>4, <3>5, TreeKidsPartition
  <2> QED
    BY <2>2
<1>3. S \in SUBSET (0 .. TreeN)
  OBVIOUS
<1>4. \A k \in 0 .. TreeN : k \in S
  <2> HIDE DEF S
  <2> QED
    BY <1>1, <1>2, <1>3, TreeLevelInduction
<1> QED
  BY <1>4

\* A node is below a kid of a node of each level before its own.
LEMMA TreeLevelAbove ==
    ASSUME NEW i \in 0 .. TreeN
    PROVE  \A j \in 0 .. TreeN : i < j => \A n \in TreeLevels[j] :
                \E m \in TreeLevels[i] : \E c \in Tree!Kids(m) : Tree!Below(n) \subseteq Tree!Below(c)
<1> DEFINE S == {j \in 0 .. TreeN : i < j => \A n \in TreeLevels[j] :
                \E m \in TreeLevels[i] : \E c \in Tree!Kids(m) : Tree!Below(n) \subseteq Tree!Below(c)}
<1>1. 0 \in S
  BY TreeSizes
<1>2. ASSUME NEW k \in 0 .. TreeN, k # 0, k - 1 \in S PROVE k \in S
  <2> SUFFICES ASSUME i < k, NEW n \in TreeLevels[k]
               PROVE  \E m \in TreeLevels[i] : \E c \in Tree!Kids(m) : Tree!Below(n) \subseteq Tree!Below(c)
    OBVIOUS
  <2>1. k - 1 \in 0 .. TreeN /\ TreeLevels[k - 1] \in SUBSET Pairs
    BY <1>2, TreeLevelFacts
  <2>2. PICK x \in TreeLevels[k - 1] : n \in Tree!Kids(x)
    BY <1>2, TreeLevelDad
  <2>3. CASE i = k - 1
    BY <2>2, <2>3
  <2>4. CASE i # k - 1
    <3>1. i < k - 1
      BY <2>4
    <3>2. PICK m \in TreeLevels[i] : \E c \in Tree!Kids(m) : Tree!Below(x) \subseteq Tree!Below(c)
      BY <1>2, <3>1
    <3>3. Tree!Below(n) \subseteq Tree!Below(x)
      BY <2>1, <2>2, TreeKidFacts
    <3> QED
      BY <3>2, <3>3
  <2> QED
    BY <2>3, <2>4
<1>3. S \in SUBSET (0 .. TreeN)
  OBVIOUS
<1>4. \A k \in 0 .. TreeN : k \in S
  <2> HIDE DEF S
  <2> QED
    BY <1>1, <1>2, <1>3, TreeLevelInduction
<1> QED
  BY <1>4

-----------------------------------------------------------------------------
\* What is a node
LEMMA TreeNodeFacts ==
    /\ Tree!Root \in Tree!Nodes
    /\ \A n \in Tree!Nodes :
        /\ n \in Pairs
        /\ n = Tree!Root \/ \E m \in Tree!Nodes : n \in Tree!Kids(m)
        /\ \A k \in Tree!Kids(n) : k \in Tree!Nodes
        /\ Tree!Below(n) \subseteq Tree!Threads
        /\ Tree!First(n) \in Tree!Threads /\ TreeLast(n) \in Tree!Threads
<1>1. Tree!Root \in Tree!Nodes
  <2>1. 0 \in 0 .. TreeN /\ Tree!Root \in TreeLevels[0]
    BY TreeLevelFacts, TreeSizes
  <2> QED
    BY <2>1, TreeLevelFacts
<1>2. ASSUME NEW n \in Tree!Nodes
      PROVE  /\ n \in Pairs
             /\ n = Tree!Root \/ \E m \in Tree!Nodes : n \in Tree!Kids(m)
             /\ \A k \in Tree!Kids(n) : k \in Tree!Nodes
             /\ Tree!Below(n) \subseteq Tree!Threads
             /\ Tree!First(n) \in Tree!Threads /\ TreeLast(n) \in Tree!Threads
  <2>1. PICK k \in 0 .. TreeN : n \in TreeLevels[k]
    BY TreeLevelFacts
  <2>2. n \in Pairs
    BY <2>1, TreeLevelFacts
  <2>3. n = Tree!Root \/ \E m \in Tree!Nodes : n \in Tree!Kids(m)
    <3>1. CASE k = 0
      BY <2>1, <3>1, TreeLevelFacts
    <3>2. CASE k # 0
      <4>1. PICK m \in TreeLevels[k - 1] : n \in Tree!Kids(m)
        BY <2>1, <3>2, TreeLevelDad
      <4>2. k - 1 \in 0 .. TreeN
        BY <3>2, TreeSizes
      <4>3. m \in Tree!Nodes
        BY <4>2, TreeLevelFacts
      <4> QED
        BY <4>1, <4>3
    <3> QED
      BY <3>1, <3>2
  <2>4. ASSUME NEW c \in Tree!Kids(n) PROVE c \in Tree!Nodes
    <3>1. Tree!Size(n) + k <= TreeN
      BY <2>1, TreeLevelSizes
    <3>2. Tree!Size(n) \in Nat \ {0}
      BY <2>2, TreePairFacts
    <3>3. k + 1 \in 0 .. TreeN /\ k + 1 # 0 /\ k + 1 - 1 = k
      BY <3>1, <3>2, TreeSizes
    <3>4. TreeLevels[k + 1] = TreeKidsOf(TreeLevels[k])
      BY <3>3, TreeLevelFacts
    <3>5. c \in TreeLevels[k + 1]
      BY <2>1, <3>4 DEF TreeKidsOf
    <3> QED
      BY <3>3, <3>5, TreeLevelFacts
  <2>5. Tree!Below(n) \subseteq Tree!Threads
    <3>1. CASE k = 0
      BY <2>1, <3>1, TreeLevelFacts, TreeRootFacts
    <3>2. CASE k # 0
      <4>1. 0 \in 0 .. TreeN /\ 0 < k /\ TreeLevels[0] = {Tree!Root}
        BY <3>2, TreeLevelFacts, TreeSizes
      <4>2. PICK c \in Tree!Kids(Tree!Root) : Tree!Below(n) \subseteq Tree!Below(c)
        BY <2>1, <4>1, TreeLevelAbove
      <4> QED
        BY <4>2, TreeKidFacts, TreeRootFacts
    <3> QED
      BY <3>1, <3>2
  <2> QED
    BY <2>2, <2>3, <2>4, <2>5, TreePairFacts
<1> QED
  BY <1>1, <1>2

LEMMA TreeBelowSize ==
    ASSUME NEW m \in Pairs, NEW n \in Pairs, Tree!Below(m) \subseteq Tree!Below(n)
    PROVE  Tree!First(n) <= Tree!First(m) /\ TreeLast(m) <= TreeLast(n) /\ Tree!Size(m) <= Tree!Size(n)
<1>1. /\ Tree!First(m) \in Nat /\ Tree!Size(m) \in Nat
      /\ TreeLast(m) = Tree!First(m) + Tree!Size(m) - 1
      /\ Tree!First(n) \in Nat /\ Tree!Size(n) \in Nat
      /\ TreeLast(n) = Tree!First(n) + Tree!Size(n) - 1
      /\ Tree!Below(n) = Tree!First(n) .. TreeLast(n)
      /\ Tree!First(m) \in Tree!Below(m) /\ TreeLast(m) \in Tree!Below(m)
  BY TreePairFacts
<1>2. /\ Tree!First(m) \in Tree!First(n) .. TreeLast(n)
      /\ TreeLast(m) \in Tree!First(n) .. TreeLast(n)
  BY <1>1
<1> QED
  BY <1>1, <1>2

\* Of two nodes over one thread, one is below a kid of the other.
LEMMA TreeNested ==
    ASSUME NEW m \in Tree!Nodes, NEW n \in Tree!Nodes, NEW t, t \in Tree!Below(m), t \in Tree!Below(n)
    PROVE  \/ m = n
           \/ \E c \in Tree!Kids(n) : Tree!Below(m) \subseteq Tree!Below(c)
           \/ \E c \in Tree!Kids(m) : Tree!Below(n) \subseteq Tree!Below(c)
<1>1. PICK i \in 0 .. TreeN : m \in TreeLevels[i]
  BY TreeLevelFacts
<1>2. PICK j \in 0 .. TreeN : n \in TreeLevels[j]
  BY TreeLevelFacts
<1>3. ASSUME NEW x \in Tree!Nodes, NEW y \in Tree!Nodes, t \in Tree!Below(x), t \in Tree!Below(y),
             NEW a \in 0 .. TreeN, NEW b \in 0 .. TreeN, x \in TreeLevels[a], y \in TreeLevels[b], a < b
      PROVE  \E c \in Tree!Kids(x) : Tree!Below(y) \subseteq Tree!Below(c)
  <2>1. PICK z \in TreeLevels[a] : \E c \in Tree!Kids(z) : Tree!Below(y) \subseteq Tree!Below(c)
    BY <1>3, TreeLevelAbove
  <2>2. z \in Pairs
    BY TreeLevelFacts
  <2>3. t \in Tree!Below(z)
    BY <1>3, <2>1, <2>2, TreeKidFacts
  <2>4. z = x
    BY <1>3, <2>3, TreeLevelDisjoint
  <2> QED
    BY <2>1, <2>4
<1>4. CASE i = j
  BY <1>1, <1>2, <1>4, TreeLevelDisjoint
<1>5. CASE i < j
  BY <1>1, <1>2, <1>3, <1>5
<1>6. CASE j < i
  BY <1>1, <1>2, <1>3, <1>6
<1> QED
  BY <1>4, <1>5, <1>6

\* The nodes over a thread are in order of their sizes.
LEMMA TreeOverFacts ==
    ASSUME NEW t \in Tree!Threads, NEW m \in TreeOver(t), NEW n \in TreeOver(t)
    PROVE  /\ Tree!Size(m) \in Nat /\ Tree!Size(n) \in Nat
           /\ Tree!Size(m) = Tree!Size(n) => m = n
           /\ Tree!Size(m) < Tree!Size(n) => Tree!Kids(n) # {} /\ Tree!Size(m) <= Tree!Size(Tree!KidOn(t, n))
           /\ Tree!Size(m) <= Tree!Size(n) => Tree!Below(m) \subseteq Tree!Below(n)
<1>1. m \in Tree!Nodes /\ n \in Tree!Nodes /\ t \in Tree!Below(m) /\ t \in Tree!Below(n)
  BY DEF TreeOver
<1>2. m \in Pairs /\ n \in Pairs /\ Tree!Size(m) \in Nat /\ Tree!Size(n) \in Nat
  BY <1>1, TreeNodeFacts, TreePairFacts
<1>3. ASSUME NEW x \in Pairs, NEW y \in Pairs, t \in Tree!Below(x),
             \E c \in Tree!Kids(y) : Tree!Below(x) \subseteq Tree!Below(c)
      PROVE  /\ Tree!Size(x) < Tree!Size(y) /\ Tree!Kids(y) # {} /\ Tree!Size(x) <= Tree!Size(Tree!KidOn(t, y))
             /\ Tree!Below(x) \subseteq Tree!Below(y)
  <2>1. PICK c \in Tree!Kids(y) : Tree!Below(x) \subseteq Tree!Below(c)
    BY <1>3
  <2>2. c \in Pairs /\ Tree!Size(c) < Tree!Size(y) /\ Tree!Below(c) \subseteq Tree!Below(y)
    BY <2>1, TreeKidFacts
  <2>3. Tree!Size(x) <= Tree!Size(c)
    BY <2>1, <2>2, TreeBelowSize
  <2>4. t \in Tree!Below(c) /\ t \in Tree!Below(y)
    BY <1>3, <2>1, <2>2
  <2>5. c = Tree!KidOn(t, y)
    BY <2>4, TreeKidOnFacts
  <2>6. Tree!Size(x) \in Nat /\ Tree!Size(c) \in Nat /\ Tree!Size(y) \in Nat
    BY <2>2, TreePairFacts
  <2> QED
    BY <2>1, <2>2, <2>3, <2>5, <2>6
<1>4. CASE m = n
  BY <1>2, <1>4
<1>5. CASE \E c \in Tree!Kids(n) : Tree!Below(m) \subseteq Tree!Below(c)
  <2>1. /\ Tree!Size(m) < Tree!Size(n) /\ Tree!Kids(n) # {}
        /\ Tree!Size(m) <= Tree!Size(Tree!KidOn(t, n))
        /\ Tree!Below(m) \subseteq Tree!Below(n)
    BY <1>1, <1>2, <1>3, <1>5
  <2> QED
    BY <1>2, <2>1
<1>6. CASE \E c \in Tree!Kids(m) : Tree!Below(n) \subseteq Tree!Below(c)
  <2>1. Tree!Size(n) < Tree!Size(m)
    BY <1>1, <1>2, <1>3, <1>6
  <2> QED
    BY <1>2, <2>1
<1> QED
  BY <1>1, <1>4, <1>5, <1>6, TreeNested

\* The root is over all threads.
LEMMA TreeRootOver ==
    ASSUME NEW t \in Tree!Threads
    PROVE  /\ Tree!Root \in TreeOver(t)
           /\ \A n \in TreeOver(t) : Tree!Size(n) <= Tree!Size(Tree!Root)
<1>1. Tree!Root \in TreeOver(t)
  BY TreeNodeFacts, TreeRootFacts DEF TreeOver
<1>2. ASSUME NEW n \in TreeOver(t) PROVE Tree!Size(n) <= Tree!Size(Tree!Root)
  <2>1. n \in Pairs /\ Tree!Below(n) \subseteq Tree!Below(Tree!Root)
    BY TreeNodeFacts, TreeRootFacts DEF TreeOver
  <2> QED
    BY <2>1, TreeBelowSize, TreeRootFacts
<1> QED
  BY <1>1, <1>2

\* The kid of a node over t is the next smaller node over t.
LEMMA TreeKidOver ==
    ASSUME NEW t \in Tree!Threads, NEW n \in TreeOver(t), Tree!Kids(n) # {}
    PROVE  /\ Tree!KidOn(t, n) \in TreeOver(t) /\ Tree!KidOn(t, n) \in Tree!Kids(n)
           /\ Tree!Size(Tree!KidOn(t, n)) < Tree!Size(n)
           /\ \A m \in TreeOver(t) : Tree!Size(m) < Tree!Size(n) <=> Tree!Size(m) <= Tree!Size(Tree!KidOn(t, n))
<1>1. n \in Tree!Nodes /\ n \in Pairs /\ t \in Tree!Below(n)
  BY TreeNodeFacts DEF TreeOver
<1>2. Tree!KidOn(t, n) \in Tree!Kids(n) /\ t \in Tree!Below(Tree!KidOn(t, n))
  BY <1>1, TreeKidOnFacts
<1>3. Tree!KidOn(t, n) \in TreeOver(t) /\ Tree!Size(Tree!KidOn(t, n)) < Tree!Size(n)
  BY <1>1, <1>2, TreeNodeFacts, TreeKidFacts DEF TreeOver
<1>4. ASSUME NEW m \in TreeOver(t) PROVE Tree!Size(m) < Tree!Size(n) <=> Tree!Size(m) <= Tree!Size(Tree!KidOn(t, n))
  <2>1. Tree!Size(m) < Tree!Size(n) => Tree!Size(m) <= Tree!Size(Tree!KidOn(t, n))
    BY TreeOverFacts
  <2>2. Tree!Size(m) \in Nat /\ Tree!Size(n) \in Nat /\ Tree!Size(Tree!KidOn(t, n)) \in Nat
    BY <1>3, TreeOverFacts
  <2> QED
    BY <1>3, <2>1, <2>2
<1> QED
  BY <1>2, <1>3, <1>4

\* The leaf of a thread is the smallest node over it.
LEMMA TreeLeafFacts ==
    ASSUME NEW t \in Tree!Threads
    PROVE  /\ Tree!Leaf(t) \in TreeOver(t) /\ Tree!Kids(Tree!Leaf(t)) = {}
           /\ \A n \in TreeOver(t) : Tree!Size(Tree!Leaf(t)) <= Tree!Size(n) /\ (Tree!Kids(n) = {} => n = Tree!Leaf(t))
<1> DEFINE sizes == {Tree!Size(n) : n \in TreeOver(t)}
<1>1. sizes \in SUBSET Nat
  BY TreeOverFacts
<1>2. sizes # {}
  BY TreeRootOver
<1>3. PICK s \in sizes : \A r \in sizes : s <= r
  <2> HIDE DEF sizes
  <2> QED
    BY <1>1, <1>2, LeastElement
<1>4. PICK l \in TreeOver(t) : s = Tree!Size(l)
  OBVIOUS
<1>5. \A n \in TreeOver(t) : Tree!Size(l) <= Tree!Size(n)
  BY <1>3, <1>4
<1>6. Tree!Kids(l) = {}
  <2> SUFFICES ASSUME Tree!Kids(l) # {} PROVE FALSE
    OBVIOUS
  <2>1. Tree!KidOn(t, l) \in TreeOver(t) /\ Tree!Size(Tree!KidOn(t, l)) < Tree!Size(l)
    BY TreeKidOver
  <2>2. /\ Tree!Size(l) <= Tree!Size(Tree!KidOn(t, l)) /\ Tree!Size(l) \in Nat
        /\ Tree!Size(Tree!KidOn(t, l)) \in Nat
    BY <1>5, <2>1, TreeOverFacts
  <2> QED
    BY <2>1, <2>2
<1>7. ASSUME NEW n \in TreeOver(t), Tree!Kids(n) = {} PROVE n = l
  <2>1. ~ (Tree!Size(l) < Tree!Size(n))
    BY <1>7, TreeOverFacts
  <2>2. Tree!Size(l) <= Tree!Size(n) /\ Tree!Size(l) \in Nat /\ Tree!Size(n) \in Nat
    BY <1>5, TreeOverFacts
  <2>3. Tree!Size(l) = Tree!Size(n)
    BY <2>1, <2>2
  <2> QED
    BY <2>3, TreeOverFacts
<1>8. l \in Tree!Nodes /\ t \in Tree!Below(l)
  BY DEF TreeOver
<1>9. /\ Tree!Leaf(t) \in Tree!Nodes /\ t \in Tree!Below(Tree!Leaf(t))
      /\ Tree!Kids(Tree!Leaf(t)) = {}
  BY <1>6, <1>8 DEF Tree!Leaf
<1>10. Tree!Leaf(t) \in TreeOver(t) /\ Tree!Leaf(t) = l
  BY <1>7, <1>9 DEF TreeOver
<1> QED
  BY <1>5, <1>6, <1>7, <1>10

\* The dad of a node is the next larger node over each of its threads.
LEMMA TreeDadFacts ==
    ASSUME NEW n \in Tree!Nodes, n # Tree!Root
    PROVE  /\ Tree!Dad(n) \in Tree!Nodes /\ n \in Tree!Kids(Tree!Dad(n))
           /\ \A t \in Tree!Below(n) :
                /\ Tree!Dad(n) \in TreeOver(t) /\ Tree!KidOn(t, Tree!Dad(n)) = n
                /\ Tree!Size(n) < Tree!Size(Tree!Dad(n))
                /\ \A m \in TreeOver(t) :
                        Tree!Size(n) < Tree!Size(m) => Tree!Size(Tree!Dad(n)) <= Tree!Size(m)
<1>1. Tree!Dad(n) \in Tree!Nodes /\ n \in Tree!Kids(Tree!Dad(n))
  BY TreeNodeFacts DEF Tree!Dad
<1>2. Tree!Dad(n) \in Pairs
  BY <1>1, TreeNodeFacts
<1>3. ASSUME NEW t \in Tree!Below(n)
      PROVE  /\ Tree!Dad(n) \in TreeOver(t) /\ Tree!KidOn(t, Tree!Dad(n)) = n
             /\ Tree!Size(n) < Tree!Size(Tree!Dad(n))
             /\ \A m \in TreeOver(t) :
                     Tree!Size(n) < Tree!Size(m) => Tree!Size(Tree!Dad(n)) <= Tree!Size(m)
  <2>1. t \in Tree!Threads /\ t \in Tree!Below(Tree!Dad(n))
    BY <1>1, <1>2, TreeNodeFacts, TreeKidFacts
  <2>2. Tree!Dad(n) \in TreeOver(t)
    BY <1>1, <2>1 DEF TreeOver
  <2>3. Tree!KidOn(t, Tree!Dad(n)) = n
    BY <1>1, <1>2, <2>1, TreeKidOnFacts
  <2>4. /\ Tree!Size(n) < Tree!Size(Tree!Dad(n))
        /\ \A m \in TreeOver(t) :
                Tree!Size(m) < Tree!Size(Tree!Dad(n)) <=> Tree!Size(m) <= Tree!Size(n)
    BY <1>1, <2>1, <2>2, <2>3, TreeKidOver
  <2>5. ASSUME NEW m \in TreeOver(t), Tree!Size(n) < Tree!Size(m) PROVE Tree!Size(Tree!Dad(n)) <= Tree!Size(m)
    <3>1. n \in TreeOver(t)
      BY DEF TreeOver
    <3>2. Tree!Size(m) \in Nat /\ Tree!Size(n) \in Nat /\ Tree!Size(Tree!Dad(n)) \in Nat
      BY <2>1, <2>2, <3>1, TreeOverFacts
    <3> QED
      BY <2>4, <2>5, <3>2
  <2> QED
    BY <2>2, <2>3, <2>4, <2>5
<1> QED
  BY <1>1, <1>3

-----------------------------------------------------------------------------
\* The parts of a node
LEMMA TreePartFacts ==
    ASSUME NEW n \in Tree!Nodes
    PROVE  /\ IsFiniteSet(TreeParts(n)) /\ Cardinality(TreeParts(n)) = Tree!arity(n) /\ Tree!arity(n) \in Nat
           /\ \A t \in Tree!Below(n) : TreePartOf(t, n) \in TreeParts(n)
           /\ \A p \in TreeParts(n) : \E t \in Tree!Below(n) : TreePartOf(t, n) = p
           /\ \A t, u \in Tree!Below(n) : TreePartOf(t, n) = TreePartOf(u, n) =>
                t = u \/ (Tree!Kids(n) # {} /\ Tree!KidOn(t, n) = Tree!KidOn(u, n))
<1>1. n \in Pairs
  BY TreeNodeFacts
<1>2. /\ IsFiniteSet(TreeParts(n)) /\ Cardinality(TreeParts(n)) = Tree!arity(n)
      /\ Tree!arity(n) \in Nat
  BY <1>1, TreeNumberOfParts, FS_CardinalityType
<1>3. CASE Tree!Kids(n) = {}
  BY <1>2, <1>3 DEF TreeParts, TreePartOf
<1>4. CASE Tree!Kids(n) # {}
  <2>1. \A t \in Tree!Below(n) : Tree!KidOn(t, n) \in Tree!Kids(n)
    BY <1>1, <1>4, TreeKidOnFacts
  <2>2. ASSUME NEW k \in Tree!Kids(n) PROVE \E t \in Tree!Below(n) : Tree!KidOn(t, n) = k
    <3>1. k \in Pairs /\ Tree!Below(k) \subseteq Tree!Below(n)
      BY <1>1, TreeKidFacts
    <3>2. Tree!First(k) \in Tree!Below(k)
      BY <3>1, TreePairFacts
    <3>3. k = Tree!KidOn(Tree!First(k), n)
      BY <1>1, <1>4, <3>1, <3>2, TreeKidOnFacts
    <3> QED
      BY <3>1, <3>2, <3>3
  <2> QED
    BY <1>2, <1>4, <2>1, <2>2 DEF TreeParts, TreePartOf
<1> QED
  BY <1>3, <1>4

LEMMA TreeOverThreads ==
    ASSUME NEW n \in Tree!Nodes, NEW t \in Tree!Below(n)
    PROVE  t \in Tree!Threads /\ n \in TreeOver(t)
BY TreeNodeFacts DEF TreeOver

\* Threads are at a node until they have finished.
LEMMA TreeNotCleaned ==
    ASSUME TreeIInv, NEW t \in Tree!Threads, tree_pc[t] # "ready" \/ tree_crossed[t] < Crossings
    PROVE  tree_cleaned = 0
BY TreeSizes DEF TreeIInv, TreeTypeInv, TreeCleanInv, Tree!Finished

\* Who holds a node does not wait, so that no other thread holds it.
LEMMA TreeNobodyHolds ==
    ASSUME TreeIInv, NEW t \in Tree!Threads, tree_pc[t] # "spin", NEW u \in Tree!Threads, u # t, NEW n \in TreeOver(t)
    PROVE  ~ TreeHolds(u, n)
BY DEF TreeIInv, TreeHoldInv

-----------------------------------------------------------------------------
LEMMA TreeInitIInv == Tree!Init => TreeIInv
<1> SUFFICES ASSUME Tree!Init PROVE TreeIInv
  OBVIOUS
<1>1. Tree!Init
  OBVIOUS
<1>2. \A n \in Tree!Nodes : Tree!arity(n) \in Nat /\ TreeLast(n) \in Tree!Threads
  BY TreePartFacts, TreeNodeFacts
<1>3. \A t \in Tree!Threads :
        Tree!Leaf(t) \in TreeOver(t) /\ Tree!Leaf(t) \in Tree!Nodes /\ Tree!Kids(Tree!Leaf(t)) = {}
  BY TreeLeafFacts DEF TreeOver
<1>4. \A t \in Tree!Threads : tree_pc[t] = "ready" /\ TreeRound(t) = 0 /\ tree_barack[t] = Tree!Leaf(t)
  BY <1>1 DEF Tree!Init, TreeRound
<1>5. TreeTypeInv
  BY <1>1, <1>2, <1>3, TreeSizes DEF Tree!Init, TreeTypeInv, TreePoints
<1>6. TreePlaceInv
  BY <1>3, <1>4 DEF TreePlaceInv
<1>7. \A n \in Tree!Nodes : tree_generation[n] = 0 /\ tree_count[n] = Tree!arity(n)
  BY <1>1 DEF Tree!Init
<1>8. \A t \in Tree!Threads : \A n : ~ TreeHolds(t, n)
  <2> SUFFICES ASSUME NEW t \in Tree!Threads, NEW n, TreeHolds(t, n) PROVE FALSE
    OBVIOUS
  <2>1. n \in TreeOver(t) /\ Tree!Size(n) < Tree!Size(Tree!Leaf(t))
    BY <1>4 DEF TreeHolds
  <2>2. /\ Tree!Size(Tree!Leaf(t)) <= Tree!Size(n) /\ Tree!Size(n) \in Nat
        /\ Tree!Size(Tree!Leaf(t)) \in Nat
    BY <1>3, <2>1, TreeLeafFacts, TreeOverFacts
  <2> QED
    BY <2>1, <2>2
<1>9. TreeRoundInv
  BY <1>4, <1>7 DEF TreeRoundInv, TreeOver
<1>10. TreeHoldInv
  BY <1>8 DEF TreeHoldInv
<1>11. ASSUME NEW n \in Tree!Nodes PROVE TreeArrived(n) = {} /\ ~ TreeResetting(n)
  <2>1. \A t \in Tree!Below(n) : t \in Tree!Threads
    BY TreeOverThreads
  <2>2. TreeCountedAt(n) = {}
    BY <1>4, <1>8, <2>1 DEF TreeCountedAt
  <2> QED
    BY <1>4, <2>2 DEF TreeArrived, TreeResetting
<1>12. TreeCountInv
  <2>1. Cardinality({}) = 0
    BY FS_EmptySet
  <2>2. ASSUME NEW n \in Tree!Nodes
        PROVE  tree_count[n] = Tree!arity(n) -
                   IF TreeResetting(n) THEN 0 ELSE Cardinality(TreeArrived(n))
    BY <1>2, <1>7, <1>11, <2>1
  <2> QED
    BY <2>2 DEF TreeCountInv
<1>13. TreeCleanInv
  <2>1. \A n \in Tree!Nodes : 0 <= TreeLast(n)
    BY <1>2 DEF Tree!Threads
  <2>2. tree_cleaned = 0 /\ tree_allocated = Tree!Nodes
    BY <1>1 DEF Tree!Init
  <2> QED
    BY <2>1, <2>2 DEF TreeCleanInv
<1> QED
  BY <1>5, <1>6, <1>9, <1>10, <1>12, <1>13 DEF TreeIInv

\* The part of a thread in the count of a node
TreeCounts(t, node) ==
    /\ TreeRound(t) = tree_generation[node]
    /\ TreeHolds(t, node) \/ (tree_barack[t] = node /\ tree_pc[t] = "spin")

LEMMA TreeArrivedByCounts ==
    ASSUME NEW n \in Tree!Nodes
    PROVE  /\ TreeCountedAt(n) = {u \in Tree!Below(n) : TreeCounts(u, n)}
           /\ TreeCountedAt(n)' = {u \in Tree!Below(n) : TreeCounts(u, n)'}
           /\ TreeArrived(n) = {TreePartOf(u, n) : u \in TreeCountedAt(n)}
           /\ TreeArrived(n)' = {TreePartOf(u, n) : u \in TreeCountedAt(n)'}
BY DEF TreeCountedAt, TreeCounts, TreeArrived

\* A node whose threads count as before has as many parts.
LEMMA TreeSameArrived ==
    ASSUME NEW n \in Tree!Nodes, \A u \in Tree!Below(n) : TreeCounts(u, n)' = TreeCounts(u, n)
    PROVE  TreeArrived(n)' = TreeArrived(n)
<1>1. {u \in Tree!Below(n) : TreeCounts(u, n)'} = {u \in Tree!Below(n) : TreeCounts(u, n)}
  OBVIOUS
<1> QED
  BY <1>1, TreeArrivedByCounts

-----------------------------------------------------------------------------
TreeClimbing == {"ready", "load", "count"}
TreeReleasing == {"reset", "toggle"}

\* Steps of a thread that neither climbs nor goes down change nothing about the rounds.
LEMMA TreeQuietStep ==
    ASSUME TreeIInv, NEW t \in Tree!Threads,
           tree_barack' = tree_barack, tree_generation' = tree_generation, tree_pc' \in [Tree!Threads -> TreePoints],
           \A u \in Tree!Threads : TreeRound(u)' = TreeRound(u),
           \A u \in Tree!Threads : u # t => tree_pc'[u] = tree_pc[u],
           \/ tree_pc[t] \in TreeClimbing /\ tree_pc'[t] \in TreeClimbing
           \/ tree_pc[t] \in TreeReleasing /\ tree_pc'[t] \in TreeReleasing
    PROVE  /\ TreeRoundInv' /\ TreeHoldInv'
           /\ \A n \in Tree!Nodes : TreeArrived(n)' = TreeArrived(n)
<1>1. \A u \in Tree!Threads : \A n : TreeHolds(u, n)' = TreeHolds(u, n)
  <2>1. \A u \in Tree!Threads : tree_pc'[u] \in TreeReleasing <=> tree_pc[u] \in TreeReleasing
    BY DEF TreeClimbing, TreeReleasing
  <2> QED
    BY <2>1 DEF TreeHolds, TreeReleasing
<1>2. \A u \in Tree!Threads : tree_pc'[u] = "spin" <=> tree_pc[u] = "spin"
  BY DEF TreeClimbing, TreeReleasing
<1>3. TreeRoundInv'
  <2>1. \A u \in Tree!Threads : /\ tree_pc'[u] \in TreeClimbing <=> tree_pc[u] \in TreeClimbing
                           /\ tree_pc'[u] \in TreeReleasing <=> tree_pc[u] \in TreeReleasing
    BY DEF TreeClimbing, TreeReleasing
  <2>2. TreeRoundInv
    BY DEF TreeIInv
  <2> QED
    BY <1>1, <2>1, <2>2 DEF TreeRoundInv, TreeClimbing, TreeReleasing
<1>4. TreeHoldInv'
  <2>1. TreeHoldInv
    BY DEF TreeIInv
  <2> QED
    BY <1>1, <1>2, <2>1 DEF TreeHoldInv
<1>5. ASSUME NEW n \in Tree!Nodes PROVE TreeArrived(n)' = TreeArrived(n)
  <2>1. \A u \in Tree!Below(n) : TreeCounts(u, n)' = TreeCounts(u, n)
    BY <1>1, <1>2, TreeOverThreads DEF TreeCounts
  <2> QED
    BY <2>1, TreeSameArrived
<1> QED
  BY <1>3, <1>4, <1>5

\* The counts stay right as long as nobody comes to a node and none is reset.
LEMMA TreeSameCount ==
    ASSUME TreeIInv, NEW n \in Tree!Nodes, tree_cleaned = 0, tree_count'[n] = tree_count[n],
           TreeArrived(n)' = TreeArrived(n), TreeResetting(n)' = TreeResetting(n)
    PROVE  tree_count'[n] = Tree!arity(n) -
               IF TreeResetting(n)' THEN 0 ELSE Cardinality(TreeArrived(n)')
BY DEF TreeIInv, TreeCountInv

\* The cleanup has not begun, and does not.
LEMMA TreeSameClean ==
    ASSUME TreeIInv, tree_cleaned = 0, tree_cleaned' = tree_cleaned, tree_allocated' = tree_allocated
    PROVE  TreeCleanInv'
BY DEF TreeIInv, TreeCleanInv

LEMMA TreeCallStep ==
    ASSUME TreeIInv, NEW t \in Tree!Threads, Tree!Call(t)
    PROVE  TreeIInv'
<1> USE DEF Tree!Goto, Tree!shared
<1>1. TreeTypeInv /\ TreePlaceInv
  BY DEF TreeIInv
<1>2. /\ tree_pc[t] = "ready" /\ tree_crossed[t] < Crossings
      /\ IF TreeN = 1 THEN tree_crossed' = [tree_crossed EXCEPT ![t] = tree_crossed[t] + 1] /\ tree_pc' = tree_pc
                  ELSE tree_pc' = [tree_pc EXCEPT ![t] = "load"] /\ tree_crossed' = tree_crossed
      /\ tree_count' = tree_count /\ tree_signal' = tree_signal
      /\ tree_allocated' = tree_allocated /\ tree_cleaned' = tree_cleaned
      /\ tree_generation' = tree_generation /\ tree_barack' = tree_barack
      /\ tree_my_signal' = tree_my_signal
  BY DEF Tree!Call
<1>3. tree_cleaned = 0
  BY <1>2, TreeNotCleaned
<1>4. \A u \in Tree!Threads : TreeRound(u)' = TreeRound(u)
  BY <1>2 DEF TreeRound
<1>5. /\ tree_pc' \in [Tree!Threads -> TreePoints] /\ tree_pc'[t] \in {"ready", "load"}
      /\ TreeN = 1 => tree_pc' = tree_pc
      /\ \A u \in Tree!Threads : u # t => tree_pc'[u] = tree_pc[u]
  BY <1>1, <1>2 DEF TreeTypeInv, TreePoints
<1>6. TreeRoundInv' /\ TreeHoldInv' /\ \A n \in Tree!Nodes : TreeArrived(n)' = TreeArrived(n)
  BY <1>2, <1>4, <1>5, TreeQuietStep DEF TreeClimbing
<1>7. TreeTypeInv'
  <2>1. tree_crossed' \in [Tree!Threads -> 0 .. Crossings]
    BY <1>1, <1>2, TreeSizes DEF TreeTypeInv
  <2> QED
    BY <1>1, <1>2, <1>5, <2>1 DEF TreeTypeInv
<1>8. TreePlaceInv'
  BY <1>1, <1>2, <1>4, <1>5 DEF TreePlaceInv
<1>9. TreeCountInv'
  <2>1. \A n \in Tree!Nodes : TreeResetting(n)' = TreeResetting(n)
    BY <1>2, <1>5 DEF TreeResetting
  <2>2. \A n \in Tree!Nodes :
            tree_count'[n] = Tree!arity(n) - IF TreeResetting(n)' THEN 0 ELSE Cardinality(TreeArrived(n)')
    BY <1>2, <1>3, <1>6, <2>1, TreeSameCount
  <2> QED
    BY <2>2 DEF TreeCountInv
<1>10. TreeCleanInv'
  BY <1>2, <1>3, TreeSameClean
<1> QED
  BY <1>6, <1>7, <1>8, <1>9, <1>10 DEF TreeIInv

LEMMA TreeLoadSignalStep ==
    ASSUME TreeIInv, NEW t \in Tree!Threads, Tree!LoadSignal(t)
    PROVE  TreeIInv'
<1> USE DEF Tree!Goto, Tree!shared
<1>1. TreeTypeInv /\ TreePlaceInv /\ TreeRoundInv
  BY DEF TreeIInv
<1>2. /\ tree_pc[t] = "load" /\ tree_pc' = [tree_pc EXCEPT ![t] = "count"]
      /\ tree_my_signal' = [tree_my_signal EXCEPT ![t] = tree_signal[tree_barack[t]]]
      /\ tree_count' = tree_count /\ tree_signal' = tree_signal
      /\ tree_allocated' = tree_allocated /\ tree_cleaned' = tree_cleaned
      /\ tree_generation' = tree_generation /\ tree_barack' = tree_barack
      /\ tree_crossed' = tree_crossed
  BY DEF Tree!LoadSignal
<1>3. tree_cleaned = 0
  BY <1>2, TreeNotCleaned
<1>4. \A u \in Tree!Threads : TreeRound(u)' = TreeRound(u)
  BY <1>2 DEF TreeRound
<1>5. /\ tree_pc' \in [Tree!Threads -> TreePoints] /\ tree_pc'[t] = "count"
      /\ \A u \in Tree!Threads : u # t => tree_pc'[u] = tree_pc[u]
  BY <1>1, <1>2 DEF TreeTypeInv, TreePoints
<1>6. TreeRoundInv' /\ TreeHoldInv' /\ \A n \in Tree!Nodes : TreeArrived(n)' = TreeArrived(n)
  BY <1>2, <1>4, <1>5, TreeQuietStep DEF TreeClimbing
<1>7. TreeTypeInv'
  <2>1. tree_my_signal' \in [Tree!Threads -> {0, 1}]
    BY <1>1, <1>2 DEF TreeTypeInv
  <2> QED
    BY <1>1, <1>2, <1>5, <2>1 DEF TreeTypeInv
<1>8. TreePlaceInv'
  <2>1. tree_barack[t] \in TreeOver(t) /\ tree_barack[t] \in Tree!Nodes
    BY <1>1 DEF TreePlaceInv, TreeTypeInv
  <2>2. tree_generation[tree_barack[t]] = TreeRound(t)
    BY <1>1, <1>2, <2>1 DEF TreeRoundInv
  <2>3. tree_my_signal'[t] = TreeRound(t) % 2
    BY <1>1, <1>2, <2>1, <2>2 DEF TreeTypeInv
  <2>4. \A u \in Tree!Threads : u # t => tree_my_signal'[u] = tree_my_signal[u]
    BY <1>1, <1>2 DEF TreeTypeInv
  <2>5. TreeN # 1
    BY <1>1, <1>2 DEF TreePlaceInv
  <2> QED
    BY <1>1, <1>2, <1>4, <1>5, <2>3, <2>4, <2>5 DEF TreePlaceInv
<1>9. TreeCountInv'
  <2>1. \A n \in Tree!Nodes : TreeResetting(n)' = TreeResetting(n)
    BY <1>2, <1>5 DEF TreeResetting
  <2>2. \A n \in Tree!Nodes :
            tree_count'[n] = Tree!arity(n) - IF TreeResetting(n)' THEN 0 ELSE Cardinality(TreeArrived(n)')
    BY <1>2, <1>3, <1>6, <2>1, TreeSameCount
  <2> QED
    BY <2>2 DEF TreeCountInv
<1>10. TreeCleanInv'
  BY <1>2, <1>3, TreeSameClean
<1> QED
  BY <1>6, <1>7, <1>8, <1>9, <1>10 DEF TreeIInv

LEMMA TreeResetCountStep ==
    ASSUME TreeIInv, NEW t \in Tree!Threads, Tree!ResetCount(t)
    PROVE  TreeIInv'
<1> USE DEF Tree!Goto
<1>1. TreeTypeInv /\ TreePlaceInv
  BY DEF TreeIInv
<1>2. /\ tree_pc[t] = "reset" /\ tree_pc' = [tree_pc EXCEPT ![t] = "toggle"]
      /\ tree_count' = [tree_count EXCEPT ![tree_barack[t]] = Tree!arity(tree_barack[t])]
      /\ tree_signal' = tree_signal /\ tree_allocated' = tree_allocated
      /\ tree_cleaned' = tree_cleaned
      /\ tree_generation' = tree_generation /\ tree_barack' = tree_barack
      /\ tree_crossed' = tree_crossed
      /\ tree_my_signal' = tree_my_signal
  BY DEF Tree!ResetCount
<1>3. tree_cleaned = 0
  BY <1>2, TreeNotCleaned
<1>4. \A u \in Tree!Threads : TreeRound(u)' = TreeRound(u)
  BY <1>2 DEF TreeRound
<1>5. /\ tree_pc' \in [Tree!Threads -> TreePoints] /\ tree_pc'[t] = "toggle"
      /\ \A u \in Tree!Threads : u # t => tree_pc'[u] = tree_pc[u]
  BY <1>1, <1>2 DEF TreeTypeInv, TreePoints
<1>6. TreeRoundInv' /\ TreeHoldInv' /\ \A n \in Tree!Nodes : TreeArrived(n)' = TreeArrived(n)
  BY <1>2, <1>4, <1>5, TreeQuietStep DEF TreeReleasing
<1>7. tree_barack[t] \in Tree!Nodes /\ Tree!arity(tree_barack[t]) \in Nat
  <2>1. tree_barack[t] \in Tree!Nodes
    BY <1>1 DEF TreeTypeInv
  <2> QED
    BY <2>1, TreePartFacts
<1>8. TreeTypeInv'
  <2>1. tree_count' \in [Tree!Nodes -> Int]
    BY <1>1, <1>2, <1>7 DEF TreeTypeInv
  <2> QED
    BY <1>1, <1>2, <1>5, <2>1 DEF TreeTypeInv
<1>9. TreePlaceInv'
  BY <1>1, <1>2, <1>4, <1>5 DEF TreePlaceInv
<1>10. TreeCountInv'
  <2>1. ASSUME NEW n \in Tree!Nodes, n # tree_barack[t]
        PROVE  tree_count'[n] = Tree!arity(n) -
                   IF TreeResetting(n)' THEN 0 ELSE Cardinality(TreeArrived(n)')
    <3>1. TreeResetting(n)' = TreeResetting(n)
      BY <1>2, <1>5, <2>1 DEF TreeResetting
    <3>2. tree_count'[n] = tree_count[n]
      BY <1>1, <1>2, <2>1 DEF TreeTypeInv
    <3> QED
      BY <1>3, <1>6, <3>1, <3>2, TreeSameCount
  <2>2. ASSUME NEW n \in Tree!Nodes, n = tree_barack[t]
        PROVE  tree_count'[n] = Tree!arity(n) -
                   IF TreeResetting(n)' THEN 0 ELSE Cardinality(TreeArrived(n)')
    <3>1. TreeResetting(n)'
      BY <1>2, <1>5, <2>2 DEF TreeResetting
    <3>2. tree_count'[n] = Tree!arity(n)
      BY <1>1, <1>2, <2>2 DEF TreeTypeInv
    <3> QED
      BY <1>7, <2>2, <3>1, <3>2
  <2> QED
    BY <2>1, <2>2 DEF TreeCountInv
<1>11. TreeCleanInv'
  BY <1>2, <1>3, TreeSameClean
<1> QED
  BY <1>6, <1>8, <1>9, <1>10, <1>11 DEF TreeIInv

-----------------------------------------------------------------------------
\* Who comes last to a node finds all others waiting below it.
LEMMA TreeLastFindsAll ==
    ASSUME TreeIInv, NEW t \in Tree!Threads, tree_pc[t] = "count", tree_count[tree_barack[t]] = 1,
           NEW u \in Tree!Below(tree_barack[t]), u # t
    PROVE  /\ u \in Tree!Threads /\ tree_pc[u] = "spin" /\ Tree!Size(tree_barack[u]) <= Tree!Size(tree_barack[t])
           /\ TreeRound(u) = TreeRound(t)
<1> DEFINE n == tree_barack[t]
<1>1. TreeTypeInv /\ TreePlaceInv /\ TreeRoundInv /\ TreeHoldInv /\ TreeCountInv
  BY DEF TreeIInv
<1>2. n \in Tree!Nodes /\ n \in TreeOver(t) /\ t \in Tree!Below(n)
  BY <1>1 DEF TreeTypeInv, TreePlaceInv, TreeOver
<1>3. tree_cleaned = 0 /\ tree_generation[n] = TreeRound(t)
  BY <1>1, <1>2, TreeNotCleaned DEF TreeRoundInv
<1>4. \A v \in Tree!Threads : v # t => ~ TreeHolds(v, n)
  BY <1>2, TreeNobodyHolds
<1>5. ~ TreeResetting(n)
  BY <1>1, <1>2, <1>4 DEF TreeResetting, TreeHolds, TreePlaceInv
<1>6. Cardinality(TreeArrived(n)) = Tree!arity(n) - 1
  <2>1. tree_count[n] = Tree!arity(n) - Cardinality(TreeArrived(n))
    BY <1>1, <1>2, <1>3, <1>5 DEF TreeCountInv
  <2>2. /\ TreeArrived(n) \subseteq TreeParts(n) /\ IsFiniteSet(TreeParts(n))
        /\ Tree!arity(n) \in Nat
    BY <1>2, TreePartFacts DEF TreeArrived, TreeCountedAt
  <2>3. Cardinality(TreeArrived(n)) \in Nat
    BY <2>2, FS_Subset, FS_CardinalityType
  <2> QED
    BY <2>1, <2>2, <2>3
<1>7. \A v \in TreeCountedAt(n) :
        /\ v \in Tree!Threads /\ v \in Tree!Below(n) /\ v # t /\ tree_barack[v] = n
        /\ tree_pc[v] = "spin" /\ TreeRound(v) = TreeRound(t)
        /\ TreePartOf(v, n) # TreePartOf(t, n)
  <2> SUFFICES ASSUME NEW v \in TreeCountedAt(n)
               PROVE  /\ v \in Tree!Threads /\ v \in Tree!Below(n) /\ v # t /\ tree_barack[v] = n
                      /\ tree_pc[v] = "spin" /\ TreeRound(v) = TreeRound(t)
                      /\ TreePartOf(v, n) # TreePartOf(t, n)
    OBVIOUS
  <2>1. v \in Tree!Threads /\ v \in Tree!Below(n) /\ n \in TreeOver(v)
    BY <1>2, TreeOverThreads DEF TreeCountedAt
  <2>2. ~ TreeHolds(t, n)
    <3>1. Tree!Size(n) \in Nat
      BY <1>2, TreeOverFacts
    <3> QED
      BY <3>1 DEF TreeHolds
  <2>3. v # t
    BY <2>2 DEF TreeCountedAt
  <2>4. tree_barack[v] = n /\ tree_pc[v] = "spin" /\ TreeRound(v) = TreeRound(t)
    BY <1>3, <1>4, <2>1, <2>3 DEF TreeCountedAt
  <2>5. SUFFICES ASSUME TreePartOf(v, n) = TreePartOf(t, n) PROVE FALSE
    BY <2>1, <2>3, <2>4
  <2>6. Tree!Kids(n) # {} /\ Tree!KidOn(v, n) = Tree!KidOn(t, n)
    BY <1>2, <2>1, <2>3, <2>5, TreePartFacts
  <2>7. /\ Tree!KidOn(t, n) \in TreeOver(t) /\ Tree!KidOn(t, n) \in TreeOver(v)
        /\ Tree!Size(Tree!KidOn(t, n)) < Tree!Size(n)
    BY <1>2, <2>1, <2>6, TreeKidOver
  <2>8. TreeHolds(v, Tree!KidOn(t, n))
    BY <2>4, <2>7 DEF TreeHolds
  <2> QED
    BY <2>1, <2>3, <2>7, <2>8, TreeNobodyHolds
<1>8. TreeArrived(n) = TreeParts(n) \ {TreePartOf(t, n)}
  <2> DEFINE rest == TreeParts(n) \ {TreePartOf(t, n)}
  <2>1. TreeArrived(n) \subseteq rest
    BY <1>2, <1>7, TreePartFacts DEF TreeArrived
  <2>2. /\ IsFiniteSet(TreeParts(n)) /\ Cardinality(TreeParts(n)) = Tree!arity(n)
        /\ TreePartOf(t, n) \in TreeParts(n)
    BY <1>2, TreePartFacts
  <2>3. IsFiniteSet(rest) /\ Cardinality(rest) = Tree!arity(n) - 1
    BY <2>2, FS_RemoveElement
  <2> HIDE DEF rest
  <2>4. TreeArrived(n) = rest
    BY <1>6, <2>1, <2>3, FS_Subset
  <2> QED
    BY <2>4 DEF rest
<1>9. u \in Tree!Threads /\ n \in TreeOver(u) /\ TreePartOf(u, n) \in TreeParts(n)
  BY <1>2, TreeOverThreads, TreePartFacts
<1>10. CASE TreePartOf(u, n) = TreePartOf(t, n)
  <2>1. Tree!Kids(n) # {} /\ Tree!KidOn(u, n) = Tree!KidOn(t, n)
    BY <1>2, <1>10, TreePartFacts
  <2>2. /\ Tree!KidOn(t, n) \in TreeOver(t) /\ Tree!KidOn(t, n) \in TreeOver(u)
        /\ Tree!Size(Tree!KidOn(t, n)) < Tree!Size(n)
    BY <1>2, <1>9, <2>1, TreeKidOver
  <2>3. TreeHolds(t, Tree!KidOn(t, n))
    BY <2>2 DEF TreeHolds
  <2>4. /\ tree_pc[u] = "spin" /\ Tree!Size(tree_barack[u]) <= Tree!Size(Tree!KidOn(t, n))
        /\ TreeRound(u) = TreeRound(t)
    BY <1>1, <1>9, <2>2, <2>3 DEF TreeHoldInv
  <2>5. /\ Tree!Size(n) \in Nat /\ Tree!Size(Tree!KidOn(t, n)) \in Nat
        /\ Tree!Size(tree_barack[u]) \in Nat
    BY <1>1, <1>2, <1>9, <2>2, TreeOverFacts DEF TreePlaceInv
  <2> QED
    BY <1>9, <2>2, <2>4, <2>5
<1>11. CASE TreePartOf(u, n) # TreePartOf(t, n)
  <2>1. PICK v \in TreeCountedAt(n) : TreePartOf(u, n) = TreePartOf(v, n)
    BY <1>8, <1>9, <1>11 DEF TreeArrived
  <2>2. /\ v \in Tree!Threads /\ v \in Tree!Below(n) /\ tree_barack[v] = n
        /\ tree_pc[v] = "spin" /\ TreeRound(v) = TreeRound(t)
    BY <1>7
  <2>3. CASE u = v
    <3>1. Tree!Size(n) \in Nat
      BY <1>2, TreeOverFacts
    <3> QED
      BY <1>9, <2>2, <2>3, <3>1
  <2>4. CASE u # v
    <3>1. Tree!Kids(n) # {} /\ Tree!KidOn(u, n) = Tree!KidOn(v, n)
      BY <1>2, <2>1, <2>2, <2>4, TreePartFacts
    <3>2. n \in TreeOver(v)
      BY <1>2, <2>2, TreeOverThreads
    <3>3. /\ Tree!KidOn(v, n) \in TreeOver(v) /\ Tree!KidOn(v, n) \in TreeOver(u)
          /\ Tree!Size(Tree!KidOn(v, n)) < Tree!Size(n)
      BY <1>9, <2>2, <3>1, <3>2, TreeKidOver
    <3>4. TreeHolds(v, Tree!KidOn(v, n))
      BY <2>2, <3>3 DEF TreeHolds
    <3>5. /\ tree_pc[u] = "spin" /\ Tree!Size(tree_barack[u]) <= Tree!Size(Tree!KidOn(v, n))
          /\ TreeRound(u) = TreeRound(v)
      BY <1>1, <1>9, <2>2, <2>4, <3>3, <3>4 DEF TreeHoldInv
    <3>6. /\ Tree!Size(n) \in Nat /\ Tree!Size(Tree!KidOn(v, n)) \in Nat
          /\ Tree!Size(tree_barack[u]) \in Nat
      BY <1>1, <1>9, <2>2, <3>2, <3>3, TreeOverFacts DEF TreePlaceInv
    <3> QED
      BY <1>9, <2>2, <3>3, <3>5, <3>6
  <2> QED
    BY <2>3, <2>4
<1> QED
  BY <1>10, <1>11

LEMMA TreeCountDownStep ==
    ASSUME TreeIInv, NEW t \in Tree!Threads, Tree!CountDown(t)
    PROVE  TreeIInv'
<1>0. PICK n \in Tree!Nodes : n = tree_barack[t]
  BY DEF TreeIInv, TreeTypeInv
<1> USE <1>0
<1> DEFINE last == tree_count[n] = 1
<1>1. TreeTypeInv /\ TreePlaceInv /\ TreeRoundInv /\ TreeHoldInv /\ TreeCountInv
  BY DEF TreeIInv
<1>2. /\ tree_pc[t] = "count"
      /\ tree_count' = [tree_count EXCEPT ![n] = tree_count[n] - 1]
      /\ tree_pc' = [tree_pc EXCEPT ![t] = IF ~last THEN "spin" ELSE IF n = Tree!Root THEN "reset" ELSE "load"]
      /\ tree_barack' = IF last /\ n # Tree!Root THEN [tree_barack EXCEPT ![t] = Tree!Dad(n)] ELSE tree_barack
      /\ tree_signal' = tree_signal /\ tree_allocated' = tree_allocated
      /\ tree_cleaned' = tree_cleaned
      /\ tree_generation' = tree_generation /\ tree_my_signal' = tree_my_signal
      /\ tree_crossed' = tree_crossed
  BY DEF Tree!CountDown, Tree!Goto
<1>3. /\ n \in Tree!Nodes /\ n \in TreeOver(t) /\ t \in Tree!Below(n)
      /\ tree_generation[n] = TreeRound(t)
  BY <1>1, <1>2 DEF TreeTypeInv, TreePlaceInv, TreeRoundInv, TreeOver
<1>4. tree_cleaned = 0 /\ tree_cleaned' = 0
  BY <1>2, TreeNotCleaned
<1>5. \A u \in Tree!Threads : TreeRound(u)' = TreeRound(u)
  BY <1>2 DEF TreeRound
<1>6. \A u \in Tree!Threads : u # t => tree_pc'[u] = tree_pc[u] /\ tree_barack'[u] = tree_barack[u]
  BY <1>1, <1>2 DEF TreeTypeInv
<1>7. last /\ n # Tree!Root =>
        /\ Tree!Dad(n) \in Tree!Nodes /\ Tree!Dad(n) \in TreeOver(t)
        /\ Tree!Size(n) < Tree!Size(Tree!Dad(n))
        /\ \A m \in TreeOver(t) :
                Tree!Size(n) < Tree!Size(m) => Tree!Size(Tree!Dad(n)) <= Tree!Size(m)
  BY <1>3, TreeDadFacts
<1>8. /\ ~last => tree_pc'[t] = "spin" /\ tree_barack'[t] = n
      /\ last /\ n = Tree!Root => tree_pc'[t] = "reset" /\ tree_barack'[t] = n
      /\ last /\ n # Tree!Root => tree_pc'[t] = "load" /\ tree_barack'[t] = Tree!Dad(n)
  BY <1>1, <1>2 DEF TreeTypeInv
<1>9. /\ tree_pc' \in [Tree!Threads -> TreePoints]
      /\ tree_barack' \in [Tree!Threads -> Tree!Nodes]
      /\ tree_barack'[t] \in TreeOver(t)
  BY <1>1, <1>2, <1>3, <1>7, <1>8 DEF TreeTypeInv, TreePoints
<1>10. \A m \in TreeOver(t) : Tree!Size(m) \in Nat
  BY TreeOverFacts
<1>11. \A m \in TreeOver(t) : TreeHolds(t, m) <=> Tree!Size(m) < Tree!Size(n)
  BY <1>2 DEF TreeHolds
<1>12. \A m \in TreeOver(t) : TreeHolds(t, m)' <=> Tree!Size(m) < Tree!Size(n) \/ (last /\ m = n)
  <2> SUFFICES ASSUME NEW m \in TreeOver(t)
               PROVE  TreeHolds(t, m)' <=> Tree!Size(m) < Tree!Size(n) \/ (last /\ m = n)
    OBVIOUS
  <2>1. TreeHolds(t, m)' <=>
            \/ Tree!Size(m) < Tree!Size(tree_barack'[t])
            \/ m = tree_barack'[t] /\ tree_pc'[t] \in {"reset", "toggle"}
    BY DEF TreeHolds
  <2>2. CASE ~last
    BY <1>8, <2>1, <2>2
  <2>3. CASE last /\ n = Tree!Root
    BY <1>8, <2>1, <2>3
  <2>4. CASE last /\ n # Tree!Root
    <3>1. TreeHolds(t, m)' <=> Tree!Size(m) < Tree!Size(Tree!Dad(n))
      BY <1>8, <2>1, <2>4
    <3>2. Tree!Size(n) < Tree!Size(m) => Tree!Size(Tree!Dad(n)) <= Tree!Size(m)
      BY <1>7, <2>4
    <3>3. /\ Tree!Size(n) < Tree!Size(Tree!Dad(n)) /\ Tree!Size(Tree!Dad(n)) \in Nat
          /\ Tree!Size(m) \in Nat /\ Tree!Size(n) \in Nat
      BY <1>3, <1>7, <1>10, <2>4
    <3>4. Tree!Size(m) = Tree!Size(n) <=> m = n
      BY <1>3, TreeOverFacts
    <3> QED
      BY <2>4, <3>1, <3>2, <3>3, <3>4
  <2> QED
    BY <2>2, <2>3, <2>4
<1>13. \A u \in Tree!Threads : u # t => \A m : TreeHolds(u, m)' = TreeHolds(u, m)
  BY <1>6 DEF TreeHolds
<1>14. \A u \in Tree!Threads : u # t => \A m \in TreeOver(t) : ~ TreeHolds(u, m)
  BY <1>2, TreeNobodyHolds
<1>15. TreeTypeInv'
  <2>1. tree_count' \in [Tree!Nodes -> Int]
    BY <1>1, <1>2, <1>3 DEF TreeTypeInv
  <2> QED
    BY <1>1, <1>2, <1>9, <2>1 DEF TreeTypeInv
<1>16. TreePlaceInv'
  <2>1. TreeN # 1 /\ tree_my_signal[t] = TreeRound(t) % 2
    BY <1>1, <1>2 DEF TreePlaceInv
  <2>2. tree_pc'[t] # "ready"
    BY <1>8
  <2> QED
    BY <1>1, <1>2, <1>5, <1>6, <1>9, <2>1, <2>2 DEF TreePlaceInv
<1>17. TreeRoundInv'
  <2> SUFFICES ASSUME NEW u \in Tree!Threads, NEW m \in TreeOver(u)
               PROVE  /\ tree_generation[m] \in {TreeRound(u), TreeRound(u) + 1}
                      /\ TreeHolds(u, m)' \/ tree_pc'[u] \in {"ready", "load", "count"}
                            => tree_generation[m] = TreeRound(u)
                      /\ tree_pc'[u] \in {"reset", "toggle"} /\ Tree!Size(tree_barack'[u]) < Tree!Size(m)
                            => tree_generation[m] = TreeRound(u) + 1
                      /\ \A k \in TreeOver(u) :
                              Tree!Size(k) <= Tree!Size(m) => tree_generation[k] <= tree_generation[m]
    BY <1>2, <1>5 DEF TreeRoundInv
  <2>1. CASE u # t
    BY <1>1, <1>6, <1>13, <2>1 DEF TreeRoundInv
  <2>2. CASE u = t
    <3>1. /\ tree_generation[m] = TreeRound(u)
          /\ \A k \in TreeOver(u) :
                Tree!Size(k) <= Tree!Size(m) => tree_generation[k] <= tree_generation[m]
      BY <1>1, <1>2, <2>2 DEF TreeRoundInv
    <3>2. tree_pc'[u] \in {"reset", "toggle"} => ~ (Tree!Size(tree_barack'[u]) < Tree!Size(m))
      <4>1. SUFFICES ASSUME tree_pc'[u] \in {"reset", "toggle"} PROVE ~ (Tree!Size(tree_barack'[u]) < Tree!Size(m))
        OBVIOUS
      <4>2. tree_barack'[u] = Tree!Root
        BY <1>8, <2>2, <4>1
      <4>3. /\ Tree!Size(m) <= Tree!Size(Tree!Root) /\ Tree!Size(m) \in Nat
            /\ Tree!Size(Tree!Root) \in Nat
        BY TreeRootOver, TreeOverFacts
      <4> QED
        BY <4>2, <4>3
    <3> QED
      BY <3>1, <3>2
  <2> QED
    BY <2>1, <2>2
<1>18. TreeHoldInv'
  <2> SUFFICES ASSUME NEW v \in Tree!Threads, NEW u \in Tree!Threads, NEW m \in TreeOver(u), TreeHolds(v, m)', v # u
               PROVE  tree_pc'[u] = "spin" /\ Tree!Size(tree_barack'[u]) <= Tree!Size(m) /\ TreeRound(u) = TreeRound(v)
    BY <1>5 DEF TreeHoldInv
  <2>1. CASE v # t
    <3>1. TreeHolds(v, m)
      BY <1>13, <2>1
    <3>2. u # t
      BY <1>14, <2>1, <3>1
    <3> QED
      BY <1>1, <1>6, <3>1, <3>2 DEF TreeHoldInv
  <2>2. CASE v = t
    <3>1. m \in TreeOver(t)
      BY <2>2 DEF TreeHolds
    <3>2. TreeHolds(t, m) \/ (last /\ m = n)
      BY <1>11, <1>12, <2>2, <3>1
    <3>3. CASE TreeHolds(t, m)
      BY <1>1, <1>6, <2>2, <3>3 DEF TreeHoldInv
    <3>4. CASE last /\ m = n
      <4>1. u \in Tree!Below(tree_barack[t])
        BY <3>4 DEF TreeOver
      <4> QED
        BY <1>2, <1>6, <2>2, <3>4, <4>1, TreeLastFindsAll
    <3> QED
      BY <3>2, <3>3, <3>4
  <2> QED
    BY <2>1, <2>2
<1>19. TreeCountInv'
  <2>1. ASSUME NEW m \in Tree!Nodes, m # n
        PROVE  tree_count'[m] = Tree!arity(m) -
                   IF TreeResetting(m)' THEN 0 ELSE Cardinality(TreeArrived(m)')
    <3>1. ASSUME NEW u \in Tree!Below(m) PROVE TreeCounts(u, m)' = TreeCounts(u, m)
      <4>1. u \in Tree!Threads /\ m \in TreeOver(u)
        BY TreeOverThreads
      <4>2. CASE u # t
        BY <1>2, <1>5, <1>6, <1>13, <4>1, <4>2 DEF TreeCounts
      <4>3. CASE u = t
        <5>1. TreeCounts(u, m) <=> TreeRound(t) = tree_generation[m] /\ Tree!Size(m) < Tree!Size(n)
          BY <1>2, <1>11, <4>1, <4>3 DEF TreeCounts
        <5>2. ~ (tree_barack'[t] = m /\ tree_pc'[t] = "spin")
          BY <1>8, <2>1
        <5>3. TreeCounts(u, m)' <=> TreeRound(t) = tree_generation[m] /\ Tree!Size(m) < Tree!Size(n)
          BY <1>2, <1>5, <1>12, <2>1, <4>1, <4>3, <5>2 DEF TreeCounts
        <5>4. TreeCounts(u, m)' \in BOOLEAN /\ TreeCounts(u, m) \in BOOLEAN
          BY DEF TreeCounts
        <5> QED
          BY <5>1, <5>3, <5>4
      <4> QED
        BY <4>2, <4>3
    <3>2. TreeArrived(m)' = TreeArrived(m)
      BY <3>1, TreeSameArrived
    <3>3. TreeResetting(m)' = TreeResetting(m)
      <4>1. tree_pc[t] # "toggle" /\ tree_pc'[t] # "toggle"
        BY <1>2, <1>8
      <4> QED
        BY <1>6, <4>1 DEF TreeResetting
    <3>4. tree_count'[m] = tree_count[m]
      BY <1>1, <1>2, <2>1 DEF TreeTypeInv
    <3> QED
      BY <1>4, <3>2, <3>3, <3>4, TreeSameCount
  <2>2. tree_count'[n] = Tree!arity(n) - IF TreeResetting(n)' THEN 0 ELSE Cardinality(TreeArrived(n)')
    <3>1. ~ TreeResetting(n) /\ ~ TreeResetting(n)'
      <4>1. tree_pc[t] # "toggle" /\ tree_pc'[t] # "toggle"
        BY <1>2, <1>8
      <4>2. \A u \in Tree!Threads : u # t /\ tree_barack[u] = n => tree_pc[u] # "toggle"
        BY <1>1, <1>3, <1>14 DEF TreeHolds, TreePlaceInv
      <4> QED
        BY <1>6, <4>1, <4>2 DEF TreeResetting
    <3>2. TreeCounts(t, n)' /\ ~ TreeCounts(t, n)
      <4>1. ~ TreeHolds(t, n)
        BY <1>3, <1>10, <1>11
      <4>2. TreeHolds(t, n)' \/ (tree_barack'[t] = n /\ tree_pc'[t] = "spin")
        BY <1>3, <1>8, <1>12
      <4> QED
        BY <1>2, <1>3, <1>5, <4>1, <4>2 DEF TreeCounts
    <3>3. \A u \in Tree!Below(n) : u # t => TreeCounts(u, n)' = TreeCounts(u, n)
      BY <1>2, <1>3, <1>5, <1>6, <1>13, TreeOverThreads DEF TreeCounts
    <3>4. TreeCountedAt(n)' = TreeCountedAt(n) \cup {t}
      BY <1>3, <3>2, <3>3, TreeArrivedByCounts
    <3>5. TreeArrived(n)' = TreeArrived(n) \cup {TreePartOf(t, n)}
      BY <1>3, <3>4, TreeArrivedByCounts
    <3>6. TreePartOf(t, n) \notin TreeArrived(n)
      <4>1. SUFFICES ASSUME NEW u \in TreeCountedAt(n), TreePartOf(u, n) = TreePartOf(t, n) PROVE FALSE
        BY <1>3, TreeArrivedByCounts
      <4>2. u \in Tree!Below(n) /\ TreeCounts(u, n) /\ u # t
        BY <1>3, <3>2, TreeArrivedByCounts
      <4>3. u \in Tree!Threads /\ n \in TreeOver(u)
        BY <1>3, <4>2, TreeOverThreads
      <4>4. tree_barack[u] = n /\ tree_pc[u] = "spin"
        BY <1>3, <1>14, <4>2, <4>3 DEF TreeCounts
      <4>5. Tree!Kids(n) # {} /\ Tree!KidOn(u, n) = Tree!KidOn(t, n)
        BY <1>3, <4>1, <4>2, TreePartFacts
      <4>6. /\ Tree!KidOn(t, n) \in TreeOver(t) /\ Tree!KidOn(t, n) \in TreeOver(u)
            /\ Tree!Size(Tree!KidOn(t, n)) < Tree!Size(n)
        BY <1>3, <4>3, <4>5, TreeKidOver
      <4>7. TreeHolds(u, Tree!KidOn(t, n))
        BY <4>4, <4>6 DEF TreeHolds
      <4> QED
        BY <1>14, <4>2, <4>3, <4>6, <4>7
    <3>7. IsFiniteSet(TreeArrived(n)) /\ Cardinality(TreeArrived(n)) \in Nat
      <4>1. TreeArrived(n) \subseteq TreeParts(n) /\ IsFiniteSet(TreeParts(n))
        BY <1>3, TreePartFacts DEF TreeArrived, TreeCountedAt
      <4> QED
        BY <4>1, FS_Subset, FS_CardinalityType
    <3>8. Cardinality(TreeArrived(n)') = Cardinality(TreeArrived(n)) + 1
      BY <3>5, <3>6, <3>7, FS_AddElement
    <3>9. tree_count[n] = Tree!arity(n) - Cardinality(TreeArrived(n)) /\ Tree!arity(n) \in Nat
      BY <1>1, <1>3, <1>4, <3>1, TreePartFacts DEF TreeCountInv
    <3>10. tree_count'[n] = tree_count[n] - 1
      BY <1>1, <1>2, <1>3 DEF TreeTypeInv
    <3> QED
      BY <3>1, <3>7, <3>8, <3>9, <3>10
  <2> QED
    BY <2>1, <2>2 DEF TreeCountInv
<1>20. TreeCleanInv'
  BY <1>2, <1>4, TreeSameClean
<1> QED
  BY <1>15, <1>16, <1>17, <1>18, <1>19, <1>20 DEF TreeIInv

-----------------------------------------------------------------------------
\* A thread returns from node n: the node is released, or has been, and so are those
\* above it, but not those below it.
LEMMA TreeReturnStep ==
    ASSUME TreeIInv, NEW t \in Tree!Threads, NEW n \in Tree!Nodes, n = tree_barack[t],
           tree_pc[t] \in {"spin", "reset", "toggle"}, Tree!Return(t),
           tree_count' = tree_count, tree_my_signal' = tree_my_signal,
           tree_cleaned' = tree_cleaned, tree_allocated' = tree_allocated,
           tree_generation' \in [Tree!Nodes -> Nat],
           \A m \in Tree!Nodes : m # n => tree_generation'[m] = tree_generation[m],
           \A m \in TreeOver(t) : tree_generation'[m] =
                IF Tree!Size(m) < Tree!Size(n) THEN TreeRound(t) ELSE TreeRound(t) + 1,
           \A m \in TreeOver(t) :
               Tree!Size(m) < Tree!Size(n) => tree_generation[m] = TreeRound(t),
           \A u \in Tree!Threads : u # t => \A m \in TreeOver(t) : ~ TreeHolds(u, m)
    PROVE  /\ tree_crossed' \in [Tree!Threads -> 0 .. Crossings]
           /\ tree_barack' \in [Tree!Threads -> Tree!Nodes]
           /\ tree_pc' \in [Tree!Threads -> TreePoints]
           /\ \A u \in Tree!Threads : u # t =>
                /\ tree_pc'[u] = tree_pc[u] /\ tree_barack'[u] = tree_barack[u]
                /\ TreeRound(u)' = TreeRound(u)
                /\ tree_crossed'[u] = tree_crossed[u]
           /\ tree_crossed'[t] = tree_crossed[t] \/ tree_crossed'[t] = tree_crossed[t] + 1
           /\ tree_pc'[t] \in {"ready", "reset"}
           /\ \A m \in TreeOver(t) : ~ TreeHolds(t, m)' \/ Tree!Size(m) < Tree!Size(n)
           /\ TreeRound(t)' = TreeRound(t) + 1 => tree_pc'[t] = "ready"
           /\ TreePlaceInv'
           /\ \A m \in TreeOver(t) :
                /\ tree_generation'[m] \in {TreeRound(t)', TreeRound(t)' + 1}
                /\ TreeHolds(t, m)' \/ tree_pc'[t] \in {"ready", "load", "count"}
                     => tree_generation'[m] = TreeRound(t)'
                /\ tree_pc'[t] \in {"reset", "toggle"} /\ Tree!Size(tree_barack'[t]) < Tree!Size(m)
                     => tree_generation'[m] = TreeRound(t)' + 1
                /\ \A k \in TreeOver(t) :
                        Tree!Size(k) <= Tree!Size(m) => tree_generation'[k] <= tree_generation'[m]
           /\ TreeHoldInv'
           /\ \A m \in Tree!Nodes : m # n => TreeArrived(m)' = TreeArrived(m)
<1>1. TreeTypeInv /\ TreePlaceInv /\ TreeRoundInv /\ TreeHoldInv
  BY DEF TreeIInv
<1>2. n \in TreeOver(t) /\ TreeN # 1 /\ t \in Tree!Below(n) /\ n \in Pairs
  BY <1>1, TreeNodeFacts DEF TreePlaceInv, TreeOver
<1>3. \A m \in TreeOver(t) : Tree!Size(m) \in Nat
  BY TreeOverFacts
<1>4. TreeRound(t) = tree_crossed[t] /\ TreeRound(t) \in Nat
  BY <1>1, <1>2 DEF TreeRound, TreeTypeInv
<1>5. \A m \in TreeOver(t) : Tree!Size(m) = Tree!Size(n) => m = n
  BY <1>2, TreeOverFacts
<1>6. \A m \in TreeOver(t) : Tree!Size(m) < Tree!Size(n) => TreeHolds(t, m)
  BY DEF TreeHolds
<1>7. \/ /\ Tree!Kids(n) = {}
         /\ tree_crossed' = [tree_crossed EXCEPT ![t] = tree_crossed[t] + 1]
         /\ tree_pc' = [tree_pc EXCEPT ![t] = "ready"]
         /\ tree_barack' = tree_barack
      \/ /\ Tree!Kids(n) # {}
         /\ tree_barack' = [tree_barack EXCEPT ![t] = Tree!KidOn(t, n)]
         /\ tree_pc' = [tree_pc EXCEPT ![t] = "reset"]
         /\ tree_crossed' = tree_crossed
  BY DEF Tree!Return, Tree!Goto
<1>8. Tree!Kids(n) # {} =>
        /\ Tree!KidOn(t, n) \in TreeOver(t) /\ Tree!KidOn(t, n) \in Tree!Nodes
        /\ \A m \in TreeOver(t) : Tree!Size(m) < Tree!Size(n) <=> Tree!Size(m) <= Tree!Size(Tree!KidOn(t, n))
  BY <1>2, TreeKidOver DEF TreeOver
<1>9. /\ tree_crossed' \in [Tree!Threads -> 0 .. Crossings]
      /\ tree_barack' \in [Tree!Threads -> Tree!Nodes]
      /\ tree_pc' \in [Tree!Threads -> TreePoints]
      /\ tree_crossed'[t] = tree_crossed[t] \/ tree_crossed'[t] = tree_crossed[t] + 1
      /\ tree_pc'[t] \in {"ready", "reset"}
      /\ tree_barack'[t] \in TreeOver(t)
  <2>1. /\ tree_crossed \in [Tree!Threads -> 0 .. Crossings]
        /\ tree_crossed[t] + 1 \in 0 .. Crossings
        /\ tree_pc \in [Tree!Threads -> TreePoints]
        /\ tree_barack \in [Tree!Threads -> Tree!Nodes]
    BY <1>1, TreeSizes DEF TreeTypeInv, TreePlaceInv
  <2>2. "ready" \in TreePoints /\ "reset" \in TreePoints
    BY DEF TreePoints
  <2> QED
    BY <1>2, <1>7, <1>8, <2>1, <2>2
<1>10. \A u \in Tree!Threads : u # t =>
        /\ tree_pc'[u] = tree_pc[u] /\ tree_barack'[u] = tree_barack[u]
        /\ TreeRound(u)' = TreeRound(u) /\ tree_crossed'[u] = tree_crossed[u]
  BY <1>1, <1>7 DEF TreeRound, TreeTypeInv
<1>11. CASE Tree!Kids(n) = {}
  <2>1. tree_pc'[t] = "ready" /\ tree_barack'[t] = n /\ TreeRound(t)' = TreeRound(t) + 1
    BY <1>1, <1>2, <1>7, <1>11 DEF TreeTypeInv, TreeRound
  <2>2. \A m \in TreeOver(t) : ~ (Tree!Size(m) < Tree!Size(n))
    BY <1>11, <1>2, <1>3, TreeLeafFacts
  <2>3. \A m : ~ TreeHolds(t, m)'
    BY <2>1, <2>2 DEF TreeHolds
  <2>4. \A m \in TreeOver(t) : tree_generation'[m] = TreeRound(t)'
    BY <2>1, <2>2
  <2>5. TreePlaceInv'
    BY <1>1, <1>2, <1>9, <1>10, <1>11, <2>1 DEF TreePlaceInv
  <2>6. TreeHoldInv'
    <3> SUFFICES ASSUME NEW v \in Tree!Threads, NEW u \in Tree!Threads, NEW m \in TreeOver(u),
                        TreeHolds(v, m)', v # u
                 PROVE  tree_pc'[u] = "spin" /\ Tree!Size(tree_barack'[u]) <= Tree!Size(m) /\ TreeRound(u)' = TreeRound(v)'
      BY DEF TreeHoldInv
    <3>1. v # t /\ TreeHolds(v, m)
      BY <1>10, <2>3 DEF TreeHolds
    <3>2. u # t
      BY <3>1
    <3> QED
      BY <1>1, <1>10, <3>1, <3>2 DEF TreeHoldInv
  <2>7. ASSUME NEW m \in Tree!Nodes, m # n PROVE TreeArrived(m)' = TreeArrived(m)
    <3>1. ASSUME NEW u \in Tree!Below(m) PROVE TreeCounts(u, m)' = TreeCounts(u, m)
      <4>1. u \in Tree!Threads /\ m \in TreeOver(u)
        BY TreeOverThreads
      <4>2. tree_generation'[m] = tree_generation[m]
        BY <2>7
      <4>3. CASE u # t
        BY <1>10, <4>1, <4>2, <4>3 DEF TreeCounts, TreeHolds
      <4>4. CASE u = t
        <5>1. Tree!Size(n) < Tree!Size(m)
          BY <1>2, <1>3, <1>5, <2>2, <2>7, <4>1, <4>4
        <5>2. Tree!Size(m) \in Nat /\ Tree!Size(n) \in Nat
          BY <1>2, <1>3, <4>1, <4>4
        <5>3. ~ TreeCounts(u, m)
          BY <2>7, <4>4, <5>1, <5>2 DEF TreeCounts, TreeHolds
        <5>4. ~ TreeCounts(u, m)'
          BY <2>1, <2>3, <4>4 DEF TreeCounts
        <5>5. TreeCounts(u, m)' \in BOOLEAN /\ TreeCounts(u, m) \in BOOLEAN
          BY DEF TreeCounts
        <5> QED
          BY <5>3, <5>4, <5>5
      <4> QED
        BY <4>3, <4>4
    <3> QED
      BY <3>1, TreeSameArrived
  <2>8. \A m \in TreeOver(t) : \A k \in TreeOver(t) : tree_generation'[k] <= tree_generation'[m]
    BY <1>4, <2>1, <2>4
  <2>9. \A m \in TreeOver(t) :
          /\ tree_generation'[m] \in {TreeRound(t)', TreeRound(t)' + 1}
          /\ TreeHolds(t, m)' \/ tree_pc'[t] \in {"ready", "load", "count"} => tree_generation'[m] = TreeRound(t)'
          /\ tree_pc'[t] \in {"reset", "toggle"} /\ Tree!Size(tree_barack'[t]) < Tree!Size(m)
                     => tree_generation'[m] = TreeRound(t)' + 1
          /\ \A k \in TreeOver(t) :
                  Tree!Size(k) <= Tree!Size(m) => tree_generation'[k] <= tree_generation'[m]
    BY <2>1, <2>4, <2>8
  <2> QED
    BY <1>9, <1>10, <2>1, <2>3, <2>5, <2>6, <2>7, <2>9
<1>12. CASE Tree!Kids(n) # {}
  <2>1. /\ tree_pc'[t] = "reset" /\ tree_barack'[t] = Tree!KidOn(t, n)
        /\ TreeRound(t)' = TreeRound(t)
    BY <1>1, <1>2, <1>7, <1>12 DEF TreeTypeInv, TreeRound
  <2>2. Tree!KidOn(t, n) \in TreeOver(t) /\ Tree!Size(Tree!KidOn(t, n)) \in Nat
    BY <1>3, <1>8, <1>12
  <2>3. \A m \in TreeOver(t) : TreeHolds(t, m)' <=> Tree!Size(m) < Tree!Size(n)
    <3> SUFFICES ASSUME NEW m \in TreeOver(t) PROVE TreeHolds(t, m)' <=> Tree!Size(m) < Tree!Size(n)
      OBVIOUS
    <3>1. TreeHolds(t, m)' <=> Tree!Size(m) < Tree!Size(Tree!KidOn(t, n)) \/ m = Tree!KidOn(t, n)
      BY <2>1 DEF TreeHolds
    <3>2. Tree!Size(m) = Tree!Size(Tree!KidOn(t, n)) <=> m = Tree!KidOn(t, n)
      BY <2>2, TreeOverFacts
    <3>3. Tree!Size(m) < Tree!Size(n) <=> Tree!Size(m) <= Tree!Size(Tree!KidOn(t, n))
      BY <1>8, <1>12
    <3> QED
      BY <1>3, <2>2, <3>1, <3>2, <3>3
  <2>4. \A m \in TreeOver(t) : Tree!Size(Tree!KidOn(t, n)) < Tree!Size(m) <=> ~ (Tree!Size(m) < Tree!Size(n))
    BY <1>3, <1>8, <1>12, <2>2
  <2>5. TreePlaceInv'
    <3>1. tree_crossed'[t] < Crossings
      BY <1>1, <1>7, <1>12 DEF TreePlaceInv
    <3> QED
      BY <1>1, <1>2, <1>9, <1>10, <2>1, <3>1 DEF TreePlaceInv
  <2>6. TreeHoldInv'
    <3> SUFFICES ASSUME NEW v \in Tree!Threads, NEW u \in Tree!Threads, NEW m \in TreeOver(u),
                        TreeHolds(v, m)', v # u
                 PROVE  tree_pc'[u] = "spin" /\ Tree!Size(tree_barack'[u]) <= Tree!Size(m) /\ TreeRound(u)' = TreeRound(v)'
      BY DEF TreeHoldInv
    <3>1. CASE v # t
      <4>1. TreeHolds(v, m)
        BY <1>10, <3>1 DEF TreeHolds
      <4>2. u # t
        BY <3>1, <4>1
      <4> QED
        BY <1>1, <1>10, <3>1, <4>1, <4>2 DEF TreeHoldInv
    <3>2. CASE v = t
      <4>1. m \in TreeOver(t)
        BY <3>2 DEF TreeHolds
      <4>2. TreeHolds(t, m)
        BY <1>6, <2>3, <3>2, <4>1
      <4> QED
        BY <1>1, <1>10, <2>1, <3>2, <4>2 DEF TreeHoldInv
    <3> QED
      BY <3>1, <3>2
  <2>7. ASSUME NEW m \in Tree!Nodes, m # n PROVE TreeArrived(m)' = TreeArrived(m)
    <3>1. ASSUME NEW u \in Tree!Below(m) PROVE TreeCounts(u, m)' = TreeCounts(u, m)
      <4>1. u \in Tree!Threads /\ m \in TreeOver(u)
        BY TreeOverThreads
      <4>2. tree_generation'[m] = tree_generation[m]
        BY <2>7
      <4>3. CASE u # t
        BY <1>10, <4>1, <4>2, <4>3 DEF TreeCounts, TreeHolds
      <4>4. CASE u = t
        <5>1. TreeHolds(t, m) <=> Tree!Size(m) < Tree!Size(n)
          BY <2>7, <4>1, <4>4 DEF TreeHolds
        <5>2. TreeHolds(t, m)' <=> Tree!Size(m) < Tree!Size(n)
          BY <2>3, <4>1, <4>4
        <5>3. /\ ~ (tree_barack[t] = m /\ tree_pc[t] = "spin")
              /\ ~ (tree_barack'[t] = m /\ tree_pc'[t] = "spin")
          BY <2>1, <2>7
        <5>4. TreeCounts(t, m) <=> TreeRound(t) = tree_generation[m] /\ Tree!Size(m) < Tree!Size(n)
          BY <5>1, <5>3, <4>1, <4>4 DEF TreeCounts
        <5>5. TreeCounts(t, m)' <=> TreeRound(t) = tree_generation[m] /\ Tree!Size(m) < Tree!Size(n)
          BY <2>1, <4>2, <5>2, <5>3 DEF TreeCounts
        <5>6. TreeCounts(u, m)' \in BOOLEAN /\ TreeCounts(u, m) \in BOOLEAN
          BY DEF TreeCounts
        <5> QED
          BY <4>4, <5>4, <5>5, <5>6
      <4> QED
        BY <4>3, <4>4
    <3> QED
      BY <3>1, TreeSameArrived
  <2>8. \A m \in TreeOver(t) : \A k \in TreeOver(t) :
            Tree!Size(k) <= Tree!Size(m) => tree_generation'[k] <= tree_generation'[m]
    BY <1>3, <1>4, <1>2
  <2>9. \A m \in TreeOver(t) :
          /\ tree_generation'[m] \in {TreeRound(t)', TreeRound(t)' + 1}
          /\ TreeHolds(t, m)' \/ tree_pc'[t] \in {"ready", "load", "count"} => tree_generation'[m] = TreeRound(t)'
          /\ tree_pc'[t] \in {"reset", "toggle"} /\ Tree!Size(tree_barack'[t]) < Tree!Size(m)
                     => tree_generation'[m] = TreeRound(t)' + 1
          /\ \A k \in TreeOver(t) :
                  Tree!Size(k) <= Tree!Size(m) => tree_generation'[k] <= tree_generation'[m]
    BY <2>1, <2>3, <2>4, <2>8
  <2>10. TreeRound(t)' # TreeRound(t) + 1
    BY <1>4, <2>1
  <2>11. \A m \in TreeOver(t) : ~ TreeHolds(t, m)' \/ Tree!Size(m) < Tree!Size(n)
    BY <2>3
  <2> QED
    BY <1>9, <1>10, <2>1, <2>5, <2>6, <2>7, <2>9, <2>10, <2>11
<1> QED
  BY <1>11, <1>12

LEMMA TreeToggleSignalStep ==
    ASSUME TreeIInv, NEW t \in Tree!Threads, Tree!ToggleSignal(t)
    PROVE  TreeIInv'
<1>1. TreeTypeInv /\ TreePlaceInv /\ TreeRoundInv /\ TreeHoldInv /\ TreeCountInv
  BY DEF TreeIInv
<1>2. PICK n \in Tree!Nodes : n = tree_barack[t]
  BY <1>1 DEF TreeTypeInv
<1>3. /\ tree_pc[t] = "toggle" /\ Tree!Return(t)
      /\ tree_signal' = [tree_signal EXCEPT ![n] = 1 - tree_signal[n]]
      /\ tree_generation' = [tree_generation EXCEPT ![n] = tree_generation[n] + 1]
      /\ tree_count' = tree_count /\ tree_my_signal' = tree_my_signal
      /\ tree_cleaned' = tree_cleaned /\ tree_allocated' = tree_allocated
  BY <1>2 DEF Tree!ToggleSignal
<1>4. n \in TreeOver(t) /\ t \in Tree!Below(n)
  BY <1>1, <1>2 DEF TreePlaceInv, TreeOver
<1>5. tree_cleaned = 0
  BY <1>3, TreeNotCleaned
<1>6. \A m \in TreeOver(t) : Tree!Size(m) \in Nat /\ (Tree!Size(m) = Tree!Size(n) => m = n)
  BY <1>4, TreeOverFacts
<1>7. \A m \in TreeOver(t) :
        tree_generation[m] = IF Tree!Size(m) <= Tree!Size(n) THEN TreeRound(t) ELSE TreeRound(t) + 1
  <2> SUFFICES ASSUME NEW m \in TreeOver(t)
               PROVE  tree_generation[m] = IF Tree!Size(m) <= Tree!Size(n) THEN TreeRound(t) ELSE TreeRound(t) + 1
    OBVIOUS
  <2>1. CASE Tree!Size(m) <= Tree!Size(n)
    <3>1. Tree!Size(m) < Tree!Size(n) \/ m = n
      BY <1>4, <1>6, <2>1
    <3>2. TreeHolds(t, m)
      BY <1>2, <1>3, <3>1 DEF TreeHolds
    <3> QED
      BY <1>1, <2>1, <3>2 DEF TreeRoundInv
  <2>2. CASE ~ (Tree!Size(m) <= Tree!Size(n))
    BY <1>1, <1>2, <1>3, <1>4, <1>6, <2>2 DEF TreeRoundInv
  <2> QED
    BY <2>1, <2>2
<1>8. /\ tree_generation' \in [Tree!Nodes -> Nat]
      /\ \A m \in Tree!Nodes : m # n => tree_generation'[m] = tree_generation[m]
      /\ tree_generation'[n] = tree_generation[n] + 1 /\ tree_generation[n] \in Nat
      /\ tree_generation[n] = TreeRound(t)
  BY <1>1, <1>3, <1>4, <1>6, <1>7 DEF TreeTypeInv
<1>9. \A m \in TreeOver(t) :
        tree_generation'[m] = IF Tree!Size(m) < Tree!Size(n) THEN TreeRound(t) ELSE TreeRound(t) + 1
  <2> SUFFICES ASSUME NEW m \in TreeOver(t)
               PROVE  tree_generation'[m] = IF Tree!Size(m) < Tree!Size(n) THEN TreeRound(t) ELSE TreeRound(t) + 1
    OBVIOUS
  <2>1. m \in Tree!Nodes
    BY DEF TreeOver
  <2> QED
    BY <1>4, <1>6, <1>7, <1>8, <2>1
<1>10. \A m \in TreeOver(t) : Tree!Size(m) < Tree!Size(n) => tree_generation[m] = TreeRound(t)
  BY <1>4, <1>6, <1>7
<1>11. \A u \in Tree!Threads : u # t => \A m \in TreeOver(t) : ~ TreeHolds(u, m)
  BY <1>3, TreeNobodyHolds
<1>12. /\ tree_crossed' \in [Tree!Threads -> 0 .. Crossings]
       /\ tree_barack' \in [Tree!Threads -> Tree!Nodes]
       /\ tree_pc' \in [Tree!Threads -> TreePoints]
       /\ \A u \in Tree!Threads : u # t =>
            tree_pc'[u] = tree_pc[u] /\ tree_barack'[u] = tree_barack[u] /\ TreeRound(u)' = TreeRound(u)
       /\ tree_pc'[t] \in {"ready", "reset"}
       /\ \A m \in TreeOver(t) : ~ TreeHolds(t, m)' \/ Tree!Size(m) < Tree!Size(n)
       /\ TreePlaceInv'
       /\ \A m \in TreeOver(t) :
            /\ tree_generation'[m] \in {TreeRound(t)', TreeRound(t)' + 1}
            /\ TreeHolds(t, m)' \/ tree_pc'[t] \in {"ready", "load", "count"}
                 => tree_generation'[m] = TreeRound(t)'
            /\ tree_pc'[t] \in {"reset", "toggle"} /\ Tree!Size(tree_barack'[t]) < Tree!Size(m)
                 => tree_generation'[m] = TreeRound(t)' + 1
            /\ \A k \in TreeOver(t) :
                    Tree!Size(k) <= Tree!Size(m) => tree_generation'[k] <= tree_generation'[m]
       /\ TreeHoldInv'
       /\ \A m \in Tree!Nodes : m # n => TreeArrived(m)' = TreeArrived(m)
  BY <1>2, <1>3, <1>8, <1>9, <1>10, <1>11, TreeReturnStep
<1>13. ASSUME NEW u \in Tree!Below(n), u # t
       PROVE  /\ u \in Tree!Threads /\ n \in TreeOver(u) /\ tree_pc[u] = "spin"
              /\ Tree!Size(tree_barack[u]) <= Tree!Size(n) /\ TreeRound(u) = TreeRound(t)
  <2>1. u \in Tree!Threads /\ n \in TreeOver(u)
    BY TreeOverThreads
  <2>2. TreeHolds(t, n)
    BY <1>2, <1>3, <1>4 DEF TreeHolds
  <2> QED
    BY <1>1, <1>13, <2>1, <2>2 DEF TreeHoldInv
<1>14. TreeTypeInv'
  <2>1. tree_signal' \in [Tree!Nodes -> {0, 1}]
    BY <1>1, <1>3 DEF TreeTypeInv
  <2>2. \A m \in Tree!Nodes : tree_signal'[m] = tree_generation'[m] % 2
    <3>1. \A g \in Nat : (g + 1) % 2 = 1 - (g % 2)
      OBVIOUS
    <3>2. tree_signal[n] = tree_generation[n] % 2 /\ tree_signal'[n] = 1 - tree_signal[n]
      BY <1>1, <1>3 DEF TreeTypeInv
    <3>3. tree_signal'[n] = tree_generation'[n] % 2
      BY <1>8, <3>1, <3>2
    <3>4. \A m \in Tree!Nodes : m # n => tree_signal'[m] = tree_signal[m]
      BY <1>1, <1>3 DEF TreeTypeInv
    <3> QED
      BY <1>1, <1>8, <3>3, <3>4 DEF TreeTypeInv
  <2> QED
    BY <1>1, <1>3, <1>8, <1>12, <2>1, <2>2 DEF TreeTypeInv
<1>15. TreeRoundInv'
  <2> SUFFICES ASSUME NEW u \in Tree!Threads, NEW m \in TreeOver(u), u # t
               PROVE  /\ tree_generation'[m] \in {TreeRound(u), TreeRound(u) + 1}
                      /\ TreeHolds(u, m)' \/ tree_pc'[u] \in {"ready", "load", "count"}
                            => tree_generation'[m] = TreeRound(u)
                      /\ tree_pc'[u] \in {"reset", "toggle"} /\ Tree!Size(tree_barack'[u]) < Tree!Size(m)
                            => tree_generation'[m] = TreeRound(u) + 1
                      /\ \A k \in TreeOver(u) :
                              Tree!Size(k) <= Tree!Size(m) => tree_generation'[k] <= tree_generation'[m]
    BY <1>12 DEF TreeRoundInv
  <2>1. m \in Tree!Nodes /\ u \in Tree!Below(m) /\ \A k \in TreeOver(u) : k \in Tree!Nodes /\ Tree!Size(k) \in Nat
    BY TreeOverFacts DEF TreeOver
  <2>2. TreeHolds(u, m)' = TreeHolds(u, m)
    BY <1>12 DEF TreeHolds
  <2>3. /\ tree_generation[m] \in {TreeRound(u), TreeRound(u) + 1}
        /\ TreeHolds(u, m) \/ tree_pc[u] \in {"ready", "load", "count"} => tree_generation[m] = TreeRound(u)
        /\ tree_pc[u] \in {"reset", "toggle"} /\ Tree!Size(tree_barack[u]) < Tree!Size(m)
                            => tree_generation[m] = TreeRound(u) + 1
        /\ \A k \in TreeOver(u) :
                Tree!Size(k) <= Tree!Size(m) => tree_generation[k] <= tree_generation[m]
    BY <1>1 DEF TreeRoundInv
  <2>4. CASE u \notin Tree!Below(n)
    <3>1. \A k \in TreeOver(u) : tree_generation'[k] = tree_generation[k]
      BY <1>8, <2>4 DEF TreeOver
    <3> QED
      BY <1>12, <2>2, <2>3, <3>1
  <2>5. CASE u \in Tree!Below(n)
    <3>1. /\ n \in TreeOver(u) /\ tree_pc[u] = "spin"
          /\ Tree!Size(tree_barack[u]) <= Tree!Size(n) /\ TreeRound(u) = TreeRound(t)
      BY <1>13, <2>5
    <3>2. TreeRound(t) \in Nat /\ \A k \in Tree!Nodes : tree_generation[k] \in Nat
      BY <1>1, <1>8 DEF TreeTypeInv
    <3>3. \A k \in TreeOver(u) : Tree!Size(n) < Tree!Size(k) => tree_generation'[k] = TreeRound(t) + 1
      <4> SUFFICES ASSUME NEW k \in TreeOver(u), Tree!Size(n) < Tree!Size(k)
                   PROVE  tree_generation'[k] = TreeRound(t) + 1
        OBVIOUS
      <4>1. Tree!Below(n) \subseteq Tree!Below(k)
        BY <3>1, TreeOverFacts
      <4>2. k \in TreeOver(t)
        BY <1>4, <4>1 DEF TreeOver
      <4> QED
        BY <1>4, <1>6, <1>9, <4>2
    <3>4. tree_generation'[m] \in {TreeRound(u), TreeRound(u) + 1}
      BY <1>8, <2>1, <2>3, <3>1
    <3>5. TreeHolds(u, m) => tree_generation'[m] = TreeRound(u)
      <4> SUFFICES ASSUME TreeHolds(u, m) PROVE tree_generation'[m] = TreeRound(u)
        OBVIOUS
      <4>1. Tree!Size(m) < Tree!Size(tree_barack[u])
        BY <3>1 DEF TreeHolds
      <4>2. tree_barack[u] \in TreeOver(u)
        BY <1>1 DEF TreePlaceInv
      <4>3. m # n
        BY <2>1, <3>1, <4>1, <4>2
      <4> QED
        BY <1>8, <2>1, <2>3, <4>3
    <3>6. \A k \in TreeOver(u) : Tree!Size(k) <= Tree!Size(m) => tree_generation'[k] <= tree_generation'[m]
      <4> SUFFICES ASSUME NEW k \in TreeOver(u), Tree!Size(k) <= Tree!Size(m)
                   PROVE  tree_generation'[k] <= tree_generation'[m]
        OBVIOUS
      <4>1. tree_generation[k] <= tree_generation[m] /\ k \in Tree!Nodes
        BY <2>1, <2>3
      <4>2. CASE m = n
        BY <1>8, <2>1, <3>2, <4>1, <4>2
      <4>3. CASE m # n /\ k = n
        <5>1. Tree!Size(n) < Tree!Size(m)
          BY <2>1, <3>1, <4>3, TreeOverFacts
        <5> QED
          BY <1>8, <3>3, <4>3, <5>1
      <4>4. CASE m # n /\ k # n
        BY <1>8, <2>1, <4>1, <4>4
      <4> QED
        BY <4>2, <4>3, <4>4
    <3> QED
      BY <1>12, <2>2, <3>1, <3>4, <3>5, <3>6
  <2> QED
    BY <2>4, <2>5
<1>16. TreeCountInv'
  <2>1. ASSUME NEW m \in Tree!Nodes, m # n
        PROVE  tree_count'[m] = Tree!arity(m) -
                   IF TreeResetting(m)' THEN 0 ELSE Cardinality(TreeArrived(m)')
    <3>1. TreeResetting(m)' = TreeResetting(m)
      BY <1>2, <1>12, <2>1 DEF TreeResetting
    <3> QED
      BY <1>3, <1>5, <1>12, <2>1, <3>1, TreeSameCount
  <2>2. tree_count'[n] = Tree!arity(n) - IF TreeResetting(n)' THEN 0 ELSE Cardinality(TreeArrived(n)')
    <3>1. TreeResetting(n)
      BY <1>2, <1>3 DEF TreeResetting
    <3>2. tree_count'[n] = Tree!arity(n) /\ Tree!arity(n) \in Nat
      BY <1>1, <1>3, <1>5, <3>1, TreePartFacts DEF TreeCountInv
    <3>3. ASSUME NEW u \in Tree!Below(n) PROVE ~ TreeCounts(u, n)'
      <4>1. CASE u = t
        <5>1. ~ TreeHolds(t, n)'
          BY <1>4, <1>6, <1>12
        <5> QED
          BY <1>12, <4>1, <5>1 DEF TreeCounts
      <4>2. CASE u # t
        <5>1. /\ TreeRound(u)' = TreeRound(t) /\ tree_generation'[n] = TreeRound(t) + 1
              /\ TreeRound(t) \in Nat
          BY <1>8, <1>12, <1>13, <4>2
        <5> QED
          BY <5>1 DEF TreeCounts
      <4> QED
        BY <4>1, <4>2
    <3>4. TreeCountedAt(n)' = {}
      BY <3>3, TreeArrivedByCounts
    <3>5. TreeArrived(n)' = {} /\ Cardinality({}) = 0
      BY <3>4, TreeArrivedByCounts, FS_EmptySet
    <3> QED
      BY <3>2, <3>5
  <2> QED
    BY <2>1, <2>2 DEF TreeCountInv
<1>17. TreeCleanInv'
  BY <1>3, <1>5, TreeSameClean
<1> QED
  BY <1>12, <1>14, <1>15, <1>16, <1>17 DEF TreeIInv

LEMMA TreeSpinExitStep ==
    ASSUME TreeIInv, NEW t \in Tree!Threads, Tree!SpinExit(t)
    PROVE  TreeIInv'
<1>1. TreeTypeInv /\ TreePlaceInv /\ TreeRoundInv /\ TreeHoldInv /\ TreeCountInv
  BY DEF TreeIInv
<1>2. PICK n \in Tree!Nodes : n = tree_barack[t]
  BY <1>1 DEF TreeTypeInv
<1>3. /\ tree_pc[t] = "spin" /\ Tree!Return(t) /\ tree_signal[n] # tree_my_signal[t]
      /\ tree_signal' = tree_signal /\ tree_generation' = tree_generation
      /\ tree_count' = tree_count /\ tree_my_signal' = tree_my_signal
      /\ tree_cleaned' = tree_cleaned /\ tree_allocated' = tree_allocated
  BY <1>2 DEF Tree!SpinExit, Tree!shared
<1>4. n \in TreeOver(t) /\ t \in Tree!Below(n)
  BY <1>1, <1>2 DEF TreePlaceInv, TreeOver
<1>5. tree_cleaned = 0
  BY <1>3, TreeNotCleaned
<1>6. \A m \in TreeOver(t) : Tree!Size(m) \in Nat /\ (Tree!Size(m) = Tree!Size(n) => m = n)
  BY <1>4, TreeOverFacts
<1>7. tree_generation[n] = TreeRound(t) + 1 /\ TreeRound(t) \in Nat
  <2>1. tree_my_signal[t] = TreeRound(t) % 2 /\ tree_signal[n] = tree_generation[n] % 2
    BY <1>1, <1>3 DEF TreePlaceInv, TreeTypeInv
  <2>2. tree_generation[n] \in {TreeRound(t), TreeRound(t) + 1}
    BY <1>1, <1>4 DEF TreeRoundInv
  <2>3. TreeRound(t) \in Nat
    BY <1>1, TreeSizes DEF TreeRound, TreeTypeInv
  <2> QED
    BY <1>3, <2>1, <2>2, <2>3
<1>8. \A m \in TreeOver(t) :
        tree_generation[m] = IF Tree!Size(m) < Tree!Size(n) THEN TreeRound(t) ELSE TreeRound(t) + 1
  <2> SUFFICES ASSUME NEW m \in TreeOver(t)
               PROVE  tree_generation[m] = IF Tree!Size(m) < Tree!Size(n) THEN TreeRound(t) ELSE TreeRound(t) + 1
    OBVIOUS
  <2>1. CASE Tree!Size(m) < Tree!Size(n)
    <3>1. TreeHolds(t, m)
      BY <1>2, <2>1 DEF TreeHolds
    <3> QED
      BY <1>1, <2>1, <3>1 DEF TreeRoundInv
  <2>2. CASE ~ (Tree!Size(m) < Tree!Size(n))
    <3>1. Tree!Size(n) <= Tree!Size(m)
      BY <1>4, <1>6, <2>2
    <3>2. /\ tree_generation[n] <= tree_generation[m]
          /\ tree_generation[m] \in {TreeRound(t), TreeRound(t) + 1}
      BY <1>1, <1>4, <3>1 DEF TreeRoundInv
    <3> QED
      BY <1>7, <2>2, <3>2
  <2> QED
    BY <2>1, <2>2
<1>9. ASSUME NEW u \in Tree!Threads, u # t, NEW m \in TreeOver(t), TreeHolds(u, m) PROVE FALSE
  <2>1. Tree!Size(n) <= Tree!Size(m) /\ TreeRound(t) = TreeRound(u)
    BY <1>1, <1>2, <1>9 DEF TreeHoldInv
  <2>2. tree_generation[m] = TreeRound(u)
    BY <1>1, <1>9 DEF TreeRoundInv, TreeHolds
  <2>3. tree_generation[m] = TreeRound(t) + 1
    BY <1>4, <1>6, <1>8, <2>1
  <2> QED
    BY <1>7, <2>1, <2>2, <2>3
<1>10. /\ tree_generation' \in [Tree!Nodes -> Nat]
       /\ \A m \in Tree!Nodes : m # n => tree_generation'[m] = tree_generation[m]
       /\ \A m \in TreeOver(t) :
               Tree!Size(m) < Tree!Size(n) => tree_generation[m] = TreeRound(t)
       /\ \A m \in TreeOver(t) : tree_generation'[m] = IF Tree!Size(m) < Tree!Size(n) THEN TreeRound(t) ELSE TreeRound(t) + 1
       /\ \A u \in Tree!Threads : u # t => \A m \in TreeOver(t) : ~ TreeHolds(u, m)
  BY <1>1, <1>3, <1>8, <1>9 DEF TreeTypeInv
<1>11. /\ tree_crossed' \in [Tree!Threads -> 0 .. Crossings]
       /\ tree_barack' \in [Tree!Threads -> Tree!Nodes]
       /\ tree_pc' \in [Tree!Threads -> TreePoints]
       /\ \A u \in Tree!Threads : u # t =>
            tree_pc'[u] = tree_pc[u] /\ tree_barack'[u] = tree_barack[u] /\ TreeRound(u)' = TreeRound(u)
       /\ tree_pc'[t] \in {"ready", "reset"}
       /\ \A m \in TreeOver(t) : ~ TreeHolds(t, m)' \/ Tree!Size(m) < Tree!Size(n)
       /\ TreePlaceInv'
       /\ \A m \in TreeOver(t) :
            /\ tree_generation'[m] \in {TreeRound(t)', TreeRound(t)' + 1}
            /\ TreeHolds(t, m)' \/ tree_pc'[t] \in {"ready", "load", "count"}
                 => tree_generation'[m] = TreeRound(t)'
            /\ tree_pc'[t] \in {"reset", "toggle"} /\ Tree!Size(tree_barack'[t]) < Tree!Size(m)
                 => tree_generation'[m] = TreeRound(t)' + 1
            /\ \A k \in TreeOver(t) :
                    Tree!Size(k) <= Tree!Size(m) => tree_generation'[k] <= tree_generation'[m]
       /\ TreeHoldInv'
       /\ \A m \in Tree!Nodes : m # n => TreeArrived(m)' = TreeArrived(m)
  BY <1>2, <1>3, <1>10, TreeReturnStep
<1>12. TreeArrived(n)' = TreeArrived(n)
  <2>1. ASSUME NEW u \in Tree!Below(n) PROVE TreeCounts(u, n)' = TreeCounts(u, n)
    <3>1. u \in Tree!Threads
      BY TreeOverThreads
    <3>2. CASE u # t
      BY <1>3, <1>11, <3>1, <3>2 DEF TreeCounts, TreeHolds
    <3>3. CASE u = t
      <4>1. ~ TreeCounts(t, n)
        BY <1>7 DEF TreeCounts
      <4>2. ~ TreeHolds(t, n)'
        BY <1>4, <1>6, <1>11
      <4>3. ~ TreeCounts(t, n)'
        BY <1>11, <4>2 DEF TreeCounts
      <4>4. TreeCounts(u, n)' \in BOOLEAN /\ TreeCounts(u, n) \in BOOLEAN
        BY DEF TreeCounts
      <4> QED
        BY <3>3, <4>1, <4>3, <4>4
    <3> QED
      BY <3>2, <3>3
  <2> QED
    BY <2>1, TreeSameArrived
<1>13. TreeTypeInv'
  BY <1>1, <1>3, <1>11 DEF TreeTypeInv
<1>14. TreeRoundInv'
  <2> SUFFICES ASSUME NEW u \in Tree!Threads, NEW m \in TreeOver(u), u # t
               PROVE  /\ tree_generation[m] \in {TreeRound(u), TreeRound(u) + 1}
                      /\ TreeHolds(u, m)' \/ tree_pc'[u] \in {"ready", "load", "count"}
                            => tree_generation[m] = TreeRound(u)
                      /\ tree_pc'[u] \in {"reset", "toggle"} /\ Tree!Size(tree_barack'[u]) < Tree!Size(m)
                            => tree_generation[m] = TreeRound(u) + 1
                      /\ \A k \in TreeOver(u) :
                              Tree!Size(k) <= Tree!Size(m) => tree_generation[k] <= tree_generation[m]
    BY <1>3, <1>11 DEF TreeRoundInv
  <2>1. TreeHolds(u, m)' = TreeHolds(u, m)
    BY <1>11 DEF TreeHolds
  <2> QED
    BY <1>1, <1>11, <2>1 DEF TreeRoundInv
<1>15. TreeCountInv'
  <2>1. ASSUME NEW m \in Tree!Nodes
        PROVE  tree_count'[m] = Tree!arity(m) -
                   IF TreeResetting(m)' THEN 0 ELSE Cardinality(TreeArrived(m)')
    <3>1. TreeResetting(m)' = TreeResetting(m)
      BY <1>3, <1>11 DEF TreeResetting
    <3>2. TreeArrived(m)' = TreeArrived(m)
      BY <1>11, <1>12
    <3> QED
      BY <1>3, <1>5, <3>1, <3>2, TreeSameCount
  <2> QED
    BY <2>1 DEF TreeCountInv
<1>16. TreeCleanInv'
  BY <1>3, <1>5, TreeSameClean
<1> QED
  BY <1>11, <1>13, <1>14, <1>15, <1>16 DEF TreeIInv

-----------------------------------------------------------------------------
\* The last thread of a part, and the part that it belongs to.
LEMMA TreeLastOfFacts ==
    ASSUME NEW n \in Tree!Nodes
    PROVE  /\ \A p \in TreeParts(n) :
                TreeLastOf(n, p) \in Tree!Below(n) /\ TreePartOf(TreeLastOf(n, p), n) = p
           /\ \A x \in Tree!Below(n) :
                /\ x \in Nat /\ x <= TreeLast(n) /\ TreePartOf(x, n) \in TreeParts(n)
                /\ x <= TreeLastOf(n, TreePartOf(x, n))
           /\ TreeLast(n) \in Tree!Below(n)
           /\ TreeLastOf(n, TreePartOf(TreeLast(n), n)) = TreeLast(n)
<1>1. /\ n \in Pairs /\ TreeLast(n) \in Tree!Below(n) /\ TreeLast(n) \in Nat
      /\ Tree!First(n) \in Nat
      /\ Tree!Below(n) = Tree!First(n) .. TreeLast(n)
  BY TreeNodeFacts, TreePairFacts
<1>2. \A x \in Tree!Below(n) : x \in Nat /\ x <= TreeLast(n) /\ TreePartOf(x, n) \in TreeParts(n)
  BY <1>1, TreePartFacts
<1>3. CASE Tree!Kids(n) = {}
  BY <1>1, <1>2, <1>3 DEF TreeParts, TreePartOf, TreeLastOf
<1>4. CASE Tree!Kids(n) # {}
  <2>1. /\ TreeParts(n) = Tree!Kids(n)
        /\ \A x : TreePartOf(x, n) = Tree!KidOn(x, n)
        /\ \A p : TreeLastOf(n, p) = TreeLast(p)
    BY <1>4 DEF TreeParts, TreePartOf, TreeLastOf
  <2>2. ASSUME NEW p \in Tree!Kids(n)
        PROVE  /\ TreeLast(p) \in Tree!Below(n) /\ Tree!KidOn(TreeLast(p), n) = p
               /\ TreeLast(p) <= TreeLast(n) /\ \A x \in Tree!Below(p) : x <= TreeLast(p)
    <3>1. p \in Pairs /\ Tree!Below(p) \subseteq Tree!Below(n) /\ TreeLast(p) <= TreeLast(n)
      BY <1>1, TreeKidFacts
    <3>2. /\ TreeLast(p) \in Tree!Below(p) /\ TreeLast(p) \in Nat /\ Tree!First(p) \in Nat
          /\ Tree!Below(p) = Tree!First(p) .. TreeLast(p)
      BY <3>1, TreePairFacts
    <3> QED
      BY <1>1, <1>4, <3>1, <3>2, TreeKidOnFacts
  <2>3. \A x \in Tree!Below(n) : Tree!KidOn(x, n) \in Tree!Kids(n) /\ x \in Tree!Below(Tree!KidOn(x, n))
    BY <1>1, <1>4, TreeKidOnFacts
  <2>4. TreeLast(Tree!KidOn(TreeLast(n), n)) = TreeLast(n)
    <3> DEFINE k == Tree!KidOn(TreeLast(n), n)
    <3>1. k \in Tree!Kids(n) /\ TreeLast(n) \in Tree!Below(k)
      BY <1>1, <2>3
    <3>2. TreeLast(k) <= TreeLast(n) /\ TreeLast(n) <= TreeLast(k) /\ TreeLast(k) \in Nat
      BY <1>2, <2>2, <3>1
    <3> QED
      BY <1>1, <3>2
  <2> QED
    BY <1>1, <1>2, <2>1, <2>2, <2>3, <2>4
<1> QED
  BY <1>3, <1>4

\* The parts that the cleanup has not passed yet.
TreeLeft(node, i) == {p \in TreeParts(node) : i <= TreeLastOf(node, p)}

LEMMA TreeLeftFacts ==
    ASSUME NEW n \in Tree!Nodes, NEW i \in Tree!Below(n)
    PROVE  /\ IsFiniteSet(TreeLeft(n, i)) /\ TreePartOf(i, n) \in TreeLeft(n, i)
           /\ TreePartOf(TreeLast(n), n) \in TreeLeft(n, i)
           /\ TreeLast(n) = i => TreeLastOf(n, TreePartOf(i, n)) = i /\ Cardinality(TreeLeft(n, i)) = 1
           /\ Cardinality(TreeLeft(n, i)) = 1 => TreePartOf(TreeLast(n), n) = TreePartOf(i, n)
           /\ TreeLeft(n, i + 1) = IF TreeLastOf(n, TreePartOf(i, n)) = i
                                 THEN TreeLeft(n, i) \ {TreePartOf(i, n)} ELSE TreeLeft(n, i)
<1>1. IsFiniteSet(TreeLeft(n, i))
  <2>1. IsFiniteSet(TreeParts(n)) /\ TreeLeft(n, i) \subseteq TreeParts(n)
    BY TreePartFacts DEF TreeLeft
  <2> QED
    BY <2>1, FS_Subset
<1>2. TreePartOf(i, n) \in TreeLeft(n, i) /\ TreePartOf(TreeLast(n), n) \in TreeLeft(n, i)
  BY TreeLastOfFacts DEF TreeLeft
<1>3. ASSUME TreeLast(n) = i
      PROVE  TreeLastOf(n, TreePartOf(i, n)) = i /\ Cardinality(TreeLeft(n, i)) = 1
  <2>1. TreeLeft(n, i) = {TreePartOf(i, n)}
    <3> SUFFICES ASSUME NEW p \in TreeLeft(n, i) PROVE p = TreePartOf(i, n)
      BY <1>2
    <3>1. p \in TreeParts(n) /\ i <= TreeLastOf(n, p)
      BY DEF TreeLeft
    <3>2. TreeLastOf(n, p) \in Tree!Below(n) /\ TreePartOf(TreeLastOf(n, p), n) = p
      BY <3>1, TreeLastOfFacts
    <3>3. TreeLastOf(n, p) \in Nat /\ i \in Nat /\ TreeLastOf(n, p) <= i
      BY <1>3, <3>2, TreeLastOfFacts
    <3> QED
      BY <3>1, <3>2, <3>3
  <2> QED
    BY <1>3, <2>1, FS_Singleton, TreeLastOfFacts
<1>4. ASSUME Cardinality(TreeLeft(n, i)) = 1
      PROVE  TreePartOf(TreeLast(n), n) = TreePartOf(i, n)
  <2>1. PICK x : TreeLeft(n, i) = {x}
    BY <1>1, <1>4, FS_Singleton
  <2> QED
    BY <1>2, <2>1
<1>5. TreeLeft(n, i + 1) = IF TreeLastOf(n, TreePartOf(i, n)) = i
                         THEN TreeLeft(n, i) \ {TreePartOf(i, n)} ELSE TreeLeft(n, i)
  <2>1. \A p \in TreeParts(n) : i + 1 <= TreeLastOf(n, p) <=> i <= TreeLastOf(n, p) /\ TreeLastOf(n, p) # i
    BY TreeLastOfFacts
  <2>2. \A p \in TreeParts(n) : TreeLastOf(n, p) = i => p = TreePartOf(i, n)
    BY TreeLastOfFacts
  <2> QED
    BY <2>1, <2>2 DEF TreeLeft
<1> QED
  BY <1>1, <1>2, <1>3, <1>4, <1>5

\* When all threads are done, the counts are what the cleanup expects.
LEMMA TreeCountsLeft ==
    ASSUME TreeIInv, \A t \in Tree!Threads : Tree!Finished(t), NEW n \in Tree!Nodes
    PROVE  tree_count[n] = Cardinality(TreeLeft(n, tree_cleaned))
<1>1. CASE tree_cleaned # 0
  BY <1>1 DEF TreeIInv, TreeCleanInv, TreeLeft
<1>2. CASE tree_cleaned = 0
  <2>1. ~ TreeResetting(n)
    BY DEF TreeResetting, Tree!Finished
  <2>2. ASSUME NEW t \in Tree!Below(n) PROVE ~ TreeCounts(t, n)
    <3>1. t \in Tree!Threads /\ n \in TreeOver(t) /\ tree_pc[t] = "ready"
      BY TreeOverThreads DEF Tree!Finished
    <3>2. tree_barack[t] \in TreeOver(t) /\ Tree!Kids(tree_barack[t]) = {}
      BY <3>1 DEF TreeIInv, TreePlaceInv
    <3>3. ~ (Tree!Size(n) < Tree!Size(tree_barack[t]))
      BY <3>1, <3>2, TreeOverFacts
    <3> QED
      BY <3>1, <3>3 DEF TreeCounts, TreeHolds
  <2>3. TreeArrived(n) = {} /\ Cardinality({}) = 0
    BY <2>2, TreeArrivedByCounts, FS_EmptySet
  <2>4. tree_count[n] = Cardinality(TreeParts(n))
    BY <1>2, <2>1, <2>3, TreePartFacts DEF TreeIInv, TreeCountInv
  <2>5. TreeLeft(n, tree_cleaned) = TreeParts(n)
    BY <1>2, TreeLastOfFacts DEF TreeLeft
  <2> QED
    BY <2>4, <2>5
<1> QED
  BY <1>1, <1>2

\* The cleanup of a thread counts down the nodes in which its part ends.
LEMMA TreeCountedFacts ==
    ASSUME TreeIInv, \A t \in Tree!Threads : Tree!Finished(t), tree_cleaned \in Tree!Threads,
           NEW n \in Tree!Nodes, tree_cleaned \in Tree!Below(n)
    PROVE  n \in Tree!Counted(tree_cleaned) <=> TreeLastOf(n, TreePartOf(tree_cleaned, n)) = tree_cleaned
<1> DEFINE i == tree_cleaned
           Ends(m) == TreeLastOf(m, TreePartOf(i, m)) = i
<1>1. /\ n \in TreeOver(i)
      /\ \A m \in TreeOver(i) : m \in Tree!Nodes /\ i \in Tree!Below(m) /\ Tree!Size(m) \in Nat
      /\ n \in Tree!Counted(i) <=> \A m \in TreeOver(i) : Tree!Size(m) < Tree!Size(n) => tree_count[m] = 1
  BY TreeOverFacts DEF Tree!Counted, TreeOver
<1>2. ASSUME Ends(n), NEW m \in TreeOver(i), Tree!Size(m) < Tree!Size(n)
      PROVE  tree_count[m] = 1
  <2>1. /\ Tree!Kids(n) # {} /\ Tree!KidOn(i, n) \in TreeOver(i)
        /\ Tree!Size(m) <= Tree!Size(Tree!KidOn(i, n))
        /\ TreeLast(Tree!KidOn(i, n)) = i
    BY <1>1, <1>2, TreeOverFacts, TreeKidOver DEF TreeLastOf, TreePartOf
  <2>2. Tree!Below(m) \subseteq Tree!Below(Tree!KidOn(i, n))
    BY <2>1, TreeOverFacts
  <2>3. TreeLast(m) \in Tree!Below(m) /\ TreeLast(m) \in Nat /\ i \in Nat /\ i <= TreeLast(m)
    BY <1>1, TreeLastOfFacts
  <2>4. TreeLast(m) <= i
    BY <1>1, <2>1, <2>2, <2>3, TreeLastOfFacts
  <2>5. TreeLast(m) = i
    BY <2>3, <2>4
  <2>6. m \in Tree!Nodes /\ i \in Tree!Below(m)
    BY <1>1
  <2>7. Cardinality(TreeLeft(m, i)) = 1
    BY <2>5, <2>6, TreeLeftFacts
  <2> QED
    BY <2>6, <2>7, TreeCountsLeft
<1>3. ASSUME \A m \in TreeOver(i) : Tree!Size(m) < Tree!Size(n) => tree_count[m] = 1, ~ Ends(n)
      PROVE  FALSE
  <2> DEFINE M == {m \in TreeOver(i) : Tree!Size(m) <= Tree!Size(n) /\ ~ Ends(m)}
             T == {Tree!Size(m) : m \in M}
  <2>1. T \in SUBSET Nat /\ T # {}
    BY <1>1, <1>3
  <2>2. PICK x \in T : \A y \in T : x <= y
    BY <2>1, LeastElement
  <2>3. PICK m \in M : x = Tree!Size(m)
    BY <2>2
  <2>4. /\ m \in TreeOver(i) /\ ~ Ends(m) /\ m \in Tree!Nodes /\ i \in Tree!Below(m)
        /\ Tree!Size(m) <= Tree!Size(n)
    BY <1>1, <2>3
  <2>5. Tree!Kids(m) # {}
    BY <2>4 DEF TreeLastOf, TreePartOf
  <2>6. PICK k \in TreeOver(i) : k = Tree!KidOn(i, m)
    BY <2>4, <2>5, TreeKidOver
  <2>7. /\ Tree!Size(k) < Tree!Size(m) /\ Tree!Size(k) <= Tree!Size(n)
        /\ Tree!Size(k) < Tree!Size(n)
    BY <1>1, <2>4, <2>5, <2>6, TreeKidOver
  <2>8. Ends(k)
    BY <1>1, <2>2, <2>3, <2>6, <2>7
  <2>9. TreeLast(k) # i
    BY <2>4, <2>5, <2>6 DEF TreeLastOf, TreePartOf
  <2>10. tree_count[k] = 1
    BY <1>3, <2>6, <2>7
  <2>11. TreePartOf(TreeLast(k), k) = TreePartOf(i, k)
    BY <1>1, <2>6, <2>10, TreeLeftFacts, TreeCountsLeft
  <2>12. TreeLastOf(k, TreePartOf(TreeLast(k), k)) = TreeLast(k)
    BY <1>1, <2>6, TreeLastOfFacts
  <2> QED
    BY <2>8, <2>9, <2>11, <2>12
<1> QED
  BY <1>1, <1>2, <1>3

LEMMA TreeFreeStep ==
    ASSUME TreeIInv, Tree!Free
    PROVE  TreeIInv'
<1>1. TreeTypeInv /\ TreePlaceInv /\ TreeRoundInv /\ TreeHoldInv /\ TreeCountInv /\ TreeCleanInv
  BY DEF TreeIInv
<1>2. PICK i \in Tree!Threads : i = tree_cleaned
  BY <1>1, TreeSizes DEF TreeTypeInv, Tree!Free, Tree!Threads
<1>3. /\ \A t \in Tree!Threads : Tree!Finished(t)
      /\ tree_cleaned' = i + 1
      /\ tree_count' = [n \in Tree!Nodes |-> IF n \in Tree!Counted(i) THEN tree_count[n] - 1 ELSE tree_count[n]]
      /\ tree_allocated' = tree_allocated \ {n \in Tree!Counted(i) : tree_count[n] = 1}
      /\ tree_signal' = tree_signal /\ tree_generation' = tree_generation
      /\ tree_pc' = tree_pc /\ tree_barack' = tree_barack
      /\ tree_my_signal' = tree_my_signal /\ tree_crossed' = tree_crossed
  BY <1>2 DEF Tree!Free
<1>4. i \in Nat /\ i + 1 \in 0 .. TreeN /\ i + 1 # 0
  BY <1>2, TreeSizes DEF Tree!Threads
<1>5. \A n \in Tree!Nodes : tree_count[n] = Cardinality(TreeLeft(n, i))
  BY <1>2, <1>3, TreeCountsLeft
<1>6. \A n \in Tree!Nodes : i \in Tree!Below(n) =>
        (n \in Tree!Counted(i) <=> TreeLastOf(n, TreePartOf(i, n)) = i)
  BY <1>2, <1>3, TreeCountedFacts
<1>7. \A n \in Tree!Counted(i) : n \in Tree!Nodes /\ i \in Tree!Below(n)
  BY DEF Tree!Counted
<1>8. TreeTypeInv'
  <2>1. tree_count' \in [Tree!Nodes -> Int]
    BY <1>1, <1>3 DEF TreeTypeInv
  <2> QED
    BY <1>1, <1>3, <1>4, <2>1 DEF TreeTypeInv
<1>9. TreePlaceInv' /\ TreeRoundInv' /\ TreeHoldInv' /\ TreeCountInv'
  <2>1. \A t, n : TreeHolds(t, n)' = TreeHolds(t, n)
    BY <1>3 DEF TreeHolds
  <2>2. \A t : TreeRound(t)' = TreeRound(t)
    BY <1>3 DEF TreeRound
  <2>3. TreePlaceInv'
    BY <1>1, <1>3, <2>2 DEF TreePlaceInv
  <2>4. TreeRoundInv'
    BY <1>1, <1>3, <2>1, <2>2 DEF TreeRoundInv
  <2>5. TreeHoldInv'
    BY <1>1, <1>3, <2>1, <2>2 DEF TreeHoldInv
  <2>6. TreeCountInv'
    BY <1>3, <1>4 DEF TreeCountInv
  <2> QED
    BY <2>3, <2>4, <2>5, <2>6
<1>10. tree_allocated' = {n \in Tree!Nodes : i + 1 <= TreeLast(n)}
  <2>1. tree_allocated = {n \in Tree!Nodes : i <= TreeLast(n)}
    BY <1>1, <1>2 DEF TreeCleanInv
  <2>2. ASSUME NEW n \in Tree!Nodes
        PROVE  n \in Tree!Counted(i) /\ tree_count[n] = 1 <=> TreeLast(n) = i
    <3>1. ASSUME n \in Tree!Counted(i), tree_count[n] = 1
          PROVE  TreeLast(n) = i
      <4>1. i \in Tree!Below(n) /\ TreeLastOf(n, TreePartOf(i, n)) = i
        BY <1>6, <1>7, <3>1
      <4>2. TreePartOf(TreeLast(n), n) = TreePartOf(i, n)
        BY <1>5, <3>1, <4>1, TreeLeftFacts
      <4>3. TreeLastOf(n, TreePartOf(TreeLast(n), n)) = TreeLast(n)
        BY TreeLastOfFacts
      <4> QED
        BY <4>1, <4>2, <4>3
    <3>2. ASSUME TreeLast(n) = i
          PROVE  n \in Tree!Counted(i) /\ tree_count[n] = 1
      <4>1. i \in Tree!Below(n)
        BY <3>2, TreeLastOfFacts
      <4>2. TreeLastOf(n, TreePartOf(i, n)) = i /\ Cardinality(TreeLeft(n, i)) = 1
        BY <3>2, <4>1, TreeLeftFacts
      <4> QED
        BY <1>5, <1>6, <4>1, <4>2
    <3> QED
      BY <3>1, <3>2
  <2>3. \A n \in Tree!Nodes : TreeLast(n) \in Nat
    BY TreeNodeFacts, TreePairFacts
  <2>4. \A n \in Tree!Nodes : i + 1 <= TreeLast(n) <=> i <= TreeLast(n) /\ TreeLast(n) # i
    BY <1>4, <2>3
  <2>5. \A n : n \in tree_allocated' <=>
            /\ n \in Tree!Nodes /\ i <= TreeLast(n)
            /\ ~ (n \in Tree!Counted(i) /\ tree_count[n] = 1)
    BY <1>3, <2>1
  <2>6. \A n : n \in tree_allocated' <=> n \in Tree!Nodes /\ i + 1 <= TreeLast(n)
    BY <2>2, <2>4, <2>5
  <2> QED
    BY <2>6
<1>11. ASSUME NEW n \in Tree!Nodes
       PROVE  tree_count'[n] = Cardinality(TreeLeft(n, i + 1))
  <2>1. tree_count'[n] = IF n \in Tree!Counted(i) THEN tree_count[n] - 1 ELSE tree_count[n]
    BY <1>3
  <2>2. CASE i \notin Tree!Below(n)
    <3>1. n \notin Tree!Counted(i)
      BY <1>7, <2>2
    <3>2. \A p \in TreeParts(n) : TreeLastOf(n, p) # i /\ TreeLastOf(n, p) \in Nat
      BY <2>2, TreeLastOfFacts
    <3>3. TreeLeft(n, i + 1) = TreeLeft(n, i)
      <4>1. \A p \in TreeParts(n) : i + 1 <= TreeLastOf(n, p) <=> i <= TreeLastOf(n, p)
        BY <1>4, <3>2
      <4> QED
        BY <4>1 DEF TreeLeft
    <3> QED
      BY <1>5, <2>1, <3>1, <3>3
  <2>3. CASE i \in Tree!Below(n) /\ n \notin Tree!Counted(i)
    <3>1. TreeLeft(n, i + 1) = TreeLeft(n, i)
      BY <1>6, <2>3, TreeLeftFacts
    <3> QED
      BY <1>5, <2>1, <2>3, <3>1
  <2>4. CASE i \in Tree!Below(n) /\ n \in Tree!Counted(i)
    <3>1. TreeLeft(n, i + 1) = TreeLeft(n, i) \ {TreePartOf(i, n)}
      BY <1>6, <2>4, TreeLeftFacts
    <3>2. IsFiniteSet(TreeLeft(n, i)) /\ TreePartOf(i, n) \in TreeLeft(n, i)
      BY <2>4, TreeLeftFacts
    <3>3. Cardinality(TreeLeft(n, i) \ {TreePartOf(i, n)}) = Cardinality(TreeLeft(n, i)) - 1
      BY <3>2, FS_RemoveElement
    <3> QED
      BY <1>5, <2>1, <2>4, <3>1, <3>3
  <2> QED
    BY <2>2, <2>3, <2>4
<1>12. TreeCleanInv'
  <2>1. \A t \in Tree!Threads : Tree!Finished(t)'
    BY <1>3 DEF Tree!Finished
  <2> QED
    BY <1>3, <1>10, <1>11, <2>1 DEF TreeCleanInv, TreeLeft
<1> QED
  BY <1>8, <1>9, <1>12 DEF TreeIInv

-----------------------------------------------------------------------------
LEMMA TreeIInvStep == TreeIInv /\ [Tree!Next]_(Tree!vars) => TreeIInv'
<1> SUFFICES ASSUME TreeIInv, [Tree!Next]_(Tree!vars) PROVE TreeIInv'
  OBVIOUS
<1>1. ASSUME UNCHANGED Tree!vars
      PROVE  TreeIInv'
  <2>1. /\ tree_count' = tree_count /\ tree_signal' = tree_signal
        /\ tree_allocated' = tree_allocated
        /\ tree_generation' = tree_generation /\ tree_pc' = tree_pc
        /\ tree_barack' = tree_barack
        /\ tree_my_signal' = tree_my_signal /\ tree_crossed' = tree_crossed
        /\ tree_cleaned' = tree_cleaned
    BY <1>1 DEF Tree!vars, Tree!shared
  <2>2. /\ \A t, n : TreeHolds(t, n)' = TreeHolds(t, n)
        /\ \A t : TreeRound(t)' = TreeRound(t)
        /\ \A t : Tree!Finished(t)' = Tree!Finished(t)
        /\ \A n : TreeResetting(n)' = TreeResetting(n)
    BY <2>1 DEF TreeHolds, TreeRound, Tree!Finished, TreeResetting
  <2>3. \A n \in Tree!Nodes : TreeArrived(n)' = TreeArrived(n)
    BY <2>1, <2>2 DEF TreeArrived, TreeCountedAt
  <2>4. TreeTypeInv' /\ TreePlaceInv'
    BY <2>1, <2>2 DEF TreeIInv, TreeTypeInv, TreePlaceInv
  <2>5. TreeRoundInv' /\ TreeHoldInv'
    BY <2>1, <2>2 DEF TreeIInv, TreeRoundInv, TreeHoldInv
  <2>6. TreeCountInv'
    BY <2>1, <2>2, <2>3 DEF TreeIInv, TreeCountInv
  <2>7. TreeCleanInv'
    BY <2>1, <2>2 DEF TreeIInv, TreeCleanInv
  <2> QED
    BY <2>4, <2>5, <2>6, <2>7 DEF TreeIInv
<1>2. CASE \E t \in Tree!Threads : Tree!Step(t)
  BY <1>2, TreeCallStep, TreeLoadSignalStep, TreeCountDownStep, TreeResetCountStep,
       TreeToggleSignalStep, TreeSpinExitStep
     DEF Tree!Step
<1> QED
  BY <1>1, <1>2, TreeFreeStep DEF Tree!Next, Tree!Terminated

\* The inductive invariant of the tree holds, whatever its size and arity.
THEOREM TreeInvariance == Tree!Init /\ [][Tree!Next]_(Tree!vars) => []TreeIInv
BY TreeInitIInv, TreeIInvStep, PTL

LEMMA TreeFrees == TreeIInv => Tree!FreesAll
<1> SUFFICES ASSUME TreeIInv PROVE Tree!FreesAll
  OBVIOUS
<1>1. /\ tree_allocated = {n \in Tree!Nodes : tree_cleaned <= TreeLast(n)}
      /\ tree_cleaned \in 0 .. TreeN
  BY DEF TreeIInv, TreeCleanInv, TreeTypeInv
<1>2. ASSUME tree_cleaned < TreeN, NEW n \in Tree!Counted(tree_cleaned)
      PROVE  n \in tree_allocated
  <2>1. n \in Tree!Nodes /\ tree_cleaned \in Tree!Below(n)
    BY DEF Tree!Counted
  <2> QED
    BY <1>1, <2>1, TreeLastOfFacts
<1>3. ASSUME tree_cleaned = TreeN, NEW n \in Tree!Nodes
      PROVE  ~ (tree_cleaned <= TreeLast(n))
  BY <1>3, TreeNodeFacts, TreeSizes DEF Tree!Threads
<1> QED
  BY <1>1, <1>2, <1>3 DEF Tree!FreesAll

-----------------------------------------------------------------------------
\* Before a thread leaves its leaf, either the root has been released in its
\* round, or the leaf is the root, and the others wait there.
LEMMA TreeAllHaveEntered ==
    ASSUME TreeIInv, NEW t \in Tree!Threads, Tree!Kids(tree_barack[t]) = {},
           tree_pc[t] = "toggle" \/ (tree_pc[t] = "spin" /\ tree_signal[tree_barack[t]] # tree_my_signal[t]),
           NEW u \in Tree!Threads
    PROVE  tree_crossed[t] < Tree!Entered(u)
<1>1. TreeTypeInv /\ TreePlaceInv /\ TreeRoundInv /\ TreeHoldInv
  BY DEF TreeIInv
<1>2. PICK n \in Tree!Nodes : n = tree_barack[t]
  BY <1>1 DEF TreeTypeInv
<1>3. n \in TreeOver(t) /\ TreeN # 1
  BY <1>1, <1>2 DEF TreePlaceInv
<1>4. /\ Tree!Root \in TreeOver(t) /\ Tree!Root \in TreeOver(u) /\ Tree!Size(n) \in Nat
      /\ Tree!Size(Tree!Root) \in Nat
      /\ Tree!Size(n) <= Tree!Size(Tree!Root) /\ (Tree!Size(n) = Tree!Size(Tree!Root) => n = Tree!Root)
  BY <1>3, TreeRootOver, TreeOverFacts
<1>5. /\ TreeRound(t) = tree_crossed[t] /\ TreeRound(u) = tree_crossed[u]
      /\ tree_crossed[t] \in Nat /\ tree_crossed[u] \in Nat
  BY <1>1, <1>3 DEF TreeRound, TreeTypeInv
<1>6. tree_generation[Tree!Root] = TreeRound(t) + 1 \/ (n = Tree!Root /\ tree_pc[t] = "toggle")
  <2>1. CASE tree_pc[t] = "toggle"
    <3>1. Tree!Size(n) < Tree!Size(Tree!Root) \/ n = Tree!Root
      BY <1>4
    <3> QED
      BY <1>1, <1>2, <1>4, <2>1, <3>1 DEF TreeRoundInv
  <2>2. CASE tree_pc[t] = "spin" /\ tree_signal[n] # tree_my_signal[t]
    <3>1. tree_my_signal[t] = TreeRound(t) % 2 /\ tree_signal[n] = tree_generation[n] % 2
      BY <1>1, <2>2 DEF TreePlaceInv, TreeTypeInv
    <3>2. tree_generation[n] = TreeRound(t) + 1
      BY <1>1, <1>3, <2>2, <3>1 DEF TreeRoundInv
    <3>3. /\ tree_generation[n] <= tree_generation[Tree!Root]
          /\ tree_generation[Tree!Root] \in {TreeRound(t), TreeRound(t) + 1}
      BY <1>1, <1>3, <1>4 DEF TreeRoundInv
    <3> QED
      BY <1>5, <3>2, <3>3
  <2> QED
    BY <1>2, <2>1, <2>2
<1>7. CASE t = u
  BY <1>5, <1>7, TreeSizes DEF Tree!Entered
<1>8. CASE t # u /\ n = Tree!Root /\ tree_pc[t] = "toggle"
  <2>1. TreeHolds(t, Tree!Root)
    BY <1>2, <1>3, <1>8 DEF TreeHolds
  <2>2. tree_pc[u] = "spin" /\ TreeRound(u) = TreeRound(t)
    BY <1>1, <1>4, <1>8, <2>1 DEF TreeHoldInv
  <2> QED
    BY <1>5, <2>2 DEF Tree!Entered
<1>9. CASE tree_generation[Tree!Root] = TreeRound(t) + 1
  <2>1. tree_generation[Tree!Root] \in {TreeRound(u), TreeRound(u) + 1}
    BY <1>1, <1>4 DEF TreeRoundInv
  <2>2. CASE TreeRound(u) = TreeRound(t) + 1
    BY <1>5, <2>2 DEF Tree!Entered
  <2>3. CASE TreeRound(u) = TreeRound(t)
    <3>1. tree_pc[u] \notin {"ready", "load", "count"}
      BY <1>1, <1>4, <1>5, <1>9, <2>3 DEF TreeRoundInv
    <3>2. tree_pc[u] \in {"spin", "reset", "toggle"}
      BY <1>1, <3>1 DEF TreeTypeInv, TreePoints
    <3> QED
      BY <1>5, <2>3, <3>2 DEF Tree!Entered
  <2> QED
    BY <1>5, <1>9, <2>1, <2>2, <2>3
<1> QED
  BY <1>6, <1>7, <1>8, <1>9

\* A thread that returns leaves the barrier, or only the call of a node.
LEMMA TreeReturnLeaves ==
    ASSUME TreeIInv, NEW t \in Tree!Threads, Tree!Return(t),
           tree_pc[t] = "toggle" \/ (tree_pc[t] = "spin" /\ tree_signal[tree_barack[t]] # tree_my_signal[t])
    PROVE  Tree!AbstractBarrier!Leave(t) \/ UNCHANGED Tree!AbstractBarrier!vars
<1>1. TreeTypeInv /\ TreePlaceInv
  BY DEF TreeIInv
<1>2. PICK n \in Tree!Nodes : n = tree_barack[t]
  BY <1>1 DEF TreeTypeInv
<1>3. tree_crossed \in [Tree!Threads -> Nat]
  BY <1>1 DEF TreeTypeInv
<1>4. CASE Tree!Kids(n) = {}
  <2>1. /\ tree_crossed' = [tree_crossed EXCEPT ![t] = tree_crossed[t] + 1]
        /\ tree_pc' = [tree_pc EXCEPT ![t] = "ready"] /\ tree_barack' = tree_barack
    BY <1>2, <1>4 DEF Tree!Return, Tree!Goto
  <2>2. \A u \in Tree!Threads : tree_crossed[t] < Tree!Entered(u)
    BY <1>2, <1>4, TreeAllHaveEntered
  <2>3. ASSUME NEW u \in Tree!Threads PROVE Tree!Entered(u)' = Tree!Entered(u)
    <3>1. CASE u = t
      <4>1. Tree!Entered(t) = tree_crossed[t] + 1
        BY <1>4 DEF Tree!Entered
      <4>2. /\ tree_crossed'[t] = tree_crossed[t] + 1 /\ tree_pc'[t] = "ready"
            /\ tree_barack'[t] = n
        BY <1>1, <1>2, <1>3, <2>1 DEF TreeTypeInv
      <4>3. Tree!Entered(t)' = tree_crossed[t] + 1
        BY <1>3, <1>4, <4>2 DEF Tree!Entered
      <4> QED
        BY <3>1, <4>1, <4>3
    <3>2. CASE u # t
      BY <1>1, <2>1, <3>2 DEF TreeTypeInv, Tree!Entered
    <3> QED
      BY <3>1, <3>2
  <2>4. Tree!AbstractBarrier!Leave(t)
    BY <2>1, <2>2, <2>3 DEF Tree!AbstractBarrier!Leave
  <2> QED
    BY <2>4
<1>5. CASE Tree!Kids(n) # {}
  <2>1. /\ tree_crossed' = tree_crossed /\ tree_pc' = [tree_pc EXCEPT ![t] = "reset"]
        /\ tree_barack' = [tree_barack EXCEPT ![t] = Tree!KidOn(t, n)]
    BY <1>2, <1>5 DEF Tree!Return, Tree!Goto
  <2>2. ASSUME NEW u \in Tree!Threads PROVE Tree!Entered(u)' = Tree!Entered(u)
    <3>1. CASE u = t
      <4>1. Tree!Entered(t) = tree_crossed[t] + 1
        BY DEF Tree!Entered
      <4>2. tree_crossed'[t] = tree_crossed[t] /\ tree_pc'[t] = "reset"
        BY <1>1, <2>1 DEF TreeTypeInv
      <4>3. Tree!Entered(t)' = tree_crossed[t] + 1
        BY <4>2 DEF Tree!Entered
      <4> QED
        BY <3>1, <4>1, <4>3
    <3>2. CASE u # t
      BY <1>1, <2>1, <3>2 DEF TreeTypeInv, Tree!Entered
    <3> QED
      BY <3>1, <3>2
  <2> QED
    BY <2>1, <2>2 DEF Tree!AbstractBarrier!vars
<1> QED
  BY <1>4, <1>5

\* A thread is counted in its leaf: it has entered the barrier.
LEMMA TreeCountDownEnters ==
    ASSUME TreeIInv, NEW t \in Tree!Threads, Tree!CountDown(t)
    PROVE  Tree!AbstractBarrier!Enter(t) \/ UNCHANGED Tree!AbstractBarrier!vars
<1>1. TreeTypeInv /\ TreePlaceInv
  BY DEF TreeIInv
<1>2. PICK n \in Tree!Nodes : n = tree_barack[t]
  BY <1>1 DEF TreeTypeInv
<1>3. tree_crossed \in [Tree!Threads -> Nat] /\ tree_crossed' = tree_crossed
  BY <1>1 DEF TreeTypeInv, Tree!CountDown
<1> DEFINE last == tree_count[n] = 1
<1>4. /\ tree_pc[t] = "count"
      /\ tree_pc' = [tree_pc EXCEPT ![t] = IF ~last THEN "spin" ELSE IF n = Tree!Root THEN "reset" ELSE "load"]
      /\ tree_barack' = IF last /\ n # Tree!Root THEN [tree_barack EXCEPT ![t] = Tree!Dad(n)] ELSE tree_barack
  BY <1>2 DEF Tree!CountDown, Tree!Goto
<1>5. \A u \in Tree!Threads : u # t => Tree!Entered(u)' = Tree!Entered(u)
  BY <1>1, <1>3, <1>4 DEF TreeTypeInv, Tree!Entered
<1>6. Tree!Entered(t)' = tree_crossed[t] + 1
  <2>1. CASE ~last \/ n = Tree!Root
    <3>1. tree_pc'[t] \in {"spin", "reset"}
      BY <1>1, <1>4, <2>1 DEF TreeTypeInv
    <3> QED
      BY <1>3, <3>1 DEF Tree!Entered
  <2>2. CASE last /\ n # Tree!Root
    <3>1. tree_barack'[t] = Tree!Dad(n)
      BY <1>1, <1>4, <2>2 DEF TreeTypeInv
    <3>2. Tree!Kids(tree_barack'[t]) # {}
      BY <2>2, <3>1, TreeDadFacts
    <3> QED
      BY <1>3, <3>2 DEF Tree!Entered
  <2> QED
    BY <2>1, <2>2
<1>7. CASE Tree!Kids(n) = {}
  <2>1. Tree!Entered(t) = tree_crossed[t]
    BY <1>2, <1>3, <1>4, <1>7 DEF Tree!Entered
  <2> QED
    BY <1>3, <1>5, <1>6, <2>1 DEF Tree!AbstractBarrier!Enter
<1>8. CASE Tree!Kids(n) # {}
  <2>1. Tree!Entered(t) = tree_crossed[t] + 1
    BY <1>2, <1>8 DEF Tree!Entered
  <2> QED
    BY <1>3, <1>5, <1>6, <2>1 DEF Tree!AbstractBarrier!vars
<1> QED
  BY <1>7, <1>8

\* The tree barrier keeps the promise of a barrier.  (A single thread does not use
\* its tree: in the model it enters and leaves in one step.)
THEOREM TreeRefinement ==
    ASSUME TreeN # 1
    PROVE  Tree!Init /\ [][Tree!Next]_(Tree!vars) => Tree!AbstractBarrier!SafeSpec
<1>1. Tree!Init => Tree!AbstractBarrier!Init
  <2> SUFFICES ASSUME Tree!Init PROVE Tree!AbstractBarrier!Init
    OBVIOUS
  <2>1. \A t \in Tree!Threads : Tree!Entered(t) = 0
    BY TreeLeafFacts DEF Tree!Init, Tree!Entered
  <2> QED
    BY <2>1 DEF Tree!Init, Tree!AbstractBarrier!Init
<1>2. TreeIInv /\ [Tree!Next]_(Tree!vars) => [Tree!AbstractBarrier!Next]_(Tree!AbstractBarrier!vars)
  <2> SUFFICES ASSUME TreeIInv, [Tree!Next]_(Tree!vars)
               PROVE  Tree!AbstractBarrier!Next \/ UNCHANGED Tree!AbstractBarrier!vars
    OBVIOUS
  <2>1. ASSUME NEW t \in Tree!Threads, Tree!Step(t)
        PROVE  Tree!AbstractBarrier!Enter(t) \/ Tree!AbstractBarrier!Leave(t) \/ UNCHANGED Tree!AbstractBarrier!vars
    <3>1. ASSUME Tree!Call(t) \/ Tree!LoadSignal(t) \/ Tree!ResetCount(t)
          PROVE  UNCHANGED Tree!AbstractBarrier!vars
      <4>1. /\ tree_crossed' = tree_crossed /\ tree_barack' = tree_barack
            /\ \/ /\ tree_pc[t] \in {"ready", "load"}
                  /\ tree_pc' = [tree_pc EXCEPT ![t] = IF tree_pc[t] = "load" THEN "count" ELSE "load"]
               \/ tree_pc[t] = "reset" /\ tree_pc' = [tree_pc EXCEPT ![t] = "toggle"]
        BY <3>1 DEF Tree!Call, Tree!LoadSignal, Tree!ResetCount, Tree!Goto
      <4>2. \A u \in Tree!Threads :
                tree_pc'[u] \in {"spin", "reset", "toggle"} <=> tree_pc[u] \in {"spin", "reset", "toggle"}
        BY <4>1 DEF TreeIInv, TreeTypeInv
      <4>3. \A u \in Tree!Threads : Tree!Entered(u)' = Tree!Entered(u)
        BY <4>1, <4>2 DEF Tree!Entered
      <4> QED
        BY <4>1, <4>3 DEF Tree!AbstractBarrier!vars
    <3>2. CASE Tree!CountDown(t)
      BY <3>2, TreeCountDownEnters
    <3>3. CASE Tree!ToggleSignal(t) \/ Tree!SpinExit(t)
      BY <3>3, TreeReturnLeaves DEF Tree!ToggleSignal, Tree!SpinExit
    <3> QED
      BY <2>1, <3>1, <3>2, <3>3 DEF Tree!Step
  <2>2. CASE Tree!Free \/ UNCHANGED Tree!vars
    <3>1. tree_crossed' = tree_crossed /\ tree_barack' = tree_barack /\ tree_pc' = tree_pc
      BY <2>2 DEF Tree!Free, Tree!vars
    <3>2. \A u \in Tree!Threads : Tree!Entered(u)' = Tree!Entered(u)
      BY <3>1 DEF Tree!Entered
    <3> QED
      BY <3>1, <3>2 DEF Tree!AbstractBarrier!vars
  <2> QED
    BY <2>1, <2>2 DEF Tree!Next, Tree!Terminated, Tree!AbstractBarrier!Next
<1> QED
  BY <1>1, <1>2, TreeInvariance, PTL DEF Tree!AbstractBarrier!SafeSpec

-----------------------------------------------------------------------------
\* What MCThrcomm does to the tree is what TreeBarrier does.
LEMMA TreeBehaves == MCSpec => Tree!Init /\ [][Tree!Next]_(Tree!vars)
<1>1. MCInit => Tree!Init
  BY DEF MCInit
<1>2. [MCNext]_MCvars => [Tree!Next]_(Tree!vars)
  <2> SUFFICES ASSUME [MCNext]_MCvars
               PROVE  Tree!Next \/ UNCHANGED Tree!vars
    OBVIOUS
  <2>1. UNCHANGED tree_vars => UNCHANGED Tree!vars
    BY DEF tree_vars, Tree!vars, Tree!shared
  <2>2. CASE UNCHANGED MCvars
    BY <2>1, <2>2 DEF MCvars
  <2>3. ASSUME NEW t \in 0 .. TreeN - 1, MCStep(t)
        PROVE  Tree!Next \/ UNCHANGED tree_vars
    <3>1. t \in Tree!Threads
      BY DEF Tree!Threads
    <3> QED
      BY <2>3, <3>1 DEF MCStep, Others, Tree!Next
  <2> QED
    BY <2>1, <2>2, <2>3 DEF MCNext, MCTerminated
<1> QED
  BY <1>1, <1>2, PTL DEF MCSpec

\* bli_thrcomm_cleanup_openmp calls bli_thrcomm_tree_barrier_free once for each
\* leaf: no call touches a node that was freed, and in the end all are.
THEOREM TreeIsFreed == MCSpec => []TreeFreesAll
<1>1. TreeIInv => TreeFreesAll
  BY TreeFrees DEF TreeFreesAll
<1> QED
  BY <1>1, TreeBehaves, TreeInvariance, PTL
=============================================================================
