------------------------------- MODULE Thrcomm -------------------------------
(***************************************************************************)
(* The thread communicator thrcomm_t of src/frame/thread/bli_thrcomm.c:    *)
(* the sense-reversing barrier bli_thrcomm_barrier_atomic, one atomic      *)
(* memory access per step, and bli_thrcomm_bcast, which is built from two  *)
(* barriers and a shared pointer.  It is what the OpenMP and the pthreads  *)
(* implementations run by default.                                         *)
(*                                                                         *)
(* The threads of a communicator execute the same list of collective       *)
(* calls (every caller in frame/ is SPMD); Calls is that list.  The object *)
(* that the chief sends in its k-th call is represented by k and NULL by   *)
(* 0, so a receiver that reads another call's object is seen to do so.     *)
(* Memory is sequentially consistent here: the acquire/release pairs of    *)
(* the code order the one plain store (barrier_threads_arrived = 0) before *)
(* the toggle that publishes it.                                           *)
(***************************************************************************)
EXTENDS Integers, Sequences, FiniteSets

CONSTANTS
    N,          \* n_threads of the communicator
    Calls       \* the collective calls each thread makes, in order (the
                \* bound of the model: the code may make any number)

ASSUME NAssumption == N \in Nat \ {0}
ASSUME CallsAssumption == Calls \in Seq({"barrier", "bcast"})

Threads == 0 .. N - 1       \* thread ids; the chief is 0
NULL == 0
Objects == 0 .. Len(Calls)

VARIABLES
    \* the fields of the shared thrcomm_t
    barrier_sense,
    barrier_threads_arrived,
    sent_object,
    \* the local state of each thread
    pc,             \* the access the thread makes next
    call,           \* number of the call it is in, or of the last one it made
    resume,         \* where the barrier in progress returns to
    orig_sense,     \* the sense it read on entry to the barrier
    object,         \* the value its last bcast returned
    \* history: completed barriers of the communicator and of each thread
    generation,
    crossed

shared == <<barrier_sense, barrier_threads_arrived, sent_object>>
local == <<pc, call, resume, orig_sense, object>>
history == <<generation, crossed>>
vars == <<shared, local, history>>

Inside == {"reset", "toggle", "spin"}
Points == {"ready", "send", "load", "arrive", "receive"} \cup Inside

TypeOK ==
    /\ barrier_sense \in {0, 1}
    /\ barrier_threads_arrived \in 0 .. N
    /\ sent_object \in Objects
    /\ pc \in [Threads -> Points]
    /\ call \in [Threads -> 0 .. Len(Calls)]
    /\ resume \in [Threads -> {"receive", "ready"}]
    /\ orig_sense \in [Threads -> {0, 1}]
    /\ object \in [Threads -> Objects]
    /\ generation \in Nat
    /\ crossed \in [Threads -> Nat]

-----------------------------------------------------------------------------

\* bli_thrcomm_init: the fields the init function of the threading
\* implementation sets.
Init ==
    /\ barrier_sense = 0
    /\ barrier_threads_arrived = 0
    /\ sent_object = NULL
    /\ pc = [t \in Threads |-> "ready"]
    /\ call = [t \in Threads |-> 0]
    /\ resume = [t \in Threads |-> "ready"]
    /\ orig_sense = [t \in Threads |-> 0]
    /\ object = [t \in Threads |-> NULL]
    /\ generation = 0
    /\ crossed = [t \in Threads |-> 0]

Goto(t, point) == pc' = [pc EXCEPT ![t] = point]

\* A barrier call, or a broadcast by a thread other than the chief (whose
\* first access to the communicator is the barrier's).  A communicator of
\* one thread returns at once, from a broadcast with to_send.
CallBarrier(t) ==
    /\ pc[t] = "ready"
    /\ call[t] < Len(Calls)
    /\ Calls[call[t] + 1] = "barrier"
    /\ call' = [call EXCEPT ![t] = @ + 1]
    /\ resume' = [resume EXCEPT ![t] = "ready"]
    /\ Goto(t, IF N = 1 THEN "ready" ELSE "load")
    /\ UNCHANGED <<shared, orig_sense, object, history>>

CallBcast(t) ==
    /\ pc[t] = "ready"
    /\ call[t] < Len(Calls)
    /\ Calls[call[t] + 1] = "bcast"
    /\ call' = [call EXCEPT ![t] = @ + 1]
    /\ IF N = 1
         THEN /\ object' = [object EXCEPT ![t] = call[t] + 1]
              /\ resume' = resume
              /\ pc' = pc
         ELSE /\ resume' = [resume EXCEPT ![t] = "receive"]
              /\ Goto(t, IF t = 0 THEN "send" ELSE "load")
              /\ object' = object
    /\ UNCHANGED <<shared, orig_sense, history>>

\* if ( id == 0 ) comm->sent_object = to_send;
Send(t) ==
    /\ pc[t] = "send"
    /\ sent_object' = call[t]
    /\ Goto(t, "load")
    /\ UNCHANGED <<barrier_sense, barrier_threads_arrived, call, resume,
                   orig_sense, object, history>>

\* Mutant of Receive: the second barrier is missing.
ReceiveOnly(t) ==
    /\ pc[t] = "receive"
    /\ object' = [object EXCEPT ![t] = sent_object]
    /\ resume' = [resume EXCEPT ![t] = "ready"]
    /\ Goto(t, "ready")
    /\ UNCHANGED <<shared, call, orig_sense, history>>

\* void* object = comm->sent_object; and on to the second barrier
Receive(t) ==
    /\ pc[t] = "receive"
    /\ object' = [object EXCEPT ![t] = sent_object]
    /\ resume' = [resume EXCEPT ![t] = "ready"]
    /\ Goto(t, "load")
    /\ UNCHANGED <<shared, call, orig_sense, history>>

-----------------------------------------------------------------------------
\* bli_thrcomm_barrier_atomic

\* gint_t orig_sense = __atomic_load_n( &comm->barrier_sense, RELAXED )
LoadSense(t) ==
    /\ pc[t] = "load"
    /\ orig_sense' = [orig_sense EXCEPT ![t] = barrier_sense]
    /\ Goto(t, "arrive")
    /\ UNCHANGED <<shared, call, resume, object, history>>

\* Mutant of Arrive: the last but one arrival ends the barrier.
ArriveEarly(t) ==
    /\ pc[t] = "arrive"
    /\ barrier_threads_arrived' = barrier_threads_arrived + 1
    /\ Goto(t, IF barrier_threads_arrived' = N - 1 THEN "reset" ELSE "spin")
    /\ UNCHANGED <<barrier_sense, sent_object, call, resume, orig_sense,
                   object, history>>

\* __atomic_add_fetch( &comm->barrier_threads_arrived, 1 ) and the test of
\* its result against n_threads
Arrive(t) ==
    /\ pc[t] = "arrive"
    /\ barrier_threads_arrived' = barrier_threads_arrived + 1
    /\ Goto(t, IF barrier_threads_arrived' = N THEN "reset" ELSE "spin")
    /\ UNCHANGED <<barrier_sense, sent_object, call, resume, orig_sense,
                   object, history>>

\* Mutant of ResetArrived: the reset is missing.
ResetForgotten(t) ==
    /\ pc[t] = "reset"
    /\ Goto(t, "toggle")
    /\ UNCHANGED <<shared, call, resume, orig_sense, object, history>>

\* comm->barrier_threads_arrived = 0
ResetArrived(t) ==
    /\ pc[t] = "reset"
    /\ barrier_threads_arrived' = 0
    /\ Goto(t, "toggle")
    /\ UNCHANGED <<barrier_sense, sent_object, call, resume, orig_sense,
                   object, history>>

Return(t) ==
    /\ Goto(t, resume[t])
    /\ crossed' = [crossed EXCEPT ![t] = @ + 1]

\* Mutant of ToggleSense: the sense is stored, not toggled.
SetSense(t) ==
    /\ pc[t] = "toggle"
    /\ barrier_sense' = 1
    /\ generation' = generation + 1
    /\ Return(t)
    /\ UNCHANGED <<barrier_threads_arrived, sent_object, call, resume,
                   orig_sense, object>>

\* __atomic_fetch_xor( &comm->barrier_sense, 1 )
ToggleSense(t) ==
    /\ pc[t] = "toggle"
    /\ barrier_sense' = 1 - barrier_sense
    /\ generation' = generation + 1
    /\ Return(t)
    /\ UNCHANGED <<barrier_threads_arrived, sent_object, call, resume,
                   orig_sense, object>>

\* The iteration of the spin loop that sees the sense changed; the others
\* change nothing.
SpinExit(t) ==
    /\ pc[t] = "spin"
    /\ barrier_sense # orig_sense[t]
    /\ Return(t)
    /\ UNCHANGED <<shared, call, resume, orig_sense, object, generation>>

-----------------------------------------------------------------------------

Step(t) ==
    \/ CallBarrier(t) \/ CallBcast(t) \/ Send(t) \/ Receive(t)
    \/ LoadSense(t) \/ Arrive(t) \/ ResetArrived(t)
    \/ ToggleSense(t) \/ SpinExit(t)

Finished(t) == pc[t] = "ready" /\ call[t] = Len(Calls)

\* The threads have made all their calls: the only state without a step.
Terminated == (\A t \in Threads : Finished(t)) /\ UNCHANGED vars

Next == (\E t \in Threads : Step(t)) \/ Terminated

\* Each thread is scheduled again and again (a dedicated OpenMP or POSIX
\* thread), so it makes its next access in the end.
Fairness == \A t \in Threads : WF_vars(Step(t))

SafeSpec == Init /\ [][Next]_vars
Spec == SafeSpec /\ Fairness

-----------------------------------------------------------------------------

Entered(t) == crossed[t] + (IF pc[t] \in Inside THEN 1 ELSE 0)

\* No thread returns from a barrier that another thread has not reached:
\* what every caller relies on when it reads what its peers wrote before
\* the barrier.
BarrierSync == \A t, u \in Threads : crossed[t] <= Entered(u)

\* bli_thrcomm_bcast: from its read of sent_object to its next call a
\* thread holds the object the chief sent in that very call; neither the
\* chief's previous nor its next broadcast can reach it.
HasReceived(t) ==
    /\ call[t] > 0
    /\ Calls[call[t]] = "bcast"
    /\ resume[t] = "ready" \/ N = 1

BcastAgreement == \A t \in Threads : HasReceived(t) => object[t] = call[t]

\* A thread that spins waits for a toggle still to come, or it sees the
\* one that came: a toggle is never overtaken by the next one while a
\* thread still spins on the sense before it (it would spin for ever).
NoLostToggle ==
    \A t \in Threads : pc[t] = "spin" =>
        /\ crossed[t] \in {generation - 1, generation}
        /\ (barrier_sense = orig_sense[t]) <=> (crossed[t] = generation)

-----------------------------------------------------------------------------
(***************************************************************************)
(* The inductive invariant behind the four properties above.  Arrivals are *)
(* the threads counted by the barrier in progress.  Barriers are numbered  *)
(* by their place in Calls: 2k for the last (or only) barrier of call k,   *)
(* 2k-1 for the first barrier of a broadcast.                              *)
(***************************************************************************)
Arrivals == {t \in Threads : Entered(t) = generation + 1}

SenseInv(t) ==
    /\ pc[t] # "spin" => crossed[t] = generation
    /\ pc[t] = "spin" =>
          \/ crossed[t] = generation /\ orig_sense[t] = barrier_sense
          \/ crossed[t] = generation - 1 /\ orig_sense[t] # barrier_sense
    /\ pc[t] = "arrive" => orig_sense[t] = barrier_sense
    /\ pc[t] \in {"reset", "toggle"} => Arrivals = Threads

OneLastInv ==
    \A t, u \in Threads :
        pc[t] \in {"reset", "toggle"} /\ pc[u] \in {"reset", "toggle"} => t = u

CountInv ==
    barrier_threads_arrived = IF \E t \in Threads : pc[t] = "toggle"
                                THEN 0 ELSE Cardinality(Arrivals)

BarrierInv == (\A t \in Threads : SenseInv(t)) /\ OneLastInv /\ CountInv

\* The barrier t is in or about to enter, and the last one it completed.
Current(t) == 2 * call[t] - (IF resume[t] = "receive" THEN 1 ELSE 0)

LastDone(t) ==
    CASE pc[t] = "ready" -> 2 * call[t]
      [] pc[t] = "receive" -> 2 * call[t] - 1
      [] OTHER -> IF resume[t] = "ready" /\ Calls[call[t]] = "bcast"
                    THEN 2 * call[t] - 1
                    ELSE 2 * call[t] - 2

\* The communicator's last completed barrier, as thread t accounts for it.
LastOfComm(t) == IF crossed[t] = generation THEN LastDone(t) ELSE Current(t)

PointInv(t) ==
    /\ pc[t] # "ready" => call[t] > 0 /\ N > 1
    /\ pc[t] \in {"send", "receive"} => resume[t] = "receive"
    /\ pc[t] # "ready" /\ resume[t] = "receive" => Calls[call[t]] = "bcast"
    /\ pc[t] = "send" => t = 0
    /\ pc[t] = "ready" => resume[t] = "ready"

AgreeInv == \A t, u \in Threads : LastOfComm(t) = LastOfComm(u)

SentInv ==
    N > 1 /\ call[0] > 0 /\ pc[0] # "send" /\ Calls[call[0]] = "bcast"
        => sent_object = call[0]

CallInv == (\A t \in Threads : PointInv(t)) /\ AgreeInv /\ SentInv

IInv == TypeOK /\ BarrierInv /\ CallInv /\ BcastAgreement

-----------------------------------------------------------------------------

\* The communicator's barrier implements the abstract one.
AbstractBarrier == INSTANCE Barrier WITH
    entered <- [t \in Threads |-> Entered(t)], left <- crossed
ImplementsBarrier == AbstractBarrier!Spec
=============================================================================
