------------------------------- MODULE LibInit -------------------------------
(***************************************************************************)
(* Initialization and finalization of the library by the threads of an     *)
(* application (src/frame/base/bli_init.c): five sub-APIs, each behind a   *)
(* bli_pthread_switch_t (src/frame/thread/bli_pthread.c), which tests its  *)
(* status once without and once with its lock.  Every computational        *)
(* operation begins with bli_init_once; only an application calls          *)
(* bli_finalize.                                                           *)
(*                                                                         *)
(* A switch runs its init or finalize function in two steps, so that the   *)
(* other threads can be seen to wait, or not to.  All of the functions     *)
(* return 0.  The library is finalized by threads that no longer need it:  *)
(* no call of bli_init_once overlaps one of bli_finalize.                  *)
(***************************************************************************)
EXTENDS Integers, Sequences

CONSTANTS
    Threads,
    MaxCalls,   \* calls of bli_init_once and bli_finalize by a thread (the
                \* bound of the model)
    NULL

ASSUME LibInitAssumption == NULL \notin Threads /\ MaxCalls \in Nat

\* bli_init_apis, in order; bli_finalize_apis takes the reverse.
Apis == <<"gks", "ind", "thread", "rntm", "memsys">>
ThreadLocal == {"ind", "rntm"}

\* The switch of an API that thread t sees.
Switch(t, api) == <<api, IF api \in ThreadLocal THEN t ELSE NULL>>
Switches == {Switch(t, Apis[i]) : t \in Threads, i \in 1 .. Len(Apis)}

VARIABLES
    in_order,   \* the machine: whether other threads see a thread's stores in
                \* their order, as on x86; on ARM and POWER the plain store of
                \* status may be seen before those of the function before it
    status,     \* status[sw] = 1 iff switch sw is on
    mutex,      \* mutex[sw]: the thread that holds its lock, or NULL
    up,         \* whether the data behind the switch is initialized, as the
                \* threads that do not hold its lock see it
    \* each thread
    pc,
    op,         \* "init" or "finalize"
    api,        \* the number of APIs done with in this call
    calls,      \* calls begun
    \* history
    cycle,      \* init/finalize cycles begun: the calls of bli_gks_init
    born,       \* the cycle in which the data behind a switch was initialized
    ready,      \* the threads whose last call was bli_init_once, and has
                \* returned with no bli_finalize begun since
    closed      \* the same with the two exchanged

thread == <<pc, op, api, calls>>
history == <<cycle, born, ready, closed>>
vars == <<in_order, status, mutex, up, thread, history>>

Init ==
    /\ in_order \in BOOLEAN
    /\ status = [sw \in Switches |-> 0]
    /\ mutex = [sw \in Switches |-> NULL]
    /\ up = [sw \in Switches |-> FALSE]
    /\ pc = [t \in Threads |-> "idle"]
    /\ op = [t \in Threads |-> "init"]
    /\ api = [t \in Threads |-> 0]
    /\ calls = [t \in Threads |-> 0]
    /\ cycle = 0
    /\ born = [sw \in Switches |-> 0]
    /\ ready = {}
    /\ closed = {}

Goto(t, point) == pc' = [pc EXCEPT ![t] = point]

\* The switch that t is at.
Current(t) ==
    Switch(t, Apis[IF op[t] = "init" THEN api[t] + 1 ELSE Len(Apis) - api[t]])

\* The status that makes the function of t's call necessary.
Before(t) == IF op[t] = "init" THEN 0 ELSE 1

-----------------------------------------------------------------------------

Call(t, o) ==
    /\ pc[t] = "idle" /\ calls[t] < MaxCalls
    /\ \A u \in Threads : pc[u] # "idle" => op[u] = o
    /\ op' = [op EXCEPT ![t] = o]
    /\ api' = [api EXCEPT ![t] = 0]
    /\ calls' = [calls EXCEPT ![t] = @ + 1]
    /\ Goto(t, "test")
    /\ ready' = IF o = "init" THEN ready \ {t} ELSE {}
    /\ closed' = IF o = "init" THEN {} ELSE closed \ {t}
    /\ UNCHANGED <<in_order, status, mutex, up, cycle, born>>

\* On to the next API, or out of the call.
SwitchReturn(t) ==
    /\ api' = [api EXCEPT ![t] = @ + 1]
    /\ IF api[t] + 1 < Len(Apis)
         THEN Goto(t, "test") /\ UNCHANGED <<ready, closed>>
         ELSE /\ Goto(t, "idle")
              /\ ready' = IF op[t] = "init" THEN ready \cup {t} ELSE ready
              /\ closed' = IF op[t] = "init" THEN closed ELSE closed \cup {t}

\* The first test of status, without the lock.
Test(t) ==
    /\ pc[t] = "test"
    /\ IF status[Current(t)] = Before(t)
         THEN Goto(t, "lock") /\ UNCHANGED <<api, ready, closed>>
         ELSE SwitchReturn(t)
    /\ UNCHANGED <<status, mutex, up, op, calls, cycle, born>>

\* Mutant of Lock: it does not wait.
LockAtOnce(t) ==
    /\ pc[t] = "lock"
    /\ mutex' = [mutex EXCEPT ![Current(t)] = t]
    /\ Goto(t, "retest")
    /\ UNCHANGED <<status, up, op, api, calls, history>>

Lock(t) ==
    /\ pc[t] = "lock"
    /\ mutex[Current(t)] = NULL
    /\ mutex' = [mutex EXCEPT ![Current(t)] = t]
    /\ Goto(t, "retest")
    /\ UNCHANGED <<status, up, op, api, calls, history>>

\* Mutant of Retest: the switch is turned before the function runs.
RetestTurning(t) ==
    /\ pc[t] = "retest"
    /\ IF status[Current(t)] = Before(t)
         THEN /\ up' = [up EXCEPT ![Current(t)] = FALSE]
              /\ status' = [status EXCEPT ![Current(t)] = 1 - Before(t)]
              /\ cycle' = IF op[t] = "init" /\ Current(t)[1] = "gks"
                            THEN cycle + 1 ELSE cycle
              /\ Goto(t, "run")
         ELSE Goto(t, "unlock") /\ UNCHANGED <<up, status, cycle>>
    /\ UNCHANGED <<mutex, op, api, calls, born, ready, closed>>

\* The second test; init() or deinit() begins.  While it runs the data is
\* not to be used.
Retest(t) ==
    /\ pc[t] = "retest"
    /\ IF status[Current(t)] = Before(t)
         THEN /\ up' = [up EXCEPT ![Current(t)] = FALSE]
              /\ cycle' = IF op[t] = "init" /\ Current(t)[1] = "gks"
                            THEN cycle + 1 ELSE cycle
              /\ Goto(t, "run")
         ELSE Goto(t, "unlock") /\ UNCHANGED <<up, cycle>>
    /\ UNCHANGED <<status, mutex, op, api, calls, born, ready, closed>>

\* The function returns 0, and the switch is turned.  What the function
\* stored is seen by then, or may be later.
FunctionReturn(t) ==
    /\ pc[t] = "run"
    /\ status' = [status EXCEPT ![Current(t)] = 1 - Before(t)]
    /\ born' = [born EXCEPT ![Current(t)] = IF op[t] = "init" THEN cycle ELSE @]
    /\ \/ /\ up' = [up EXCEPT ![Current(t)] = op[t] = "init"]
          /\ Goto(t, "unlock")
       \/ /\ ~in_order
          /\ Goto(t, "drain")
          /\ UNCHANGED up
    /\ UNCHANGED <<mutex, op, api, calls, cycle, ready, closed>>

\* It is seen before the unlock (a release) at the latest.
StoresSeen(t) ==
    /\ pc[t] = "drain"
    /\ up' = [up EXCEPT ![Current(t)] = op[t] = "init"]
    /\ Goto(t, "unlock")
    /\ UNCHANGED <<status, mutex, op, api, calls, history>>

\* Mutant of Unlock: the lock is kept.
UnlockForgotten(t) ==
    /\ pc[t] = "unlock"
    /\ SwitchReturn(t)
    /\ UNCHANGED <<status, mutex, up, op, calls, cycle, born>>

Unlock(t) ==
    /\ pc[t] = "unlock"
    /\ mutex' = [mutex EXCEPT ![Current(t)] = NULL]
    /\ SwitchReturn(t)
    /\ UNCHANGED <<status, up, op, calls, cycle, born>>

-----------------------------------------------------------------------------

Step(t) ==
    /\ \/ Test(t) \/ Lock(t) \/ Retest(t) \/ FunctionReturn(t) \/ StoresSeen(t)
       \/ Unlock(t)
    /\ UNCHANGED in_order

Terminated ==
    (\A t \in Threads : pc[t] = "idle" /\ calls[t] = MaxCalls) /\ UNCHANGED vars

Next ==
    \/ \E t \in Threads : Step(t) \/ \E o \in {"init", "finalize"} : Call(t, o)
    \/ Terminated

\* The threads run.
Spec == Init /\ [][Next]_vars /\ \A t \in Threads : WF_vars(Step(t))

-----------------------------------------------------------------------------

\* The function of an API runs in one thread at a time, which has found the
\* switch the other way.
SwitchExcludes ==
    \A t \in Threads : pc[t] = "run" =>
        /\ status[Current(t)] = Before(t)
        /\ \A u \in Threads \ {t} : pc[u] = "run" => Current(u) # Current(t)

\* bli_ind_init and bli_memsys_init query the context that bli_gks_init has
\* registered, so gks is up whenever they run.
GksBeforeUse ==
    \A t \in Threads :
        /\ in_order /\ pc[t] = "run" /\ op[t] = "init"
        /\ Current(t)[1] \in {"ind", "memsys"}
        => up[Switch(t, "gks")]

\* Each init function runs in one thread at a time, on data that is down, and
\* each finalize function on data that is up ("called once by ONLY ONE
\* application thread per library init/finalize cycle", bli_gks_init and
\* bli_memsys_init), after those that it depends on.
OneAtATime == SwitchExcludes /\ GksBeforeUse

GlobalSwitches == {sw \in Switches : sw[1] \notin ThreadLocal}

Initialized(t) == \A i \in 1 .. Len(Apis) : up[Switch(t, Apis[i])]

\* A thread that has returned from bli_init_once finds every API initialized,
\* whoever initialized it, until someone finalizes the library: the test
\* without the lock does not let it overtake an initialization in progress,
\* where stores are seen in order.  The global APIs are those of the present
\* cycle; the thread-local ones may be left from an earlier one.
ReadyOnReturn ==
    in_order => \A t \in ready :
        Initialized(t) /\ \A sw \in GlobalSwitches : born[sw] = cycle

\* When a thread has returned from bli_finalize, the global APIs are down
\* until someone initializes the library again.
DownOnReturn ==
    \A t \in closed : \A i \in 1 .. Len(Apis) : ~up[Switch(t, Apis[i])]

\* What the calls promise to those who come back from them.
CallsTakeEffect == ReadyOnReturn /\ DownOnReturn

\* Initialization and finalization end.
CallsReturn == \A t \in Threads : []<>(pc[t] = "idle")

=============================================================================
