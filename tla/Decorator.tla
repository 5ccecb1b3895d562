------------------------------ MODULE Decorator ------------------------------
(***************************************************************************)
(* The life of level-3 operations from the call to the return: what the    *)
(* application's threads ask for in the global runtime object and in their *)
(* own (Rntm), the decorator (src/frame/3/bli_l3_decor.c and its sup twin) *)
(* that turns the request into ways and a number of threads, checks an     *)
(* array out of the small block allocator (bli_sba.c, bli_apool.c,         *)
(* bli_array.c), launches the threads of the operation and checks the      *)
(* array in again.                                                         *)
(*                                                                         *)
(* An operation's threads meet in the barriers of its communicator; here   *)
(* they meet once, in the one that closes the operation.  What they do     *)
(* before it is in ThrInfo and Packm, which rely on the ways to multiply   *)
(* to the number of threads.                                               *)
(***************************************************************************)
EXTENDS Rntm, FiniteSets, Sequences

CONSTANTS
    Apps,           \* threads of the application
    AtInit,         \* the rntm_t that the environment makes (FromEnv)
    Numbers,        \* numbers of threads that are asked for
    WaysSet,        \* ways <<jc, ic, jr, ir>> that are asked for
    Sizes,          \* sizes <<m, n>> of C: if one is 0, the operation returns
                    \* before it comes to the decorator
    Available,      \* threading implementations in the library
    BlockPtrsLen,   \* first length of block_ptrs (8 in the code)
    MaxSettings,    \* bounds: settings that each thread makes,
    MaxOps          \* and operations that it calls

ASSUME DecoratorAssumption ==
    /\ IsFiniteSet(Apps)
    /\ AtInit \in RntmType /\ AtInit = Sanitize(AtInit)
    /\ Numbers \subseteq Int /\ WaysSet \subseteq Int \X Int \X Int \X Int
    /\ Sizes \subseteq (Nat \ {0}) \X (Nat \ {0})
    /\ Available \subseteq Impls /\ "single" \in Available
    /\ BlockPtrsLen \in Nat \ {0}
    /\ MaxSettings \in [Apps -> Nat] /\ MaxOps \in [Apps -> Nat]

NoArray == 0                \* arrays are numbered from 1 as they are made
def_array_len == 1

VARIABLES
    tls,            \* is the global rntm_t thread-local? (never changes)
    global_rntm,    \* of each thread, or of all of them
    user_rntm,      \* the rntm_t that each application thread has declared
    asked,          \* the threads it asked for there, 0 if for ways
    \* the small block allocator: pool_t of array_t*, and the array_t's
    block_ptrs,     \* a function on 0 .. block_ptrs_len - 1
    num_blocks,
    top_index,
    num_elem,       \* num_elem[x]: length of array x
    elems,          \* elems[x]: the indices whose pool_t* is not NULL
    pools,          \* the pool_t's that are allocated, as <<x, index, serial>>
    \* the operation of each application thread
    pc,
    rntm_l,
    wanted,         \* asked, at the call; 0 if the global rntm_t is used
    array,          \* the array it has checked out
    n_threads,      \* n_threads of its gl_comm
    state,          \* state[a][t]: thread t of the operation
    \* bounds, and the end
    settings, ops,
    ended           \* "no", "finalized", or why bli_abort was called

rntms == <<global_rntm, user_rntm, asked, settings>>
sba == <<block_ptrs, num_blocks, top_index, num_elem, elems, pools>>
running == <<rntm_l, wanted, array, n_threads, state>>
vars == <<tls, rntms, sba, pc, running, ops, ended>>

Cell(a) == IF tls THEN a ELSE "shared"
Global(a) == global_rntm[Cell(a)]

Arrays == 1 .. num_blocks
Team(a) == DOMAIN state[a]

\* bli_rntm_init, bli_apool_init
Init ==
    /\ tls \in BOOLEAN
    /\ global_rntm = [c \in IF tls THEN Apps ELSE {"shared"} |-> AtInit]
    /\ user_rntm = [a \in Apps |-> Initializer]
    /\ asked = [a \in Apps |-> 0]
    /\ block_ptrs = [i \in 0 .. BlockPtrsLen - 1 |-> NoArray]
    /\ num_blocks = 0
    /\ top_index = 0
    /\ num_elem = <<>> /\ elems = <<>>
    /\ pools = {}
    /\ pc = [a \in Apps |-> "idle"]
    /\ rntm_l = [a \in Apps |-> Initializer]
    /\ wanted = [a \in Apps |-> 0]
    /\ array = [a \in Apps |-> NoArray]
    /\ n_threads = [a \in Apps |-> 0]
    /\ state = [a \in Apps |-> <<>>]
    /\ settings = [a \in Apps |-> 0]
    /\ ops = [a \in Apps |-> 0]
    /\ ended = "no"

Goto(a, point) == pc' = [pc EXCEPT ![a] = point]

Sets(a) ==
    /\ ended = "no" /\ pc[a] = "idle" /\ settings[a] < MaxSettings[a]
    /\ settings' = [settings EXCEPT ![a] = @ + 1]
    /\ UNCHANGED <<tls, sba, pc, running, ops, ended>>

\* bli_thread_set_num_threads, _set_ways, _set_thread_impl and _reset, each
\* under the mutex if the global rntm_t is shared
SetGlobal(a) ==
    /\ Sets(a)
    /\ \E r \in {GlobalSetNumThreads(nt, Global(a)) : nt \in Numbers}
           \cup {GlobalSetWays(w[1], w[2], w[3], w[4], Global(a)) : w \in WaysSet}
           \cup {SetThreadImpl(ti, Global(a)) : ti \in Impls}
           \cup {AtInit} :
          global_rntm' = [global_rntm EXCEPT ![Cell(a)] = r]
    /\ UNCHANGED <<user_rntm, asked>>

\* bli_rntm_set_num_threads; bli_rntm_set_ways, _set_thread_impl and
\* _init_from_global
SetLocal(a) ==
    /\ Sets(a)
    /\ \/ \E nt \in Numbers :
             /\ user_rntm' = [user_rntm EXCEPT ![a] = SetNumThreads(nt, @)]
             /\ asked' = [asked EXCEPT ![a] = nt]
       \/ \E r \in {SetWays(w[1], w[2], w[3], w[4], user_rntm[a]) : w \in WaysSet}
              \cup {SetThreadImpl(ti, user_rntm[a]) : ti \in Impls}
              \cup {Global(a)} :
             /\ user_rntm' = [user_rntm EXCEPT ![a] = r]
             /\ asked' = [asked EXCEPT ![a] = 0]
    /\ UNCHANGED global_rntm

-----------------------------------------------------------------------------
\* bli_l3_thread_decorator, bli_l3_sup_thread_decorator

\* Conflicting requests are resolved for the threading implementation.
Resolved(r) ==
    IF r.nt > 1 /\ r.ti = "single" THEN [ClearWays(r) EXCEPT !.nt = 1] ELSE r

\* The call copies the global rntm_t or takes the user's, and factors its
\* number of threads; an implementation that is not there is an error.
Begin(a) ==
    /\ ended = "no" /\ pc[a] = "idle" /\ ops[a] < MaxOps[a]
    /\ ops' = [ops EXCEPT ![a] = @ + 1]
    /\ \E own \in BOOLEAN, s \in Sizes :
          LET r == IF own THEN user_rntm[a] ELSE Global(a)
          IN /\ wanted' = [wanted EXCEPT ![a] = IF own THEN asked[a] ELSE 0]
             /\ \E f \in {Factorize(s[1], s[2], r), FactorizeSup(s[1], s[2], r)} :
                   rntm_l' = [rntm_l EXCEPT ![a] = Resolved(f)]
             /\ IF r.ti \in Available
                  THEN Goto(a, "checkout") /\ UNCHANGED ended
                  ELSE ended' = "unavailable" /\ UNCHANGED pc
    /\ UNCHANGED <<tls, rntms, sba, array, n_threads, state>>

\* bli_apool_grow: a new array, in block_ptrs of twice the length if the old
\* one is full.  Only the entries of arrays that are in are copied; those
\* below top_index are undefined.
GrownPtrs ==
    LET len == Cardinality(DOMAIN block_ptrs)
    IN IF num_blocks < len
         THEN [block_ptrs EXCEPT ![num_blocks] = num_blocks + 1]
         ELSE [i \in 0 .. 2 * len - 1 |->
                 IF i = num_blocks THEN num_blocks + 1
                 ELSE IF i \in top_index .. num_blocks - 1 THEN block_ptrs[i]
                 ELSE NoArray]

\* bli_apool_checkout_array, up to the unlock
Checkout(a) ==
    /\ ended = "no" /\ pc[a] = "checkout"
    /\ IF top_index < num_blocks
         THEN /\ array' = [array EXCEPT ![a] = block_ptrs[top_index]]
              /\ UNCHANGED <<block_ptrs, num_blocks, num_elem, elems>>
         ELSE /\ block_ptrs' = GrownPtrs
              /\ num_blocks' = num_blocks + 1
              /\ num_elem' = Append(num_elem, def_array_len)
              /\ elems' = Append(elems, {})
              /\ array' = [array EXCEPT ![a] = num_blocks + 1]
    /\ top_index' = top_index + 1
    /\ Goto(a, "resize")
    /\ UNCHANGED <<tls, rntms, pools, rntm_l, wanted, n_threads, state, ops, ended>>

\* Mutant of KeptElems: the new buffer is all zero.
KeptElemsNone(a) ==
    IF rntm_l[a].nt > num_elem[array[a]] THEN {} ELSE elems[array[a]]

\* bli_array_resize: the array grows to one element for each thread, and
\* keeps the elements it had.
NewLength(a) ==
    IF rntm_l[a].nt > num_elem[array[a]] THEN rntm_l[a].nt
    ELSE num_elem[array[a]]

KeptElems(a) == elems[array[a]]

\* It is called without the lock.
Resize(a) ==
    /\ ended = "no" /\ pc[a] = "resize"
    /\ num_elem' = [num_elem EXCEPT ![array[a]] = NewLength(a)]
    /\ elems' = [elems EXCEPT ![array[a]] = KeptElems(a)]
    /\ Goto(a, "launch")
    /\ UNCHANGED <<tls, rntms, block_ptrs, num_blocks, top_index, pools, running,
                   ops, ended>>

\* bli_thread_launch: a communicator for n_threads, and the threads.  OpenMP
\* may start fewer than it is asked for.
Launch(a) ==
    LET nt == rntm_l[a].nt
    IN /\ ended = "no" /\ pc[a] = "launch"
       /\ \E real \in 1 .. nt :
             /\ rntm_l[a].ti = "posix" => real = nt
             /\ rntm_l[a].ti = "single" => real = 1
             /\ state' = [state EXCEPT ![a] = [t \in 0 .. real - 1 |-> "started"]]
       /\ n_threads' = [n_threads EXCEPT ![a] = IF rntm_l[a].ti = "single"
                                                  THEN 1 ELSE nt]
       /\ Goto(a, "run")
       /\ UNCHANGED <<tls, rntms, sba, rntm_l, wanted, array, ops, ended>>

\* Mutant of Checked: the communicator stays as it was.
CheckedRntm(a) ==
    IF n_threads[a] = Cardinality(Team(a)) THEN UNCHANGED <<n_threads, rntm_l>>
    ELSE /\ rntm_l' = [rntm_l EXCEPT ![a] = [ClearWays(@) EXCEPT !.nt = 1]]
         /\ UNCHANGED n_threads

\* bli_l3_thread_decorator_thread_check: the only thread there is goes on
\* alone, with a communicator that is initialized again.
Checked(a) ==
    IF n_threads[a] = Cardinality(Team(a)) THEN UNCHANGED <<n_threads, rntm_l>>
    ELSE /\ n_threads' = [n_threads EXCEPT ![a] = 1]
         /\ rntm_l' = [rntm_l EXCEPT ![a] = [ClearWays(@) EXCEPT !.nt = 1]]

\* The pool_t's allocated for one element of an array
PoolsOf(x, t) == {p \in pools : p[1] = x /\ p[2] = t}

NewPool(x, t) == <<x, t, Cardinality(PoolsOf(x, t))>>

\* The entry function up to the root of its tree: the check of the number of
\* threads, and bli_apool_array_elem, which makes the thread's pool.
Enter(a, t) ==
    LET real == Cardinality(Team(a))
    IN /\ ended = "no" /\ pc[a] = "run" /\ state[a][t] = "started"
       /\ IF n_threads[a] # real /\ real # 1
            THEN ended' = "mismatch"
                 /\ UNCHANGED <<n_threads, rntm_l, elems, pools, state>>
            ELSE /\ Checked(a)
                 /\ IF t < num_elem[array[a]]
                      THEN /\ elems' = [elems EXCEPT ![array[a]] = @ \cup {t}]
                           /\ pools' = IF t \in elems[array[a]] THEN pools
                                       ELSE pools \cup {NewPool(array[a], t)}
                           /\ state' = [state EXCEPT ![a][t] = "in"]
                           /\ UNCHANGED ended
                      ELSE ended' = "index" /\ UNCHANGED <<elems, pools, state>>
       /\ UNCHANGED <<tls, rntms, block_ptrs, num_blocks, top_index, num_elem, pc,
                      wanted, array, ops>>

\* The barrier that closes the operation has n_threads arrivals.
Leave(a, t) ==
    /\ ended = "no" /\ pc[a] = "run" /\ state[a][t] = "in"
    /\ Cardinality({u \in Team(a) : state[a][u] # "started"}) >= n_threads[a]
    /\ state' = [state EXCEPT ![a][t] = "done"]
    /\ UNCHANGED <<tls, rntms, sba, pc, rntm_l, wanted, array, n_threads, ops, ended>>

\* The threads are joined.
Join(a) ==
    /\ ended = "no" /\ pc[a] = "run"
    /\ \A t \in Team(a) : state[a][t] = "done"
    /\ state' = [state EXCEPT ![a] = <<>>]
    /\ n_threads' = [n_threads EXCEPT ![a] = 0]
    /\ Goto(a, "checkin")
    /\ UNCHANGED <<tls, rntms, sba, rntm_l, wanted, array, ops, ended>>

\* Mutant of Push: the array goes one place too far.
PushBeyond(a) ==
    /\ block_ptrs' = [block_ptrs EXCEPT ![top_index] = array[a]]
    /\ top_index' = top_index - 1

\* bli_apool_checkin_array
Push(a) ==
    /\ block_ptrs' = [block_ptrs EXCEPT ![top_index - 1] = array[a]]
    /\ top_index' = top_index - 1

Checkin(a) ==
    /\ ended = "no" /\ pc[a] = "checkin"
    /\ Push(a)
    /\ array' = [array EXCEPT ![a] = NoArray]
    /\ rntm_l' = [rntm_l EXCEPT ![a] = Initializer]
    /\ wanted' = [wanted EXCEPT ![a] = 0]
    /\ Goto(a, "idle")
    /\ UNCHANGED <<tls, rntms, num_blocks, num_elem, elems, pools, n_threads, state,
                   ops, ended>>

\* bli_apool_finalize, by bli_finalize when the operations have returned
Finalize ==
    /\ ended = "no"
    /\ \A a \in Apps : pc[a] = "idle" /\ ops[a] = MaxOps[a]
    /\ IF top_index # 0 THEN ended' = "finalize" /\ UNCHANGED sba
       ELSE /\ ended' = "finalized"
            /\ pools' = {p \in pools : ~ \E i \in 0 .. num_blocks - 1 :
                           p[1] = block_ptrs[i] /\ p[2] \in elems[p[1]]}
            /\ block_ptrs' = <<>> /\ num_blocks' = 0
            /\ num_elem' = <<>> /\ elems' = <<>>
            /\ UNCHANGED top_index
    /\ UNCHANGED <<tls, rntms, pc, running, ops>>

Step(a) ==
    \/ Checkout(a) \/ Resize(a) \/ Launch(a) \/ Join(a) \/ Checkin(a)
    \/ \E t \in Team(a) : Enter(a, t) \/ Leave(a, t)

Terminated == ended # "no" /\ UNCHANGED vars

Next ==
    \/ \E a \in Apps : SetGlobal(a) \/ SetLocal(a) \/ Begin(a) \/ Step(a)
    \/ Finalize
    \/ Terminated

\* The threads of an operation are scheduled again and again, and the mutex
\* is held for a few instructions only.  An application need not call.
Fairness == \A a \in Apps : WF_vars(Step(a))

Spec == Init /\ [][Next]_vars /\ Fairness

-----------------------------------------------------------------------------

Entered(a) == {t \in Team(a) : state[a][t] # "started"}

\* A thread that has entered the operation finds the communicator, the
\* runtime object and its ways in agreement with the threads that there are,
\* whatever the application has set and in whatever order: the trees of
\* thrinfo_t, and the barriers in them, are built from the ways and from the
\* size of the communicator (bli_l3_thrinfo_grow, bli_thrinfo_split).
TeamIsWays ==
    \A a \in Apps : Entered(a) # {} =>
        /\ n_threads[a] = Cardinality(Team(a))
        /\ rntm_l[a].nt = n_threads[a]
        /\ CalcNumThreads(rntm_l[a]) = n_threads[a]

\* Every array of the small block allocator is either in the pool, once, or
\* checked out by one operation (bli_apool_checkout_array, _checkin_array):
\* two operations never share one, so their threads use the pools without a
\* lock, and bli_apool_finalize finds every array where it belongs.
ArraysAccounted ==
    LET in == top_index .. num_blocks - 1
        out == {a \in Apps : array[a] # NoArray}
    IN /\ {block_ptrs[i] : i \in in} \cup {array[a] : a \in out} = Arrays
       /\ Cardinality(in) + Cardinality(out) = num_blocks
       /\ ended # "finalize"

\* No pool_t is lost when arrays are resized: each one is found in its
\* array, at the index of the thread it was made for, and after
\* bli_apool_finalize there is none.
PoolsKept ==
    /\ \A p \in pools : p[1] \in Arrays /\ p[2] \in elems[p[1]]
    /\ \A x \in Arrays : \A t \in elems[x] : Cardinality(PoolsOf(x, t)) = 1

\* An operation that has an implementation to run on comes to its end, or the
\* library says that it has got a different number of threads than it needs
\* (bli_l3_thread_decorator_thread_check) or that another operation has no
\* implementation.  Nothing else stops it: neither a barrier in which a
\* thread is missing, nor an index beyond the end of an array
\* (bli_array_elem), which would abort the program.
OperationsReturn ==
    \A a \in Apps : pc[a] = "checkout"
                        ~> (pc[a] = "idle" \/ ended \in {"mismatch", "unavailable"})

\* docs/Multithreading.md:314-316 of bli_rntm_set_num_threads: the object
\* "will be encoded to use a total of 6 threads", so an operation that gets it
\* uses that many.
NumThreadsHonoured ==
    \A a \in Apps : Entered(a) # {} /\ wanted[a] > 1
                        => Cardinality(Team(a)) = wanted[a]
=============================================================================
