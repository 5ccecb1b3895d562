------------------------------- MODULE ThrInfo -------------------------------
(***************************************************************************)
(* The trees of thrinfo_t nodes that the threads of one level-3 operation  *)
(* build together (src/frame/thread/bli_thrinfo.c, bli_l3_thrinfo.c), use, *)
(* rebuild (bli_l3_sup_thrinfo_update) and free, between the entry and the *)
(* return of the thread decorator.  Each thread has its own tree; the      *)
(* nodes of different threads share communicators, which the thread with   *)
(* id 0 of each (its chief) creates and frees.                             *)
(*                                                                         *)
(* A barrier is two steps here, an arrival and an exit from the spin loop; *)
(* Thrcomm has its detail.  Communicators and the arrays in which they are *)
(* handed out are named by where they are created, <<epoch, node, thread>>,*)
(* so that memory that is freed is never mistaken for memory that is       *)
(* allocated later.                                                        *)
(***************************************************************************)
EXTENDS Integers, Sequences

CONSTANTS
    NT,         \* number of threads of the operation
    Operations  \* operations, one of which is executed: [trees, work]
                \* trees: those that are built, one after the other: two if the
                \*   sup handler refactorizes.  A tree is the list of calls of
                \*   bli_thrinfo_split, in order: [par |-> the node that is
                \*   split, by number, the root being 1; way |-> n_way]
                \* work: the nodes at whose communicators the operation then
                \*   synchronises, in order

Threads == 0 .. NT - 1

\* The number of threads in the communicator of each node of a tree.
TeamSize(tree) ==
    LET size[i \in 1 .. Len(tree) + 1] ==
            IF i = 1 THEN NT ELSE size[tree[i - 1].par] \div tree[i - 1].way
    IN  size

\* A node is split after it has been made, and into equal teams: the ways of
\* the rntm_t have the product NT, so that bli_thrinfo_split never aborts.
ASSUME TreesAssumption ==
    /\ NT \in Nat \ {0}
    /\ \A o \in Operations :
        /\ o.trees \in Seq(Seq([par : Nat, way : Nat])) /\ o.trees # <<>>
        /\ o.work \in Seq(1 .. Len(o.trees[Len(o.trees)]) + 1)
        /\ \A e \in DOMAIN o.trees : \A i \in DOMAIN o.trees[e] :
            LET tree == o.trees[e]
            IN  /\ tree[i].par \in 1 .. i
                /\ tree[i].way \in 1 .. NT
                /\ TeamSize(tree)[tree[i].par] % tree[i].way = 0

NULL == <<>>
GL_COMM == <<0, 1, 0>>      \* made by bli_thread_launch, freed after the join
SINGLE_COMM == <<0, 0, 0>>  \* BLIS_SINGLE_COMM

VARIABLES
    op,         \* the operation that is executed
    comms,      \* the thrcomm_t objects created so far, by name
    arrays,     \* the temporary arrays new_comms of bli_thrinfo_split
    \* each thread
    pc,
    ret,        \* where the barrier in progress returns to
    at,         \* its communicator
    orig_sense,
    epoch,      \* the tree the thread is at
    nodes,      \* its nodes, in the order of their creation
    gone,       \* those whose communicators it has freed
    new_comms,  \* the array it was handed
    worked      \* the number of synchronisations of its work it has done

shared == <<comms, arrays>>
treeVars == <<epoch, nodes, gone, new_comms>>
vars == <<op, shared, pc, ret, at, orig_sense, treeVars, worked>>

-----------------------------------------------------------------------------

\* bli_thrcomm_init
NewComm(n) == [live |-> TRUE, n_threads |-> n, arrived |-> 0, sense |-> 0,
               sent_object |-> NULL]

\* The array new_comms before it is filled, one element for each work id.
NoComms == [w \in Threads |-> NULL]

\* The objects f and one more, of that name
With(f, name, object) ==
    [x \in DOMAIN f \cup {name} |-> IF x = name THEN object ELSE f[x]]

\* bli_thrinfo_create
Node(comm, n, id, way, work, free) ==
    [comm |-> comm, num_threads |-> n, thread_id |-> id, n_way |-> way,
     work_id |-> work, free_comm |-> free]

\* bli_thread_launch makes gl_comm; every thread makes its root node
\* (bli_thrinfo_create_root) in bli_l3_thrinfo_create.
Init ==
    /\ op \in Operations
    /\ comms = [c \in {GL_COMM, SINGLE_COMM} |-> NewComm(IF c = GL_COMM THEN NT ELSE 1)]
    /\ arrays = <<>>
    /\ pc = [t \in Threads |-> "grow"]
    /\ ret = [t \in Threads |-> "grow"]
    /\ at = [t \in Threads |-> GL_COMM]
    /\ orig_sense = [t \in Threads |-> 0]
    /\ epoch = [t \in Threads |-> 1]
    /\ nodes = [t \in Threads |-> <<Node(GL_COMM, NT, t, 1, 0, FALSE)>>]
    /\ gone = [t \in Threads |-> {}]
    /\ new_comms = [t \in Threads |-> NULL]
    /\ worked = [t \in Threads |-> 0]

\* bli_thrinfo_barrier, which returns to point; with one thread it returns
\* at once.
Barrier(t, node, point) ==
    /\ at' = [at EXCEPT ![t] = node.comm]
    /\ ret' = [ret EXCEPT ![t] = point]
    /\ pc' = [pc EXCEPT ![t] = IF node.num_threads = 1 THEN point ELSE "arrive"]

Goto(t, point) == pc' = [pc EXCEPT ![t] = point] /\ UNCHANGED <<at, ret>>

Arrive(t) ==
    /\ pc[t] = "arrive"
    /\ LET comm == comms[at[t]]
           last == comm.arrived + 1 = comm.n_threads
       IN  /\ comms' = [comms EXCEPT
                ![at[t]].arrived = IF last THEN 0 ELSE comm.arrived + 1,
                ![at[t]].sense = IF last THEN 1 - comm.sense ELSE comm.sense]
           /\ orig_sense' = [orig_sense EXCEPT ![t] = comm.sense]
           /\ Goto(t, IF last THEN ret[t] ELSE "spin")
    /\ UNCHANGED <<arrays, treeVars, worked>>

\* Mutant of SpinExit: it waits for the count to be reset, not for the sense.
SpinOnCount(t) ==
    /\ pc[t] = "spin"
    /\ comms[at[t]].arrived = 0
    /\ Goto(t, ret[t])
    /\ UNCHANGED <<shared, orig_sense, treeVars, worked>>

SpinExit(t) ==
    /\ pc[t] = "spin"
    /\ comms[at[t]].sense # orig_sense[t]
    /\ Goto(t, ret[t])
    /\ UNCHANGED <<shared, orig_sense, treeVars, worked>>

-----------------------------------------------------------------------------
\* bli_thrinfo_split.  In the middle of a split by thread t:

Split(t) == op.trees[epoch[t]][Len(nodes[t])]
Parent(t) == nodes[t][Split(t).par]
ChildSize(t) == Parent(t).num_threads \div Split(t).way
\* Mutant of ChildWork, as if teams were not contiguous.
ChildWorkByWay(t) == Parent(t).thread_id % Split(t).way

ChildId(t) == Parent(t).thread_id % ChildSize(t)
ChildWork(t) == Parent(t).thread_id \div ChildSize(t)
\* The name of what t creates for the node in the making.
Name(t) == <<epoch[t], Len(nodes[t]) + 1, t>>

TreeDone(t) == Len(nodes[t]) = Len(op.trees[epoch[t]]) + 1

\* Mutant of Attach: the thread keeps its id.
AttachWithOldId(t, comm, free) ==
    nodes' = [nodes EXCEPT ![t] = Append(@,
        Node(comm, ChildSize(t), Parent(t).thread_id, Split(t).way, ChildWork(t), free))]

Attach(t, comm, free) ==
    nodes' = [nodes EXCEPT ![t] = Append(@,
        Node(comm, ChildSize(t), ChildId(t), Split(t).way, ChildWork(t), free))]

\* The child keeps the parent's communicator, or every thread works alone.
SplitTrivial(t) ==
    /\ pc[t] = "grow" /\ ~TreeDone(t)
    /\ Split(t).way \in {1, Parent(t).num_threads}
    /\ Attach(t, IF Split(t).way = 1 THEN Parent(t).comm ELSE SINGLE_COMM, FALSE)
    /\ Barrier(t, Parent(t), "grow")
    /\ UNCHANGED <<shared, orig_sense, epoch, gone, new_comms, worked>>

\* The parent's chief makes the array and broadcasts it.
SplitBcast(t) ==
    /\ pc[t] = "grow" /\ ~TreeDone(t)
    /\ Split(t).way \notin {1, Parent(t).num_threads}
    /\ IF Parent(t).thread_id = 0
         THEN /\ arrays' = With(arrays, Name(t), [live |-> TRUE, elem |-> NoComms])
              /\ comms' = [comms EXCEPT ![Parent(t).comm].sent_object = Name(t)]
         ELSE UNCHANGED shared
    /\ Barrier(t, Parent(t), "receive")
    /\ UNCHANGED <<orig_sense, treeVars, worked>>

SplitReceive(t) ==
    /\ pc[t] = "receive"
    /\ new_comms' = [new_comms EXCEPT ![t] = comms[Parent(t).comm].sent_object]
    /\ Barrier(t, Parent(t), "fill")
    /\ UNCHANGED <<shared, orig_sense, epoch, nodes, gone, worked>>

\* The chief of each new team creates its communicator.
SplitFill(t) ==
    /\ pc[t] = "fill"
    /\ IF ChildId(t) = 0
         THEN /\ comms' = With(comms, Name(t), NewComm(ChildSize(t)))
              /\ arrays' = [arrays EXCEPT ![new_comms[t]].elem[ChildWork(t)] = Name(t)]
         ELSE UNCHANGED shared
    /\ Barrier(t, Parent(t), "attach")
    /\ UNCHANGED <<orig_sense, treeVars, worked>>

\* Mutant of SplitAttach: the last barrier is missing.
AttachAtOnce(t) ==
    /\ pc[t] = "attach"
    /\ Attach(t, arrays[new_comms[t]].elem[ChildWork(t)], TRUE)
    /\ Goto(t, "drop")
    /\ UNCHANGED <<shared, orig_sense, epoch, gone, new_comms, worked>>

SplitAttach(t) ==
    /\ pc[t] = "attach"
    /\ Attach(t, arrays[new_comms[t]].elem[ChildWork(t)], TRUE)
    /\ Barrier(t, Parent(t), "drop")
    /\ UNCHANGED <<shared, orig_sense, epoch, gone, new_comms, worked>>

\* The parent's chief, who made the array, frees it or leaves its frame.
SplitDrop(t) ==
    /\ pc[t] = "drop"
    /\ IF nodes[t][op.trees[epoch[t]][Len(nodes[t]) - 1].par].thread_id = 0
         THEN arrays' = [arrays EXCEPT ![new_comms[t]].live = FALSE]
         ELSE UNCHANGED arrays
    /\ Goto(t, "grow")
    /\ UNCHANGED <<comms, orig_sense, treeVars, worked>>

-----------------------------------------------------------------------------

\* bli_l3_sup_thrinfo_update goes on to free what is below the root
\* (immediately: there is no barrier), unless there is one thread; the last
\* tree is used for the operation.
TreeReady(t) ==
    /\ pc[t] = "grow" /\ TreeDone(t)
    /\ IF epoch[t] < Len(op.trees) THEN Goto(t, "update") ELSE Goto(t, "work")
    /\ UNCHANGED <<shared, orig_sense, treeVars, worked>>

DoWork(t) ==
    /\ pc[t] = "work" /\ worked[t] < Len(op.work)
    /\ worked' = [worked EXCEPT ![t] = @ + 1]
    /\ Barrier(t, nodes[t][op.work[worked[t] + 1]], "work")
    /\ UNCHANGED <<shared, orig_sense, treeVars>>

\* Mutant of Close: the barrier is missing.
CloseAtOnce(t) ==
    /\ pc[t] = "work" /\ worked[t] = Len(op.work)
    /\ Goto(t, "free")
    /\ UNCHANGED <<shared, orig_sense, treeVars, worked>>

\* The closing bli_thrinfo_barrier( thread ) of the thread decorators.
Close(t) ==
    /\ pc[t] = "work" /\ worked[t] = Len(op.work)
    /\ Barrier(t, nodes[t][1], "free")
    /\ UNCHANGED <<shared, orig_sense, treeVars, worked>>

\* Mutant of Owned: not only the chief frees.
OwnedByAll(t) == {i \in DOMAIN nodes[t] \ gone[t] : nodes[t][i].free_comm}

\* The nodes of t that own a communicator (free_comm) of which t is the
\* chief, and which it has not freed yet.
Owned(t) == {i \in DOMAIN nodes[t] \ gone[t] :
                nodes[t][i].free_comm /\ nodes[t][i].thread_id = 0}

\* Node j is in the subtree of node i.
Below(tree, i, j) ==
    LET below[k \in 1 .. Len(tree) + 1] == k = i \/ (k > i /\ below[tree[k - 1].par])
    IN  below[j]

\* bli_thrinfo_free frees all below a node before the node itself, and the
\* sub-nodes in order: the first of the nodes with nothing left below them
\* is next.
NextFreed(t) ==
    LET lowest == {i \in Owned(t) :
                      \A j \in Owned(t) \ {i} : ~Below(op.trees[epoch[t]], i, j)}
    IN  CHOOSE i \in lowest : \A j \in lowest : i <= j

\* The communicators that bli_thrinfo_free frees.  That the nodes themselves
\* go back to the small block pool of their thread is not seen by others.
FreeComm(t) ==
    /\ pc[t] \in {"update", "free"} /\ Owned(t) # {}
    /\ comms' = [comms EXCEPT ![nodes[t][NextFreed(t)].comm].live = FALSE]
    /\ gone' = [gone EXCEPT ![t] = @ \cup {NextFreed(t)}]
    /\ UNCHANGED <<arrays, pc, ret, at, orig_sense, epoch, nodes, new_comms, worked>>

\* The rest of bli_l3_sup_thrinfo_update: grow another tree from the root.
Regrow(t) ==
    /\ pc[t] = "update" /\ Owned(t) = {}
    /\ nodes' = [nodes EXCEPT ![t] = <<@[1]>>]
    /\ gone' = [gone EXCEPT ![t] = {}]
    /\ epoch' = [epoch EXCEPT ![t] = @ + 1]
    /\ Goto(t, "grow")
    /\ UNCHANGED <<shared, orig_sense, new_comms, worked>>

Finish(t) ==
    /\ pc[t] = "free" /\ Owned(t) = {}
    /\ Goto(t, "done")
    /\ UNCHANGED <<shared, orig_sense, treeVars, worked>>

-----------------------------------------------------------------------------

Step(t) ==
    /\ \/ Arrive(t) \/ SpinExit(t)
       \/ SplitTrivial(t) \/ SplitBcast(t) \/ SplitReceive(t) \/ SplitFill(t)
       \/ SplitAttach(t) \/ SplitDrop(t)
       \/ TreeReady(t) \/ DoWork(t) \/ Close(t)
       \/ FreeComm(t) \/ Regrow(t) \/ Finish(t)
    /\ UNCHANGED op

AllDone == \A t \in Threads : pc[t] = "done"

\* The join of bli_thread_launch: gl_comm is cleaned up.
Join ==
    /\ AllDone /\ comms[GL_COMM].live
    /\ comms' = [comms EXCEPT ![GL_COMM].live = FALSE]
    /\ UNCHANGED <<op, arrays, pc, ret, at, orig_sense, treeVars, worked>>

Terminated == AllDone /\ ~comms[GL_COMM].live /\ UNCHANGED vars

Next == (\E t \in Threads : Step(t)) \/ Join \/ Terminated

\* Every thread is a thread of the system, and runs.
Spec == Init /\ [][Next]_vars /\ (\A t \in Threads : WF_vars(Step(t))) /\ WF_vars(Join)

-----------------------------------------------------------------------------

\* No thread touches a communicator that has been freed, neither to arrive
\* at its barrier nor to look whether its peers have: what the NOTE in the
\* thread decorators says their closing barrier is for (bli_l3_sup_decor.c,
\* bli_l3_decor.c: "it prevents memory being released by the chief of some
\* thread sub-group before its peers are done using it").
NoUseAfterFree ==
    \A t \in Threads : pc[t] \in {"arrive", "spin"} => comms[at[t]].live

\* So it is from the last tree's growth to the end of the operation: the
\* closing barrier lets nobody free a communicator that is in use.
ClosedBeforeFree ==
    \A t \in Threads :
        pc[t] \in {"arrive", "spin"} /\ epoch[t] = Len(op.trees) => comms[at[t]].live

\* The temporary array of communicators, on the chief's stack or heap,
\* outlives all its readers, and each finds its communicator in it.
ArrayOutlivesReaders ==
    \A t \in Threads :
        /\ pc[t] \in {"fill", "attach"} =>
            new_comms[t] \in DOMAIN arrays /\ arrays[new_comms[t]].live
        /\ pc[t] = "attach" => arrays[new_comms[t]].elem[ChildWork(t)] # NULL

NoDoubleFree ==
    \A t \in Threads : \A i \in Owned(t) : comms[nodes[t][i].comm].live

NothingLeftBehind ==
    AllDone => /\ \A c \in DOMAIN comms \ {GL_COMM, SINGLE_COMM} : ~comms[c].live
               /\ \A a \in DOMAIN arrays : ~arrays[a].live

\* A communicator is freed by one thread, once, and none is left behind, nor
\* an array (bli_thrinfo_free, which each thread calls for its own tree).
FreedOnce == NoDoubleFree /\ NothingLeftBehind

SameTeam(t, u, i) ==
    /\ epoch[t] = epoch[u]
    /\ nodes[t][i].comm = nodes[u][i].comm
    /\ nodes[t][i].comm # SINGLE_COMM

\* The threads that share a communicator at the same node of their trees
\* have different ids below its n_threads: each barrier is awaited by as
\* many threads as arrive, and has one chief.
TeamsAgree ==
    \A t, u \in Threads : \A i \in DOMAIN nodes[t] \cap DOMAIN nodes[u] :
        SameTeam(t, u, i) =>
            /\ nodes[t][i].thread_id < comms[nodes[t][i].comm].n_threads
            /\ t # u => nodes[t][i].thread_id # nodes[u][i].thread_id

\* No two threads are given the same part of the operation: a team that is
\* split gets different work ids in each new team, so that two threads of
\* one team have different (work id, thread id) pairs below it.
DistinctWork ==
    \A t, u \in Threads : \A i \in (DOMAIN nodes[t] \cap DOMAIN nodes[u]) \ {1} :
        t # u /\ SameTeam(t, u, op.trees[epoch[t]][i - 1].par) =>
            <<nodes[t][i].work_id, nodes[t][i].thread_id>>
                # <<nodes[u][i].work_id, nodes[u][i].thread_id>>

\* Nobody waits for ever: the barriers of nested teams, and those of the
\* old and the new tree, are called in an order that lets all threads
\* return from the operation.
AllReturn == <>(AllDone /\ ~comms[GL_COMM].live)
=============================================================================
