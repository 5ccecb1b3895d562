----------------------------- MODULE PackmProofs -----------------------------
(***************************************************************************)
(* Theorems about Packm, for a team of any size, any list of packings and  *)
(* any set of blocks, from what Barrier and Allocator promise.             *)
(***************************************************************************)
EXTENDS Packm, TLAPS

\* Where a thread can be between two barriers: ret[t] is the point to which
\* the last barrier that it has entered returns.
Places ==
    {<<"ready", "ready">>, <<"alloc", "alloc">>, <<"alloc", "release">>,
     <<"alloc", "acquire">>, <<"alloc", "pack">>, <<"receive", "receive">>,
     <<"copy", "copy">>, <<"alloced", "alloced">>, <<"alloced", "pack">>,
     <<"compute", "compute">>, <<"compute", "ready">>, <<"free", "free">>,
     <<"free", "done">>}

Points == {"ready", "alloc", "receive", "copy", "alloced", "compute", "free"}

Packing == {"alloc", "receive", "copy", "alloced", "compute"}

MemType == [block : Blocks \cup {NULL}, size : Sizes]

Typed ==
    /\ k \in [Members -> 0 .. Len(Packs)]
    /\ ret \in [Members -> Points]
    /\ pc \in [Members -> {"barrier"} \cup {x[2] : x \in Places}]
    /\ entered \in [Members -> Nat] /\ left \in [Members -> Nat]
    /\ mem \in [Members -> MemType]
    /\ local_mem_s \in [live : BOOLEAN, mem : MemType]
    /\ local_mem_p \in [Members -> Nat] /\ sent \in Nat
    /\ content \in [Blocks -> [Members -> Nat]]

\* Where each thread is, by itself.
PlaceInv ==
    \A t \in Members :
        /\ \/ pc[t] = "barrier" /\ entered[t] = left[t] + 1
           \/ <<ret[t], pc[t]>> \in Places /\ entered[t] = left[t]
        /\ pc[t] \in {"release", "acquire"} => t = 0
        /\ ret[t] \in Packing => k[t] > 0

\* The barriers of a thread's list: after the one that returns to r in packing
\* i comes one that returns to s in packing j.
After(r, i, s, j) ==
    \/ s = "alloc" /\ r \in {"ready", "compute"} /\ j = i + 1
    \/ s = "free" /\ r \in {"ready", "compute"} /\ j = i /\ i = Len(Packs)
    \/ s = "ready" /\ r = "alloc" /\ j = i /\ Packs[j] = 0
    \/ s = "receive" /\ r = "alloc" /\ j = i
    \/ s = "copy" /\ r = "receive" /\ j = i
    \/ s = "alloced" /\ r = "copy" /\ j = i
    \/ s = "compute" /\ r \in {"alloc", "alloced"} /\ j = i

\* Threads that have entered equally many barriers are at the same place in
\* their lists, and no thread is more than one barrier ahead.
TogetherInv ==
    \A t, u \in Members :
        /\ left[t] <= entered[u]
        /\ entered[t] = entered[u] => ret[t] = ret[u] /\ k[t] = k[u]
        /\ entered[t] = entered[u] + 1 => After(ret[u], k[u], ret[t], k[t])

\* The chief is about to replace the block, or a thread has yet to copy the
\* description of the new one.
Switching ==
    \E t \in Members : pc[t] \in {"release", "acquire"} \/ ret[t] \in {"receive", "copy"}

\* The copies of the mem_t agree with each other and with the allocator,
\* except while the block is replaced, and after the chief's last release.
MemInv ==
    /\ ~Switching /\ pc[0] # "done" =>
          \A t \in Members : mem[t] = mem[0] /\ mem[t].block = held["team"]
    /\ \A t \in Members : mem[t].size > 0 => mem[t].block # NULL

\* All decide alike: those that have not copied the new mem_t have an old one
\* that is too small; those that pack or have packed have one that is not.
SizeInv ==
    \A t \in Members :
        /\ Switching /\ ret[t] # "alloced" => mem[t].size < Packs[k[t]]
        /\ ret[t] \in {"alloced", "compute"} \/ pc[t] = "pack" =>
              Packs[k[t]] > 0 /\ mem[t].size >= Packs[k[t]]

\* What the chief has in its hands while it replaces the block.
ChiefSends ==
    \/ ret[0] \in {"receive", "copy"}
    \/ ret[0] = "alloced" /\ pc[0] \in {"barrier", "alloced"}

ChiefInv ==
    /\ local_mem_s.live <=> pc[0] \in {"release", "acquire"} \/ ChiefSends
    /\ ret[0] \notin {"receive", "copy"} => mem[0].block = held["team"]
    /\ pc[0] = "acquire" => held["team"] = NULL
    /\ pc[0] = "done" => held["team"] = NULL
    /\ ChiefSends =>
          /\ sent = k[0]
          /\ local_mem_s.mem.block = held["team"] /\ held["team"] # NULL
          /\ local_mem_s.mem.size >= Packs[k[0]]

\* What the threads have received.
CopyInv ==
    \A t \in Members :
        /\ ret[t] = "copy" => local_mem_p[t] = k[t]
        /\ ret[t] = "alloced" /\ local_mem_s.live => mem[t] = local_mem_s.mem

\* The promise of the allocator.
AllocInv ==
    /\ held \in [{"team", "others"} -> Blocks \cup {NULL}] /\ live \subseteq Blocks
    /\ \A m \in {"team", "others"} : held[m] # NULL => held[m] \in live
    /\ held["team"] # NULL => held["team"] # held["others"]

\* The panels of all that have passed the second barrier of the packing that
\* t is in are those of this packing.
ContentInv ==
    \A t, u \in Members :
        ret[t] = "compute" /\ entered[u] >= entered[t] => content[held["team"]][u] = k[t]

IInv ==
    /\ Typed /\ PlaceInv /\ TogetherInv
    /\ MemInv /\ SizeInv /\ ChiefInv /\ CopyInv /\ AllocInv /\ ContentInv

-----------------------------------------------------------------------------

\* The sizes in the list are numbers.
LEMMA PacksType ==
    /\ Len(Packs) \in Nat /\ MaxSize \in Nat
    /\ \A i \in 1 .. Len(Packs) : Packs[i] \in Nat
  BY PackmAssumption

LEMMA ZeroIsMember == 0 \in Members
  BY PackmAssumption DEF Members

LEMMA SizesType ==
    ASSUME Typed, PlaceInv, NEW t \in Members
    PROVE  /\ mem[t].size \in Nat
           /\ k[t] \in 0 .. Len(Packs)
           /\ ret[t] \in Packing => k[t] \in 1 .. Len(Packs) /\ Packs[k[t]] \in Nat
           /\ pc[t] # "barrier" => <<ret[t], pc[t]>> \in Places
<1>1. mem[t].size \in Nat
  BY PacksType DEF Typed, MemType, Sizes
<1>2. k[t] \in 0 .. Len(Packs)
  BY DEF Typed
<1>3. ret[t] \in Packing => k[t] > 0
  BY DEF PlaceInv
<1>4. ret[t] \in Packing => k[t] \in 1 .. Len(Packs)
  BY <1>2, <1>3, PacksType
<1> QED
  BY <1>1, <1>2, <1>4, PacksType DEF PlaceInv

\* The others, as seen by a thread that is not in a barrier: at the same
\* place in the list, or in the next barrier.
LEMMA Near ==
    ASSUME Typed, PlaceInv, TogetherInv, NEW t \in Members, NEW u \in Members,
           pc[t] # "barrier"
    PROVE  \/ entered[u] = entered[t] /\ ret[u] = ret[t] /\ k[u] = k[t]
           \/ /\ entered[u] = entered[t] + 1 /\ pc[u] = "barrier"
              /\ After(ret[t], k[t], ret[u], k[u])
<1>1. entered[t] = left[t] /\ entered[t] \in Nat /\ entered[u] \in Nat /\ left[u] \in Nat
  BY DEF PlaceInv, Typed
<1>2. left[t] <= entered[u] /\ left[u] <= entered[t]
  BY DEF TogetherInv
<1>3. \/ entered[u] = left[u]
      \/ entered[u] = left[u] + 1 /\ pc[u] = "barrier"
  BY DEF PlaceInv
<1>4. \/ entered[u] = entered[t]
      \/ entered[u] = entered[t] + 1 /\ pc[u] = "barrier"
  BY <1>1, <1>2, <1>3
<1> QED
  BY <1>4 DEF TogetherInv

\* No two threads are further apart than one barrier.
LEMMA Apart ==
    ASSUME Typed, PlaceInv, TogetherInv, NEW t \in Members, NEW u \in Members
    PROVE  \/ ret[u] = ret[t] /\ k[u] = k[t]
           \/ After(ret[t], k[t], ret[u], k[u])
           \/ After(ret[u], k[u], ret[t], k[t])
<1>0. entered[t] \in Nat /\ entered[u] \in Nat /\ left[u] \in Nat /\ left[t] \in Nat
  BY DEF Typed
<1>1. /\ entered[t] = left[t] \/ entered[t] = left[t] + 1
      /\ entered[u] = left[u] \/ entered[u] = left[u] + 1
  BY DEF PlaceInv
<1>2. left[t] <= entered[u] /\ left[u] <= entered[t]
  BY DEF TogetherInv
<1>3. \/ entered[u] = entered[t] \/ entered[u] = entered[t] + 1
      \/ entered[t] = entered[u] + 1
  BY <1>0, <1>1, <1>2
<1> QED
  BY <1>3 DEF TogetherInv

\* While the block is replaced all threads are in the same packing, for which
\* there is something to do.
LEMMA WhileSwitching ==
    ASSUME Typed, PlaceInv, TogetherInv, SizeInv, Switching, NEW t \in Members
    PROVE  /\ ret[t] \in {"alloc", "receive", "copy", "alloced"}
           /\ k[t] \in 1 .. Len(Packs) /\ Packs[k[t]] > 0
           /\ \A u \in Members : k[u] = k[t]
<1>1. PICK s \in Members : pc[s] \in {"release", "acquire"} \/ ret[s] \in {"receive", "copy"}
  BY DEF Switching
<1>2. ASSUME NEW u \in Members
      PROVE  ret[u] \in {"alloc", "receive", "copy", "alloced"} /\ k[u] = k[s]
  <2>1. ret[u] \in Packing => k[u] \in 1 .. Len(Packs) /\ Packs[k[u]] \in Nat
    BY SizesType
  <2>2. mem[u].size \in Nat
    BY SizesType
  <2>3. ret[u] # "compute"
    BY <2>1, <2>2 DEF SizeInv, Packing
  <2>4. CASE pc[s] \in {"release", "acquire"}
    <3>1. ret[s] = "alloc" /\ pc[s] # "barrier"
      BY <2>4, SizesType DEF Places
    <3>2. ret[u] = "ready" => k[u] # k[s] \/ Packs[k[u]] # 0
      BY <2>2 DEF SizeInv
    <3>3. \/ ret[u] = ret[s] /\ k[u] = k[s]
          \/ After(ret[s], k[s], ret[u], k[u])
      BY <3>1, Near
    <3> QED
      BY <3>1, <3>2, <3>3, <2>3 DEF After
  <2>5. CASE ret[s] \in {"receive", "copy"}
    BY <2>5, Apart DEF After
  <2> QED
    BY <1>1, <2>4, <2>5
<1>3. k[t] \in 1 .. Len(Packs) /\ Packs[k[t]] \in Nat
  BY <1>2, SizesType DEF Packing
<1>4. Packs[k[t]] > 0
  <2>1. mem[t].size \in Nat
    BY SizesType
  <2> QED
    BY <1>3, <2>1 DEF SizeInv
<1> QED
  BY <1>2, <1>3, <1>4

\* A thread that is not in a barrier knows from its own mem_t whether the
\* block is being replaced.
LEMMA NotSwitching ==
    ASSUME Typed, PlaceInv, TogetherInv, SizeInv, NEW t \in Members,
           pc[t] \in {"pack", "alloced", "compute", "ready", "free", "done"}
    PROVE  ~Switching
<1> SUFFICES ASSUME Switching PROVE FALSE
  OBVIOUS
<1>1. ret[t] \in {"alloc", "alloced"} /\ pc[t] \in {"alloced", "pack"}
  BY WhileSwitching, SizesType DEF Places
<1>2. mem[t].size \in Nat /\ Packs[k[t]] \in Nat
  BY WhileSwitching, SizesType DEF Packing
<1>3. CASE ret[t] = "alloc"
  BY <1>1, <1>2, <1>3, SizesType DEF SizeInv, Places
<1>4. CASE ret[t] = "alloced"
  <2>1. PICK s \in Members : pc[s] \in {"release", "acquire"} \/ ret[s] \in {"receive", "copy"}
    BY DEF Switching
  <2> QED
    BY <1>1, <1>4, <2>1, Near DEF After, PlaceInv, Places
<1> QED
  BY <1>1, <1>3, <1>4

\* The next barrier of a thread that is not in one.
LEMMA EnterStep ==
    ASSUME Typed, PlaceInv, TogetherInv, NEW t \in Members, NEW point \in Points,
           NEW kk \in 0 .. Len(Packs), pc[t] # "barrier",
           Barrier(t, point), k' = [k EXCEPT ![t] = kk],
           point \in Packing => kk > 0,
           After(ret[t], k[t], point, kk),
           \A u \in Members : After(ret[t], k[t], ret[u], k[u]) => ret[u] = point /\ k[u] = kk
    PROVE  /\ PlaceInv' /\ TogetherInv'
           /\ k' \in [Members -> 0 .. Len(Packs)] /\ ret' \in [Members -> Points]
           /\ pc' = [pc EXCEPT ![t] = "barrier"] /\ ret' = [ret EXCEPT ![t] = point]
           /\ pc' \in [Members -> {"barrier"} \cup {x[2] : x \in Places}]
           /\ entered' \in [Members -> Nat] /\ left' = left
           /\ entered' = [entered EXCEPT ![t] = entered[t] + 1]
<1>1. /\ pc' = [pc EXCEPT ![t] = "barrier"] /\ ret' = [ret EXCEPT ![t] = point]
      /\ entered' = [entered EXCEPT ![t] = entered[t] + 1] /\ left' = left
      /\ entered[t] = left[t]
  BY DEF Barrier, Goto, TeamBarrier!Enter
<1>2. /\ k' \in [Members -> 0 .. Len(Packs)] /\ ret' \in [Members -> Points]
      /\ pc' \in [Members -> {"barrier"} \cup {x[2] : x \in Places}]
      /\ entered' \in [Members -> Nat]
  BY <1>1 DEF Typed
<1>3. PlaceInv'
  BY <1>1 DEF PlaceInv, Typed
<1>4. TogetherInv'
  <2> SUFFICES ASSUME NEW u \in Members, NEW v \in Members
               PROVE  /\ left'[u] <= entered'[v]
                      /\ entered'[u] = entered'[v] => ret'[u] = ret'[v] /\ k'[u] = k'[v]
                      /\ entered'[u] = entered'[v] + 1
                            => After(ret'[v], k'[v], ret'[u], k'[u])
    BY DEF TogetherInv
  <2>1. /\ left[u] <= entered[v]
        /\ entered[u] = entered[v] => ret[u] = ret[v] /\ k[u] = k[v]
        /\ entered[u] = entered[v] + 1 => After(ret[v], k[v], ret[u], k[u])
    BY DEF TogetherInv
  <2>2. /\ left[u] \in Nat /\ entered[u] \in Nat /\ entered[v] \in Nat /\ entered[t] \in Nat
        /\ left'[u] = left[u]
    BY <1>1 DEF Typed
  <2>3. /\ entered'[t] = entered[t] + 1 /\ ret'[t] = point /\ k'[t] = kk
        /\ \A w \in Members \ {t} : /\ entered'[w] = entered[w]
                                    /\ ret'[w] = ret[w] /\ k'[w] = k[w]
    BY <1>1 DEF Typed
  <2>4. ASSUME NEW w \in Members
        PROVE  \/ entered[w] = entered[t] /\ ret[w] = ret[t] /\ k[w] = k[t]
               \/ entered[w] = entered[t] + 1 /\ ret[w] = point /\ k[w] = kk
    BY Near
  <2>5. CASE u # t /\ v # t
    BY <2>1, <2>2, <2>3, <2>5
  <2>6. CASE u = t /\ v # t
    <3>1. \/ entered[v] = entered[t] /\ ret[v] = ret[t] /\ k[v] = k[t]
          \/ entered[v] = entered[t] + 1 /\ ret[v] = point /\ k[v] = kk
      BY <2>4
    <3> QED
      BY <3>1, <2>1, <2>2, <2>3, <2>6
  <2>7. CASE u # t /\ v = t
    <3>1. \/ entered[u] = entered[t] /\ ret[u] = ret[t] /\ k[u] = k[t]
          \/ entered[u] = entered[t] + 1 /\ ret[u] = point /\ k[u] = kk
      BY <2>4
    <3> QED
      BY <3>1, <2>1, <2>2, <2>3, <2>7
  <2>8. CASE u = t /\ v = t
    BY <2>1, <2>2, <2>3, <2>8
  <2> QED
    BY <2>5, <2>6, <2>7, <2>8
<1> QED
  BY <1>1, <1>2, <1>3, <1>4

\* A step that is not a barrier.
LEMMA GotoStep ==
    ASSUME Typed, PlaceInv, TogetherInv, NEW t \in Members, NEW point,
           pc[t] # "barrier", <<ret[t], point>> \in Places,
           point \in {"release", "acquire"} => t = 0,
           Goto(t, point), UNCHANGED <<k, ret, entered, left>>
    PROVE  /\ PlaceInv' /\ TogetherInv'
           /\ pc' \in [Members -> {"barrier"} \cup {x[2] : x \in Places}]
           /\ k' \in [Members -> 0 .. Len(Packs)] /\ ret' \in [Members -> Points]
           /\ entered' \in [Members -> Nat] /\ left' \in [Members -> Nat]
<1>1. point \in {x[2] : x \in Places}
  <2>1. point = <<ret[t], point>>[2]
    OBVIOUS
  <2> QED
    BY <2>1
<1>2. pc' \in [Members -> {"barrier"} \cup {x[2] : x \in Places}]
  BY <1>1 DEF Goto, Typed
<1>3. /\ k' \in [Members -> 0 .. Len(Packs)] /\ ret' \in [Members -> Points]
      /\ entered' \in [Members -> Nat] /\ left' \in [Members -> Nat]
  BY DEF Typed
<1>4. pc' = [pc EXCEPT ![t] = point] /\ pc \in [Members -> {"barrier"} \cup {x[2] : x \in Places}]
  BY DEF Goto, Typed
<1>5. entered[t] = left[t]
  BY DEF PlaceInv
<1>6. PlaceInv'
  BY <1>4, <1>5 DEF PlaceInv
<1>7. TogetherInv'
  BY DEF TogetherInv
<1> QED
  BY <1>2, <1>3, <1>6, <1>7

\* The next barrier is not the one after packing: what the buffer holds
\* remains as promised.
LEMMA EnterContent ==
    ASSUME Typed, PlaceInv, TogetherInv, ContentInv,
           NEW t \in Members, NEW point \in Points \ {"compute"}, NEW kk,
           pc[t] # "barrier", k' = [k EXCEPT ![t] = kk],
           ret' = [ret EXCEPT ![t] = point],
           entered' = [entered EXCEPT ![t] = entered[t] + 1],
           \A u \in Members : After(ret[t], k[t], ret[u], k[u]) => ret[u] = point,
           UNCHANGED <<content, held>>
    PROVE  ContentInv'
<1> SUFFICES ASSUME NEW v \in Members, NEW u \in Members,
                    ret'[v] = "compute", entered'[u] >= entered'[v]
             PROVE  content'[held'["team"]][u] = k'[v]
  BY DEF ContentInv
<1>1. v # t /\ ret[v] = "compute" /\ entered'[v] = entered[v] /\ k'[v] = k[v]
  BY DEF Typed
<1>2. entered[u] \in Nat /\ entered[v] \in Nat /\ entered[t] \in Nat
  BY DEF Typed
<1>3. entered[v] = entered[t] \/ (entered[v] = entered[t] + 1 /\ ret[v] = point)
  BY Near
<1>4. entered[u] >= entered[v]
  BY <1>1, <1>2, <1>3 DEF Typed
<1> QED
  BY <1>1, <1>4 DEF ContentInv

-----------------------------------------------------------------------------

LEMMA InitIInv == Init => IInv
<1> SUFFICES ASSUME Init PROVE IInv
  OBVIOUS
<1> USE PacksType, ZeroIsMember
<1>1. /\ pc = [t \in Members |-> "ready"] /\ k = [t \in Members |-> 0]
      /\ ret = [t \in Members |-> "ready"] /\ mem = [t \in Members |-> NoMem]
      /\ local_mem_s = [live |-> FALSE, mem |-> NoMem] /\ sent = 0
      /\ local_mem_p = [t \in Members |-> 0]
      /\ content = [b \in Blocks |-> [t \in Members |-> 0]]
      /\ entered = [t \in Members |-> 0] /\ left = [t \in Members |-> 0]
      /\ held = [m \in {"team", "others"} |-> NULL] /\ live \subseteq Blocks
  BY DEF Init, TeamBarrier!Init, Pba!Init
<1>2. NoMem \in MemType
  BY DEF NoMem, MemType, Sizes
<1>3. "ready" \in {x[2] : x \in Places}
  <2>1. <<"ready", "ready">> \in Places /\ "ready" = <<"ready", "ready">>[2]
    BY DEF Places
  <2> QED
    BY <2>1
<1>4. Typed
  BY <1>1, <1>2, <1>3 DEF Typed, Points
<1>5. PlaceInv
  BY <1>1 DEF PlaceInv, Places, Packing
<1>6. TogetherInv
  BY <1>1 DEF TogetherInv
<1>7. ~Switching
  BY <1>1 DEF Switching
<1>8. MemInv
  BY <1>1 DEF MemInv, NoMem
<1>9. SizeInv
  BY <1>1, <1>7 DEF SizeInv
<1>10. ChiefInv
  BY <1>1 DEF ChiefInv, ChiefSends, NoMem
<1>11. CopyInv /\ ContentInv
  BY <1>1 DEF CopyInv, ContentInv
<1>12. AllocInv
  BY <1>1 DEF AllocInv
<1> QED
  BY <1>4, <1>5, <1>6, <1>8, <1>9, <1>10, <1>11, <1>12 DEF IInv

LEMMA LeaveStep == ASSUME IInv, NEW t \in Members, Leave(t) PROVE IInv'
<1> USE ZeroIsMember
<1>1. /\ pc[t] = "barrier" /\ pc' = [pc EXCEPT ![t] = ret[t]]
      /\ left' = [left EXCEPT ![t] = left[t] + 1] /\ entered' = entered
      /\ \A u \in Members : left[t] < entered[u]
      /\ UNCHANGED <<k, ret, mem, local_mem_s, sent, local_mem_p, content, held, live>>
  BY DEF Leave, TeamBarrier!Leave, Goto, node, alloc
<1>2. ret[t] \in Points /\ ret[t] \in {x[2] : x \in Places}
  <2>1. ret[t] \in Points
    BY DEF IInv, Typed
  <2>2. <<ret[t], ret[t]>> \in Places /\ ret[t] = <<ret[t], ret[t]>>[2]
    BY <2>1 DEF Points, Places
  <2> QED
    BY <2>1, <2>2
<1>3. Typed'
  BY <1>1, <1>2 DEF IInv, Typed
<1>4. PlaceInv'
  BY <1>1, <1>2 DEF IInv, Typed, PlaceInv, Points, Places
<1>5. TogetherInv'
  <2> SUFFICES ASSUME NEW u \in Members, NEW v \in Members
               PROVE  /\ left'[u] <= entered'[v]
                      /\ entered'[u] = entered'[v] => ret'[u] = ret'[v] /\ k'[u] = k'[v]
                      /\ entered'[u] = entered'[v] + 1
                            => After(ret'[v], k'[v], ret'[u], k'[u])
    BY DEF TogetherInv
  <2>1. left'[u] <= entered[v]
    BY <1>1 DEF IInv, Typed, TogetherInv
  <2> QED
    BY <1>1, <2>1 DEF IInv, TogetherInv
<1>6. Switching' <=> Switching
  BY <1>1, <1>2 DEF Switching, Points, IInv, Typed
<1>7. \A u \in Members : pc'[u] # pc[u] => u = t /\ pc'[u] \in Points
  BY <1>1, <1>2 DEF IInv, Typed
<1>8. MemInv'
  BY <1>1, <1>6, <1>7 DEF IInv, MemInv, Points
<1>9. SizeInv'
  BY <1>1, <1>6, <1>7 DEF IInv, SizeInv, Points
<1>10. ChiefInv'
  BY <1>1, <1>7 DEF IInv, Typed, ChiefInv, ChiefSends, Points
<1>11. CopyInv' /\ ContentInv' /\ AllocInv'
  BY <1>1 DEF IInv, CopyInv, ContentInv, AllocInv
<1> QED
  BY <1>3, <1>4, <1>5, <1>8, <1>9, <1>10, <1>11 DEF IInv

\* A thread enters a barrier while nobody replaces the block.
LEMMA EnterQuietly ==
    ASSUME IInv, ~Switching, NEW t \in Members, NEW point \in {"ready", "alloc", "free"},
           NEW kk \in 0 .. Len(Packs), pc[t] \notin {"barrier", "done", "alloced"},
           Barrier(t, point), k' = [k EXCEPT ![t] = kk],
           point \in Packing => kk > 0,
           After(ret[t], k[t], point, kk),
           \A u \in Members : After(ret[t], k[t], ret[u], k[u]) => ret[u] = point /\ k[u] = kk,
           UNCHANGED <<node, content, alloc>>
    PROVE  IInv'
<1> USE ZeroIsMember
<1>1. point \in Points
  BY DEF Points
<1>2. /\ PlaceInv' /\ TogetherInv'
      /\ k' \in [Members -> 0 .. Len(Packs)] /\ ret' \in [Members -> Points]
      /\ pc' = [pc EXCEPT ![t] = "barrier"] /\ ret' = [ret EXCEPT ![t] = point]
      /\ pc' \in [Members -> {"barrier"} \cup {x[2] : x \in Places}]
      /\ entered' \in [Members -> Nat] /\ left' = left
      /\ entered' = [entered EXCEPT ![t] = entered[t] + 1]
  BY <1>1, EnterStep DEF IInv
<1>3. UNCHANGED <<mem, local_mem_s, sent, local_mem_p, content, held, live>>
  BY DEF node, alloc
<1>4. Typed'
  BY <1>2, <1>3 DEF IInv, Typed
<1>5. /\ pc'[t] = "barrier" /\ ret'[t] = point
      /\ \A u \in Members \ {t} : pc'[u] = pc[u] /\ ret'[u] = ret[u] /\ k'[u] = k[u]
  BY <1>2 DEF IInv, Typed
<1>6. ~Switching'
  BY <1>5 DEF Switching
<1>7. MemInv'
  BY <1>3, <1>5 DEF IInv, MemInv
<1>8. SizeInv'
  BY <1>3, <1>5, <1>6 DEF IInv, SizeInv
<1>9. ChiefInv'
  <2>1. CASE t = 0
    <3>1. pc[0] \notin {"release", "acquire"} /\ ret[0] \notin {"receive", "copy"}
      BY DEF Switching
    <3>2. ~local_mem_s.live /\ mem[0].block = held["team"]
      BY <2>1, <3>1 DEF IInv, ChiefInv, ChiefSends
    <3> QED
      BY <2>1, <3>2, <1>3, <1>5 DEF ChiefInv, ChiefSends
  <2>2. CASE t # 0
    BY <2>2, <1>3, <1>5 DEF IInv, ChiefInv, ChiefSends
  <2> QED
    BY <2>1, <2>2
<1>10. CopyInv' /\ AllocInv'
  BY <1>3, <1>5 DEF IInv, CopyInv, AllocInv
<1>11. ContentInv'
  BY <1>1, <1>2, <1>3, EnterContent DEF IInv
<1> QED
  BY <1>2, <1>4, <1>7, <1>8, <1>9, <1>10, <1>11 DEF IInv

LEMMA PackmIntStep == ASSUME IInv, NEW t \in Members, PackmInt(t) PROVE IInv'
<1>1. /\ pc[t] = "ready" /\ k[t] < Len(Packs) /\ Barrier(t, "alloc")
      /\ k' = [k EXCEPT ![t] = k[t] + 1]
      /\ UNCHANGED <<node, content, alloc>>
  BY DEF PackmInt
<1>2. ~Switching
  BY <1>1, NotSwitching DEF IInv
<1>3. ret[t] \in {"ready", "compute"} /\ k[t] \in 0 .. Len(Packs)
  BY <1>1, SizesType DEF IInv, Places
<1>4. k[t] + 1 \in 0 .. Len(Packs) /\ k[t] + 1 > 0
  BY <1>1, <1>3, PacksType
<1>5. After(ret[t], k[t], "alloc", k[t] + 1)
  BY <1>3 DEF After
<1>6. ASSUME NEW u \in Members, After(ret[t], k[t], ret[u], k[u])
      PROVE  ret[u] = "alloc" /\ k[u] = k[t] + 1
  BY <1>1, <1>3, <1>6 DEF After
<1> QED
  BY <1>1, <1>2, <1>4, <1>5, <1>6, EnterQuietly

LEMMA NothingToPackStep == ASSUME IInv, NEW t \in Members, NothingToPack(t) PROVE IInv'
<1>1. /\ pc[t] = "alloc" /\ Packs[k[t]] = 0 /\ Barrier(t, "ready")
      /\ k' = k /\ UNCHANGED <<node, content, alloc>>
  BY DEF NothingToPack, size_needed
<1>2. ~Switching
  BY <1>1, WhileSwitching DEF IInv
<1>3. ret[t] = "alloc" /\ k[t] \in 0 .. Len(Packs)
  BY <1>1, SizesType DEF IInv, Places
<1>4. k' = [k EXCEPT ![t] = k[t]]
  BY <1>1 DEF IInv, Typed
<1>5. After(ret[t], k[t], "ready", k[t])
  BY <1>1, <1>3 DEF After
<1>6. ASSUME NEW u \in Members, After(ret[t], k[t], ret[u], k[u])
      PROVE  ret[u] = "ready" /\ k[u] = k[t]
  <2>1. ret[u] # "receive"
    BY <1>2 DEF Switching
  <2>2. ret[u] = "compute" => Packs[k[u]] > 0
    BY DEF IInv, SizeInv
  <2> QED
    BY <1>1, <1>3, <1>6, <2>1, <2>2 DEF After
<1> QED
  BY <1>1, <1>2, <1>3, <1>4, <1>5, <1>6, EnterQuietly DEF Packing

LEMMA CloseStep == ASSUME IInv, NEW t \in Members, Close(t) PROVE IInv'
<1>1. /\ pc[t] = "ready" /\ k[t] = Len(Packs) /\ Barrier(t, "free")
      /\ k' = k /\ UNCHANGED <<node, content, alloc>>
  BY DEF Close
<1>2. ~Switching
  BY <1>1, NotSwitching DEF IInv
<1>3. ret[t] \in {"ready", "compute"} /\ k[t] \in 0 .. Len(Packs)
  BY <1>1, SizesType DEF IInv, Places
<1>4. k' = [k EXCEPT ![t] = k[t]]
  BY <1>1 DEF IInv, Typed
<1>5. After(ret[t], k[t], "free", k[t])
  BY <1>1, <1>3 DEF After
<1>6. ASSUME NEW u \in Members, After(ret[t], k[t], ret[u], k[u])
      PROVE  ret[u] = "free" /\ k[u] = k[t]
  <2>1. k[u] \in 0 .. Len(Packs)
    BY SizesType DEF IInv
  <2> QED
    BY <1>1, <1>3, <1>6, <2>1, PacksType DEF After
<1> QED
  BY <1>1, <1>2, <1>3, <1>4, <1>5, <1>6, EnterQuietly DEF Packing

\* A step that only moves a thread on, while nobody replaces the block.
LEMMA GotoQuietly ==
    ASSUME IInv, ~Switching, NEW t \in Members, NEW point \in {"ready", "pack"},
           pc[t] # "barrier", <<ret[t], point>> \in Places, Goto(t, point),
           point = "pack" => Packs[k[t]] > 0 /\ mem[t].size >= Packs[k[t]],
           pc[t] # "done", ~(t = 0 /\ ret[t] = "alloced"),
           UNCHANGED <<k, ret, entered, left, node, content, alloc>>
    PROVE  IInv'
<1> USE ZeroIsMember
<1>1. /\ PlaceInv' /\ TogetherInv'
      /\ pc' \in [Members -> {"barrier"} \cup {x[2] : x \in Places}]
      /\ k' \in [Members -> 0 .. Len(Packs)] /\ ret' \in [Members -> Points]
      /\ entered' \in [Members -> Nat] /\ left' \in [Members -> Nat]
  BY GotoStep DEF IInv
<1>2. UNCHANGED <<mem, local_mem_s, sent, local_mem_p, content, held, live>>
  BY DEF node, alloc
<1>3. /\ pc'[t] = point
      /\ \A u \in Members \ {t} : pc'[u] = pc[u]
  BY DEF IInv, Typed, Goto
<1>4. Typed'
  BY <1>1, <1>2 DEF IInv, Typed
<1>5. ~Switching'
  BY <1>3 DEF Switching
<1>6. MemInv'
  BY <1>2, <1>3 DEF IInv, MemInv
<1>7. SizeInv'
  BY <1>2, <1>3, <1>5 DEF IInv, SizeInv
<1>8. ChiefInv'
  <2>1. pc[0] \notin {"release", "acquire"} /\ ret[0] \notin {"receive", "copy"}
    BY DEF Switching
  <2>2. t = 0 => ~local_mem_s.live
    BY <2>1 DEF IInv, ChiefInv, ChiefSends
  <2> QED
    BY <2>1, <2>2, <1>2, <1>3 DEF IInv, ChiefInv, ChiefSends
<1>9. CopyInv' /\ AllocInv' /\ ContentInv'
  BY <1>2 DEF IInv, CopyInv, AllocInv, ContentInv
<1> QED
  BY <1>1, <1>4, <1>6, <1>7, <1>8, <1>9 DEF IInv

LEMMA ReuseStep == ASSUME IInv, NEW t \in Members, Reuse(t) PROVE IInv'
<1>1. /\ pc[t] = "alloc" /\ Packs[k[t]] > 0 /\ mem[t].size >= Packs[k[t]]
      /\ Goto(t, "pack")
      /\ UNCHANGED <<k, ret, entered, left, node, content, alloc>>
  BY DEF Reuse, size_needed
<1>2. ret[t] = "alloc" /\ Packs[k[t]] \in Nat /\ mem[t].size \in Nat
  BY <1>1, SizesType DEF IInv, Places, Packing
<1>3. ~Switching
  BY <1>1, <1>2 DEF IInv, SizeInv
<1> QED
  BY <1>1, <1>2, <1>3, GotoQuietly DEF Places

LEMMA ComputeStep == ASSUME IInv, NEW t \in Members, Compute(t) PROVE IInv'
<1>1. /\ pc[t] = "compute" /\ Goto(t, "ready")
      /\ UNCHANGED <<k, ret, entered, left, node, content, alloc>>
  BY DEF Compute
<1>2. ret[t] = "compute"
  BY <1>1, SizesType DEF IInv, Places
<1>3. ~Switching
  BY <1>1, NotSwitching DEF IInv
<1> QED
  BY <1>1, <1>2, <1>3, GotoQuietly DEF Places

LEMMA AllocReturnStep == ASSUME IInv, NEW t \in Members, AllocReturn(t) PROVE IInv'
<1> USE ZeroIsMember
<1>1. /\ pc[t] = "alloced" /\ Goto(t, "pack")
      /\ local_mem_s' = IF t = 0 THEN [live |-> FALSE, mem |-> NoMem] ELSE local_mem_s
      /\ UNCHANGED <<k, ret, mem, sent, local_mem_p, content, entered, left, held, live>>
  BY DEF AllocReturn, alloc
<1>2. ret[t] = "alloced" /\ <<ret[t], "pack">> \in Places
  BY <1>1, SizesType DEF IInv, Places
<1>3. ~Switching
  BY <1>1, NotSwitching DEF IInv
<1>4. /\ PlaceInv' /\ TogetherInv'
      /\ pc' \in [Members -> {"barrier"} \cup {x[2] : x \in Places}]
      /\ k' \in [Members -> 0 .. Len(Packs)] /\ ret' \in [Members -> Points]
      /\ entered' \in [Members -> Nat] /\ left' \in [Members -> Nat]
  BY <1>1, <1>2, GotoStep DEF IInv
<1>5. pc'[t] = "pack" /\ \A u \in Members \ {t} : pc'[u] = pc[u]
  BY <1>1 DEF IInv, Typed, Goto
<1>6. local_mem_s' \in [live : BOOLEAN, mem : MemType]
  BY <1>1, PacksType DEF IInv, Typed, MemType, NoMem, Sizes
<1>7. Typed'
  BY <1>1, <1>4, <1>6 DEF IInv, Typed
<1>8. ~Switching'
  BY <1>1, <1>3, <1>5 DEF Switching
<1>9. MemInv'
  BY <1>1, <1>3, <1>5 DEF IInv, MemInv
<1>10. SizeInv'
  BY <1>1, <1>2, <1>5, <1>8 DEF IInv, SizeInv
<1>11. ChiefInv'
  <2>1. pc[0] \notin {"release", "acquire"} /\ ret[0] \notin {"receive", "copy"}
    BY <1>3 DEF Switching
  <2>2. CASE t = 0
    BY <2>1, <2>2, <1>1, <1>2, <1>5 DEF IInv, ChiefInv, ChiefSends
  <2>3. CASE t # 0
    BY <2>1, <2>3, <1>1, <1>5 DEF IInv, ChiefInv, ChiefSends
  <2> QED
    BY <2>2, <2>3
<1>12. CopyInv' /\ AllocInv' /\ ContentInv'
  BY <1>1 DEF IInv, CopyInv, AllocInv, ContentInv
<1> QED
  BY <1>4, <1>7, <1>9, <1>10, <1>11, <1>12 DEF IInv

\* What the team has while it packs and computes.
LEMMA TeamBlock ==
    ASSUME IInv, ~Switching, NEW t \in Members, pc[t] = "pack" \/ ret[t] = "compute"
    PROVE  pc[0] # "done" /\ mem[t].block = held["team"] /\ held["team"] \in Blocks
<1> USE ZeroIsMember
<1>1. ret[t] \in {"alloc", "alloced", "compute"}
  BY SizesType DEF IInv, Places
<1>2. pc[0] # "done"
  <2> SUFFICES ASSUME pc[0] = "done" PROVE FALSE
    OBVIOUS
  <2>1. ret[0] = "free"
    BY SizesType DEF IInv, Places
  <2> QED
    BY <2>1, <1>1, Near DEF IInv, After
<1>3. mem[t].block = held["team"]
  BY <1>2 DEF IInv, MemInv
<1>4. mem[t].size \in Nat /\ Packs[k[t]] \in Nat
  BY <1>1, SizesType DEF IInv, Packing
<1>5. mem[t].size > 0
  BY <1>4 DEF IInv, SizeInv
<1> QED
  BY <1>2, <1>3, <1>5 DEF IInv, MemInv, AllocInv

LEMMA PackPanelsStep == ASSUME IInv, NEW t \in Members, PackPanels(t) PROVE IInv'
<1> USE ZeroIsMember
<1>1. /\ pc[t] = "pack" /\ Barrier(t, "compute")
      /\ content' = [content EXCEPT ![mem[t].block][t] = k[t]]
      /\ UNCHANGED <<k, mem, local_mem_s, sent, local_mem_p, held, live>>
  BY DEF PackPanels, node, alloc
<1>2. ret[t] \in {"alloc", "alloced"} /\ k[t] \in 1 .. Len(Packs)
  BY <1>1, SizesType DEF IInv, Places, Packing
<1>3. ~Switching
  BY <1>1, NotSwitching DEF IInv
<1>4. mem[t].block = held["team"] /\ held["team"] \in Blocks
  BY <1>1, <1>3, TeamBlock
<1>5. Packs[k[t]] > 0 /\ mem[t].size >= Packs[k[t]]
  BY <1>1 DEF IInv, SizeInv
<1>6. k' = [k EXCEPT ![t] = k[t]] /\ k[t] \in 0 .. Len(Packs) /\ k[t] > 0
  BY <1>1, <1>2 DEF IInv, Typed
<1>7. After(ret[t], k[t], "compute", k[t])
  BY <1>2 DEF After
<1>8. ASSUME NEW u \in Members, After(ret[t], k[t], ret[u], k[u])
      PROVE  ret[u] = "compute" /\ k[u] = k[t]
  <2>1. ret[u] # "receive"
    BY <1>3 DEF Switching
  <2>2. Packs[k[t]] # 0
    BY <1>5
  <2> QED
    BY <1>2, <1>8, <2>1, <2>2 DEF After
<1>9. /\ PlaceInv' /\ TogetherInv'
      /\ k' \in [Members -> 0 .. Len(Packs)] /\ ret' \in [Members -> Points]
      /\ pc' = [pc EXCEPT ![t] = "barrier"] /\ ret' = [ret EXCEPT ![t] = "compute"]
      /\ pc' \in [Members -> {"barrier"} \cup {x[2] : x \in Places}]
      /\ entered' \in [Members -> Nat] /\ left' = left
      /\ entered' = [entered EXCEPT ![t] = entered[t] + 1]
  <2>1. "compute" \in Points /\ pc[t] # "barrier"
    BY <1>1 DEF Points
  <2>2. \A u \in Members : After(ret[t], k[t], ret[u], k[u]) => ret[u] = "compute" /\ k[u] = k[t]
    BY <1>8
  <2>3. Typed /\ PlaceInv /\ TogetherInv /\ Barrier(t, "compute")
    BY <1>1 DEF IInv
  <2> QED
    BY <2>1, <2>2, <2>3, <1>6, <1>7, EnterStep
<1>10. /\ pc'[t] = "barrier" /\ ret'[t] = "compute"
       /\ \A u \in Members \ {t} : pc'[u] = pc[u] /\ ret'[u] = ret[u]
  BY <1>9 DEF IInv, Typed
<1>11. /\ content' \in [Blocks -> [Members -> Nat]]
       /\ content'[held["team"]][t] = k[t]
       /\ \A u \in Members \ {t} : content'[held["team"]][u] = content[held["team"]][u]
  <2> DEFINE b == held["team"]
             old == content[b]
             panels == [old EXCEPT ![t] = k[t]]
  <2>1. b \in Blocks /\ content \in [Blocks -> [Members -> Nat]] /\ k[t] \in Nat
    BY <1>1, <1>2, <1>4 DEF IInv, Typed
  <2>2. content' = [content EXCEPT ![b] = panels]
    BY <1>1, <1>2, <1>4
  <2> HIDE DEF b
  <2>3. old \in [Members -> Nat]
    BY <2>1
  <2>4. /\ panels \in [Members -> Nat] /\ panels[t] = k[t]
        /\ \A u \in Members \ {t} : panels[u] = old[u]
    <3> HIDE DEF old
    <3> QED
      BY <2>1, <2>3
  <2> HIDE DEF panels
  <2>5. content' \in [Blocks -> [Members -> Nat]] /\ content'[b] = panels
    BY <2>1, <2>2, <2>4
  <2> QED
    BY <2>4, <2>5 DEF b
<1>12. Typed'
  BY <1>1, <1>9, <1>11 DEF IInv, Typed
<1>13. ~Switching'
  BY <1>10, <1>3 DEF Switching
<1>14. MemInv'
  BY <1>1, <1>3, <1>10 DEF IInv, MemInv
<1>15. SizeInv'
  BY <1>1, <1>5, <1>10, <1>13 DEF IInv, SizeInv
<1>16. ChiefInv'
  <2>1. pc[0] \notin {"release", "acquire"} /\ ret[0] \notin {"receive", "copy"}
    BY <1>3 DEF Switching
  <2>2. CASE t = 0
    BY <2>1, <2>2, <1>1, <1>2, <1>10 DEF IInv, ChiefInv, ChiefSends
  <2>3. CASE t # 0
    BY <2>1, <2>3, <1>1, <1>10 DEF IInv, ChiefInv, ChiefSends
  <2> QED
    BY <2>2, <2>3
<1>17. CopyInv' /\ AllocInv'
  BY <1>1, <1>10 DEF IInv, CopyInv, AllocInv
<1>18. ContentInv'
  <2> SUFFICES ASSUME NEW v \in Members, NEW u \in Members,
                      ret'[v] = "compute", entered'[u] >= entered'[v]
               PROVE  content'[held["team"]][u] = k[v]
    BY <1>1 DEF ContentInv
  <2>1. /\ entered'[t] = entered[t] + 1 /\ entered[t] \in Nat
        /\ \A w \in Members \ {t} : entered'[w] = entered[w] /\ entered[w] \in Nat
    BY <1>9 DEF IInv, Typed
  <2>2. ASSUME NEW w \in Members
        PROVE  \/ entered[w] = entered[t] /\ ret[w] = ret[t]
               \/ entered[w] = entered[t] + 1 /\ ret[w] = "compute" /\ k[w] = k[t]
    BY <1>1, <1>8, Near DEF IInv
  <2>3. v = t \/ (entered[v] = entered[t] + 1 /\ k[v] = k[t] /\ ret[v] = "compute")
    BY <2>2, <1>2, <1>10
  <2>4. CASE u = t
    BY <2>3, <2>4, <1>11
  <2>5. CASE u # t
    <3>1. entered[u] = entered[t] + 1 /\ ret[u] = "compute" /\ k[u] = k[t]
      BY <2>1, <2>2, <2>3, <2>5
    <3>2. content[held["team"]][u] = k[u]
      BY <3>1, <2>1, <2>5 DEF IInv, ContentInv
    <3> QED
      BY <3>1, <3>2, <2>3, <2>5, <1>11
  <2> QED
    BY <2>4, <2>5
<1> QED
  BY <1>9, <1>12, <1>14, <1>15, <1>16, <1>17, <1>18 DEF IInv

LEMMA FreeMemStep == ASSUME IInv, NEW t \in Members, FreeMem(t) PROVE IInv'
<1> USE ZeroIsMember
<1>1. /\ pc[t] = "free" /\ Goto(t, "done")
      /\ UNCHANGED <<k, ret, local_mem_s, sent, local_mem_p, content, entered, left>>
  BY DEF FreeMem
<1>2. ret[t] = "free" /\ <<ret[t], "done">> \in Places
  BY <1>1, SizesType DEF IInv, Places
<1>3. ~Switching
  BY <1>1, NotSwitching DEF IInv
<1>4. ASSUME NEW u \in Members PROVE ret[u] = "free"
  BY <1>1, <1>2, Near DEF IInv, After
<1>5. /\ PlaceInv' /\ TogetherInv'
      /\ pc' \in [Members -> {"barrier"} \cup {x[2] : x \in Places}]
      /\ k' \in [Members -> 0 .. Len(Packs)] /\ ret' \in [Members -> Points]
      /\ entered' \in [Members -> Nat] /\ left' \in [Members -> Nat]
  BY <1>1, <1>2, GotoStep DEF IInv
<1>6. pc'[t] = "done" /\ \A u \in Members \ {t} : pc'[u] = pc[u]
  BY <1>1 DEF IInv, Typed, Goto
<1>7. ~Switching'
  BY <1>1, <1>3, <1>6 DEF Switching
<1>8. CopyInv' /\ ContentInv'
  BY <1>1, <1>4 DEF CopyInv, ContentInv
<1>9. ~local_mem_s.live /\ mem[0].block = held["team"]
  <2>1. ret[0] = "free" /\ pc[0] \notin {"release", "acquire"}
    BY <1>3, <1>4 DEF Switching
  <2> QED
    BY <2>1 DEF IInv, ChiefInv, ChiefSends
<1>10. SizeInv'
  BY <1>1, <1>4, <1>6, <1>7 DEF IInv, SizeInv, PlaceInv, Places
<1>11. CASE t = 0 /\ mem[t].block # NULL
  <2>1. /\ held' = [held EXCEPT !["team"] = NULL] /\ live' \in {live, live \ {held["team"]}}
        /\ mem' = [mem EXCEPT ![0] = NoMem]
    BY <1>11 DEF FreeMem, Pba!Release
  <2>2. NoMem \in MemType
    BY PacksType DEF NoMem, MemType, Sizes
  <2>3. Typed'
    BY <2>1, <2>2, <1>1, <1>5 DEF IInv, Typed
  <2>4. AllocInv'
    BY <2>1 DEF IInv, AllocInv
  <2>5. mem'[0] = NoMem /\ (\A u \in Members \ {0} : mem'[u] = mem[u]) /\ held'["team"] = NULL
    BY <2>1 DEF IInv, Typed, AllocInv
  <2>6. MemInv'
    BY <2>5, <1>6, <1>11 DEF IInv, MemInv, NoMem
  <2>7. ChiefInv'
    BY <2>5, <1>1, <1>4, <1>6, <1>9, <1>11 DEF ChiefInv, ChiefSends, NoMem
  <2> QED
    BY <2>3, <2>4, <2>6, <2>7, <1>5, <1>8, <1>10 DEF IInv
<1>12. CASE ~(t = 0 /\ mem[t].block # NULL)
  <2>1. UNCHANGED <<held, live, mem>>
    BY <1>12 DEF FreeMem, alloc
  <2>2. Typed'
    BY <2>1, <1>1, <1>5 DEF IInv, Typed
  <2>3. AllocInv'
    BY <2>1 DEF IInv, AllocInv
  <2>4. MemInv'
    BY <2>1, <1>3, <1>6 DEF IInv, MemInv
  <2>5. ChiefInv'
    <3>1. t = 0 => held["team"] = NULL
      BY <1>9, <1>12
    <3>2. pc'[0] = "done" => held["team"] = NULL
      BY <3>1, <1>6 DEF IInv, ChiefInv
    <3>3. pc'[0] \notin {"release", "acquire"}
      BY <1>7 DEF Switching
    <3> QED
      BY <3>2, <3>3, <2>1, <1>1, <1>4, <1>9 DEF ChiefInv, ChiefSends
  <2> QED
    BY <2>2, <2>3, <2>4, <2>5, <1>5, <1>8, <1>10 DEF IInv
<1> QED
  BY <1>11, <1>12

\* If a thread at the beginning of bli_packm_alloc_ex finds its block too
\* small, so do all, and nobody has been sent a new one yet.
LEMMA AllReplace ==
    ASSUME IInv, NEW t \in Members, pc[t] # "barrier", ret[t] = "alloc",
           mem[t].size < Packs[k[t]], NEW u \in Members
    PROVE  /\ k[u] = k[t] /\ mem[u].size < Packs[k[u]]
           /\ \/ ret[u] = "alloc" /\ entered[u] = entered[t]
              \/ ret[u] = "receive" /\ pc[u] = "barrier" /\ entered[u] = entered[t] + 1
<1> USE ZeroIsMember
<1>1. /\ mem[t].size \in Nat /\ mem[u].size \in Nat
      /\ k[t] \in 1 .. Len(Packs) /\ Packs[k[t]] \in Nat
  BY SizesType DEF IInv, Packing
<1>2. Packs[k[t]] # 0
  BY <1>1
<1>3. \/ ret[u] = "alloc" /\ k[u] = k[t] /\ entered[u] = entered[t]
      \/ /\ ret[u] \in {"receive", "compute"} /\ k[u] = k[t]
         /\ pc[u] = "barrier" /\ entered[u] = entered[t] + 1
  BY <1>2, Near DEF IInv, After
<1>4. CASE Switching
  <2>1. ret[u] # "compute"
    BY <1>4, WhileSwitching DEF IInv
  <2> QED
    BY <2>1, <1>3, <1>4 DEF IInv, SizeInv
<1>5. CASE ~Switching
  <2>1. pc[0] # "done"
    <3> SUFFICES ASSUME pc[0] = "done" PROVE FALSE
      OBVIOUS
    <3>1. ret[0] = "free"
      BY SizesType DEF IInv, Places
    <3> QED
      BY <3>1, Near DEF IInv, After
  <2>2. mem[u] = mem[t]
    BY <2>1, <1>5 DEF IInv, MemInv
  <2>3. ret[u] = "compute" => mem[u].size >= Packs[k[u]]
    BY DEF IInv, SizeInv
  <2>4. ret[u] # "compute"
    BY <2>2, <2>3, <1>1, <1>3
  <2> QED
    BY <2>2, <2>4, <1>3
<1> QED
  BY <1>4, <1>5

LEMMA ReplaceStep == ASSUME IInv, NEW t \in Members, Replace(t) PROVE IInv'
<1> USE ZeroIsMember
<1>1. /\ pc[t] = "alloc" /\ mem[t].size < Packs[k[t]]
      /\ UNCHANGED <<k, mem, sent, local_mem_p, content, held, live>>
  BY DEF Replace, size_needed, alloc
<1>2. ret[t] = "alloc"
  BY <1>1, SizesType DEF IInv, Places
<1>3. ASSUME NEW u \in Members
      PROVE  /\ k[u] = k[t] /\ mem[u].size < Packs[k[u]]
             /\ ret[u] \in {"alloc", "receive"}
  BY <1>1, <1>2, AllReplace
<1>4. CASE t = 0
  <2> DEFINE next == IF mem[t].block # NULL THEN "release" ELSE "acquire"
  <2>1. /\ local_mem_s' = [live |-> TRUE, mem |-> NoMem]
        /\ Goto(t, next) /\ UNCHANGED <<ret, entered, left>>
    BY <1>4 DEF Replace
  <2>2. <<ret[t], next>> \in Places /\ next \in {"release", "acquire"}
    BY <1>2 DEF Places
  <2>3. /\ PlaceInv' /\ TogetherInv'
        /\ pc' \in [Members -> {"barrier"} \cup {x[2] : x \in Places}]
        /\ k' \in [Members -> 0 .. Len(Packs)] /\ ret' \in [Members -> Points]
        /\ entered' \in [Members -> Nat] /\ left' \in [Members -> Nat]
    <3> HIDE DEF next
    <3> QED
      BY <1>1, <1>4, <2>1, <2>2, GotoStep DEF IInv
  <2>4. local_mem_s' \in [live : BOOLEAN, mem : MemType]
    BY <2>1, PacksType DEF MemType, NoMem, Sizes
  <2>5. Typed'
    BY <1>1, <2>3, <2>4 DEF IInv, Typed
  <2>6. pc'[t] = next /\ \A u \in Members \ {t} : pc'[u] = pc[u]
    BY <2>1 DEF IInv, Typed, Goto
  <2>7. Switching'
    BY <2>2, <2>6 DEF Switching
  <2>8. MemInv'
    BY <2>7, <1>1 DEF IInv, MemInv
  <2>9. SizeInv'
    <3>1. \A u \in Members : ret'[u] = ret[u] /\ mem'[u] = mem[u] /\ k'[u] = k[u]
      BY <1>1, <2>1
    <3>2. \A u \in Members : pc'[u] = "pack" => pc[u] = "pack"
      BY <2>2, <2>6
    <3> QED
      BY <1>1, <1>3, <3>1, <3>2 DEF IInv, SizeInv
  <2>10. ChiefInv'
    <3>1. mem[0].block = held["team"]
      BY <1>2, <1>4 DEF IInv, ChiefInv
    <3>2. pc'[0] = "acquire" => held["team"] = NULL
      BY <3>1, <2>6, <1>4
    <3> QED
      BY <3>1, <3>2, <2>1, <2>2, <2>6, <1>1, <1>2, <1>4 DEF ChiefInv, ChiefSends
  <2>11. CopyInv' /\ AllocInv' /\ ContentInv'
    BY <1>1, <1>3, <2>1 DEF IInv, CopyInv, AllocInv, ContentInv
  <2> QED
    BY <2>3, <2>5, <2>8, <2>9, <2>10, <2>11 DEF IInv
<1>5. CASE t # 0
  <2>1. UNCHANGED local_mem_s /\ Barrier(t, "receive")
    BY <1>5 DEF Replace
  <2>2. k[t] \in 1 .. Len(Packs) /\ Packs[k[t]] # 0
    <3>1. mem[t].size \in Nat /\ k[t] \in 1 .. Len(Packs) /\ Packs[k[t]] \in Nat
      BY <1>2, SizesType DEF IInv, Packing
    <3> QED
      BY <3>1, <1>1
  <2>3. k' = [k EXCEPT ![t] = k[t]] /\ k[t] \in 0 .. Len(Packs) /\ k[t] > 0
    BY <1>1, <2>2 DEF IInv, Typed
  <2>4. \A u \in Members : After(ret[t], k[t], ret[u], k[u]) => ret[u] = "receive" /\ k[u] = k[t]
    BY <1>2, <1>3 DEF After
  <2>5. After(ret[t], k[t], "receive", k[t])
    BY <1>2 DEF After
  <2>6. "receive" \in Points /\ pc[t] # "barrier" /\ Typed /\ PlaceInv /\ TogetherInv
    BY <1>1 DEF Points, IInv
  <2>7. /\ PlaceInv' /\ TogetherInv'
        /\ k' \in [Members -> 0 .. Len(Packs)] /\ ret' \in [Members -> Points]
        /\ pc' = [pc EXCEPT ![t] = "barrier"] /\ ret' = [ret EXCEPT ![t] = "receive"]
        /\ pc' \in [Members -> {"barrier"} \cup {x[2] : x \in Places}]
        /\ entered' \in [Members -> Nat] /\ left' = left
        /\ entered' = [entered EXCEPT ![t] = entered[t] + 1]
    BY <2>1, <2>3, <2>4, <2>5, <2>6, EnterStep
  <2>8. /\ pc'[t] = "barrier" /\ ret'[t] = "receive"
        /\ \A u \in Members \ {t} : pc'[u] = pc[u] /\ ret'[u] = ret[u]
    BY <2>7 DEF IInv, Typed
  <2>9. Typed'
    BY <1>1, <2>1, <2>7 DEF IInv, Typed
  <2>10. Switching'
    BY <2>8 DEF Switching
  <2>11. MemInv'
    BY <2>10, <1>1 DEF IInv, MemInv
  <2>12. SizeInv'
    BY <1>1, <1>3, <2>8 DEF IInv, SizeInv
  <2>13. ChiefInv'
    BY <1>1, <1>5, <2>1, <2>8 DEF IInv, ChiefInv, ChiefSends
  <2>14. CopyInv' /\ AllocInv' /\ ContentInv'
    BY <1>1, <1>3, <2>1, <2>8 DEF IInv, CopyInv, AllocInv, ContentInv
  <2> QED
    BY <2>7, <2>9, <2>11, <2>12, <2>13, <2>14 DEF IInv
<1> QED
  BY <1>4, <1>5

LEMMA ReleaseOldStep == ASSUME IInv, NEW t \in Members, ReleaseOld(t) PROVE IInv'
<1> USE ZeroIsMember
<1>1. /\ pc[t] = "release" /\ Goto(t, "acquire")
      /\ held["team"] # NULL /\ held' = [held EXCEPT !["team"] = NULL]
      /\ live' \in {live, live \ {held["team"]}}
      /\ mem' = [mem EXCEPT ![t] = NoMem]
      /\ UNCHANGED <<k, ret, local_mem_s, sent, local_mem_p, content, entered, left>>
  BY DEF ReleaseOld, Pba!Release
<1>2. t = 0 /\ ret[t] = "alloc" /\ <<ret[t], "acquire">> \in Places
  BY <1>1, SizesType DEF IInv, Places, PlaceInv
<1>3. Switching
  BY <1>1 DEF Switching
<1>4. ASSUME NEW u \in Members
      PROVE  /\ ret[u] \in {"alloc", "receive", "copy", "alloced"}
             /\ k[u] \in 1 .. Len(Packs) /\ Packs[k[u]] > 0
  BY <1>3, WhileSwitching DEF IInv
<1>5. /\ PlaceInv' /\ TogetherInv'
      /\ pc' \in [Members -> {"barrier"} \cup {x[2] : x \in Places}]
      /\ k' \in [Members -> 0 .. Len(Packs)] /\ ret' \in [Members -> Points]
      /\ entered' \in [Members -> Nat] /\ left' \in [Members -> Nat]
  BY <1>1, <1>2, GotoStep DEF IInv
<1>6. pc'[0] = "acquire" /\ \A u \in Members \ {0} : pc'[u] = pc[u]
  BY <1>1, <1>2 DEF IInv, Typed, Goto
<1>7. mem'[0] = NoMem /\ \A u \in Members \ {0} : mem'[u] = mem[u]
  BY <1>1, <1>2 DEF IInv, Typed
<1>8. Typed'
  <2>1. NoMem \in MemType
    BY PacksType DEF NoMem, MemType, Sizes
  <2> QED
    BY <1>1, <1>5, <2>1 DEF IInv, Typed
<1>9. Switching'
  BY <1>6 DEF Switching
<1>10. MemInv'
  BY <1>7, <1>9 DEF IInv, MemInv, NoMem
<1>11. SizeInv'
  <2> SUFFICES ASSUME NEW u \in Members
               PROVE  /\ ret[u] # "alloced" => mem'[u].size < Packs[k[u]]
                      /\ ret[u] \in {"alloced", "compute"} \/ pc'[u] = "pack" =>
                            Packs[k[u]] > 0 /\ mem'[u].size >= Packs[k[u]]
    BY <1>1 DEF SizeInv
  <2>1. CASE u = 0
    BY <2>1, <1>2, <1>4, <1>6, <1>7 DEF NoMem
  <2>2. CASE u # 0
    BY <2>2, <1>3, <1>6, <1>7 DEF IInv, SizeInv
  <2> QED
    BY <2>1, <2>2
<1>12. AllocInv'
  BY <1>1 DEF IInv, AllocInv
<1>13. ChiefInv'
  <2>1. held'["team"] = NULL
    BY <1>1 DEF IInv, AllocInv
  <2>2. local_mem_s.live
    BY <1>1, <1>2 DEF IInv, ChiefInv
  <2> QED
    BY <2>1, <2>2, <1>1, <1>2, <1>6, <1>7 DEF ChiefInv, ChiefSends, NoMem
<1>14. CopyInv'
  BY <1>1, <1>2, <1>7 DEF IInv, CopyInv
<1>15. ContentInv'
  BY <1>1, <1>4 DEF ContentInv
<1> QED
  BY <1>5, <1>8, <1>10, <1>11, <1>12, <1>13, <1>14, <1>15 DEF IInv

LEMMA AcquireNewStep == ASSUME IInv, NEW t \in Members, AcquireNew(t) PROVE IInv'
<1> USE ZeroIsMember
<1>1. /\ pc[t] = "acquire" /\ Barrier(t, "receive") /\ sent' = k[t]
      /\ UNCHANGED <<k, mem, local_mem_p, content, live>>
  BY DEF AcquireNew, Pba!Acquire
<1>2. PICK b \in live \ Pba!Held : held' = [held EXCEPT !["team"] = b]
  BY DEF AcquireNew, Pba!Acquire
<1>3. PICK size \in Packs[k[t]] .. MaxSize :
          local_mem_s' = [live |-> TRUE, mem |-> [block |-> held'["team"], size |-> size]]
  BY DEF AcquireNew, size_needed
<1>4. t = 0 /\ ret[t] = "alloc"
  BY <1>1, SizesType DEF IInv, Places, PlaceInv
<1>5. k[t] \in 1 .. Len(Packs) /\ Packs[k[t]] \in Nat
  BY <1>4, SizesType DEF IInv, Packing
<1>6. Switching /\ mem[t].size < Packs[k[t]]
  BY <1>1, <1>4 DEF IInv, SizeInv, Switching
<1>7. ASSUME NEW u \in Members
      PROVE  /\ k[u] = k[t] /\ mem[u].size < Packs[k[u]]
             /\ ret[u] \in {"alloc", "receive"}
  BY <1>1, <1>4, <1>6, AllReplace
<1>8. b \in Blocks /\ b # NULL /\ b \in live /\ b # held["others"]
  BY PackmAssumption DEF IInv, AllocInv, Pba!Held
<1>9. AllocInv' /\ held'["team"] = b
  BY <1>1, <1>2, <1>8 DEF IInv, AllocInv
<1>10. size \in Nat /\ size >= Packs[k[t]] /\ size \in Sizes
  BY <1>5, PacksType DEF Sizes
<1>11. k' = [k EXCEPT ![t] = k[t]] /\ k[t] \in 0 .. Len(Packs) /\ k[t] > 0
  BY <1>1, <1>5 DEF IInv, Typed
<1>12. \A u \in Members : After(ret[t], k[t], ret[u], k[u]) => ret[u] = "receive" /\ k[u] = k[t]
  BY <1>4, <1>7 DEF After
<1>13. After(ret[t], k[t], "receive", k[t])
  BY <1>4 DEF After
<1>14. /\ "receive" \in Points /\ pc[t] # "barrier" /\ Barrier(t, "receive")
       /\ Typed /\ PlaceInv /\ TogetherInv
  BY <1>1 DEF Points, IInv
<1>15. /\ PlaceInv' /\ TogetherInv'
       /\ k' \in [Members -> 0 .. Len(Packs)] /\ ret' \in [Members -> Points]
       /\ pc' = [pc EXCEPT ![t] = "barrier"] /\ ret' = [ret EXCEPT ![t] = "receive"]
       /\ pc' \in [Members -> {"barrier"} \cup {x[2] : x \in Places}]
       /\ entered' \in [Members -> Nat] /\ left' = left
       /\ entered' = [entered EXCEPT ![t] = entered[t] + 1]
  BY <1>11, <1>12, <1>13, <1>14, EnterStep
<1>16. /\ pc'[t] = "barrier" /\ ret'[t] = "receive"
       /\ \A u \in Members \ {t} : pc'[u] = pc[u] /\ ret'[u] = ret[u]
  BY <1>15 DEF IInv, Typed
<1>17. /\ local_mem_s'.live = TRUE /\ local_mem_s'.mem.block = b /\ local_mem_s'.mem.size = size
       /\ local_mem_s' \in [live : BOOLEAN, mem : MemType]
  BY <1>3, <1>8, <1>9, <1>10 DEF MemType
<1>18. Typed'
  <2>1. sent' \in Nat
    BY <1>1, <1>5
  <2> QED
    BY <1>1, <1>15, <1>17, <2>1 DEF IInv, Typed
<1>19. Switching'
  BY <1>16 DEF Switching
<1>20. MemInv'
  BY <1>19, <1>1 DEF IInv, MemInv
<1>21. SizeInv'
  BY <1>1, <1>7, <1>16 DEF IInv, SizeInv
<1>22. ChiefInv'
  BY <1>1, <1>4, <1>8, <1>9, <1>10, <1>16, <1>17 DEF ChiefInv, ChiefSends
<1>23. CopyInv' /\ ContentInv'
  BY <1>1, <1>7, <1>16 DEF CopyInv, ContentInv
<1> QED
  BY <1>9, <1>15, <1>18, <1>20, <1>21, <1>22, <1>23 DEF IInv

\* While a thread receives or copies, the chief's local mem_t is that of the
\* packing that the thread is in.
LEMMA ChiefIsThere ==
    ASSUME IInv, NEW t \in Members, pc[t] # "barrier", ret[t] \in {"receive", "copy"}
    PROVE  /\ local_mem_s.live /\ sent = k[t] /\ k[0] = k[t]
           /\ local_mem_s.mem.block = held["team"] /\ held["team"] # NULL
           /\ local_mem_s.mem.size >= Packs[k[t]]
<1> USE ZeroIsMember
<1>1. /\ k[0] = k[t]
      /\ \/ ret[0] = ret[t]
         \/ ret[0] \in {"copy", "alloced"} /\ pc[0] = "barrier"
  BY Near DEF IInv, After
<1>2. ChiefSends
  BY <1>1 DEF ChiefSends
<1> QED
  BY <1>1, <1>2 DEF IInv, ChiefInv

LEMMA ReceiveStep == ASSUME IInv, NEW t \in Members, Receive(t) PROVE IInv'
<1> USE ZeroIsMember
<1>1. /\ pc[t] = "receive" /\ Barrier(t, "copy")
      /\ local_mem_p' = [local_mem_p EXCEPT ![t] = sent]
      /\ UNCHANGED <<k, mem, local_mem_s, sent, content, held, live>>
  BY DEF Receive, alloc
<1>2. ret[t] = "receive"
  BY <1>1, SizesType DEF IInv, Places
<1>3. Switching /\ sent = k[t]
  BY <1>1, <1>2, ChiefIsThere DEF Switching
<1>4. k[t] \in 1 .. Len(Packs) /\ \A u \in Members : ret[u] # "compute"
  BY <1>3, WhileSwitching DEF IInv
<1>5. k' = [k EXCEPT ![t] = k[t]] /\ k[t] \in 0 .. Len(Packs) /\ k[t] > 0
  BY <1>1, <1>4, PacksType DEF IInv, Typed
<1>6. \A u \in Members : After(ret[t], k[t], ret[u], k[u]) => ret[u] = "copy" /\ k[u] = k[t]
  BY <1>2 DEF After
<1>7. After(ret[t], k[t], "copy", k[t])
  BY <1>2 DEF After
<1>8. /\ "copy" \in Points /\ pc[t] # "barrier" /\ Barrier(t, "copy")
      /\ Typed /\ PlaceInv /\ TogetherInv
  BY <1>1 DEF Points, IInv
<1>9. /\ PlaceInv' /\ TogetherInv'
      /\ k' \in [Members -> 0 .. Len(Packs)] /\ ret' \in [Members -> Points]
      /\ pc' = [pc EXCEPT ![t] = "barrier"] /\ ret' = [ret EXCEPT ![t] = "copy"]
      /\ pc' \in [Members -> {"barrier"} \cup {x[2] : x \in Places}]
      /\ entered' \in [Members -> Nat] /\ left' = left
      /\ entered' = [entered EXCEPT ![t] = entered[t] + 1]
  BY <1>5, <1>6, <1>7, <1>8, EnterStep
<1>10. /\ pc'[t] = "barrier" /\ ret'[t] = "copy"
       /\ \A u \in Members \ {t} : pc'[u] = pc[u] /\ ret'[u] = ret[u]
  BY <1>9 DEF IInv, Typed
<1>11. Typed'
  BY <1>1, <1>9 DEF IInv, Typed
<1>12. Switching'
  BY <1>10 DEF Switching
<1>13. MemInv'
  BY <1>12, <1>1 DEF IInv, MemInv
<1>14. SizeInv'
  BY <1>1, <1>2, <1>3, <1>10 DEF IInv, SizeInv
<1>15. ChiefInv'
  BY <1>1, <1>2, <1>10 DEF IInv, ChiefInv, ChiefSends
<1>16. CopyInv'
  <2>1. local_mem_p'[t] = k[t] /\ \A u \in Members \ {t} : local_mem_p'[u] = local_mem_p[u]
    BY <1>1, <1>3 DEF IInv, Typed
  <2> QED
    BY <2>1, <1>1, <1>10 DEF IInv, CopyInv
<1>17. AllocInv' /\ ContentInv'
  BY <1>1, <1>4, <1>10 DEF IInv, AllocInv, ContentInv
<1> QED
  BY <1>9, <1>11, <1>13, <1>14, <1>15, <1>16, <1>17 DEF IInv

LEMMA CopyMemStep == ASSUME IInv, NEW t \in Members, CopyMem(t) PROVE IInv'
<1> USE ZeroIsMember
<1>1. /\ pc[t] = "copy" /\ Barrier(t, "alloced")
      /\ mem' = [mem EXCEPT ![t] = local_mem_s.mem]
      /\ UNCHANGED <<k, local_mem_p, local_mem_s, sent, content, held, live>>
  BY DEF CopyMem, alloc
<1>2. ret[t] = "copy"
  BY <1>1, SizesType DEF IInv, Places
<1>3. /\ Switching /\ local_mem_s.live /\ k[0] = k[t]
      /\ local_mem_s.mem.block = held["team"] /\ held["team"] # NULL
      /\ local_mem_s.mem.size >= Packs[k[t]]
  BY <1>1, <1>2, ChiefIsThere DEF Switching
<1>4. /\ k[t] \in 1 .. Len(Packs) /\ Packs[k[t]] > 0
      /\ \A u \in Members : ret[u] \in {"alloc", "receive", "copy", "alloced"}
  BY <1>3, WhileSwitching DEF IInv
<1>5. k' = [k EXCEPT ![t] = k[t]] /\ k[t] \in 0 .. Len(Packs) /\ k[t] > 0
  BY <1>1, <1>4, PacksType DEF IInv, Typed
<1>6. \A u \in Members : After(ret[t], k[t], ret[u], k[u]) => ret[u] = "alloced" /\ k[u] = k[t]
  BY <1>2 DEF After
<1>7. After(ret[t], k[t], "alloced", k[t])
  BY <1>2 DEF After
<1>8. /\ "alloced" \in Points /\ pc[t] # "barrier" /\ Barrier(t, "alloced")
      /\ Typed /\ PlaceInv /\ TogetherInv
  BY <1>1 DEF Points, IInv
<1>9. /\ PlaceInv' /\ TogetherInv'
      /\ k' \in [Members -> 0 .. Len(Packs)] /\ ret' \in [Members -> Points]
      /\ pc' = [pc EXCEPT ![t] = "barrier"] /\ ret' = [ret EXCEPT ![t] = "alloced"]
      /\ pc' \in [Members -> {"barrier"} \cup {x[2] : x \in Places}]
      /\ entered' \in [Members -> Nat] /\ left' = left
      /\ entered' = [entered EXCEPT ![t] = entered[t] + 1]
  BY <1>5, <1>6, <1>7, <1>8, EnterStep
<1>10. /\ pc'[t] = "barrier" /\ ret'[t] = "alloced" /\ mem'[t] = local_mem_s.mem
       /\ \A u \in Members \ {t} : pc'[u] = pc[u] /\ ret'[u] = ret[u] /\ mem'[u] = mem[u]
  BY <1>1, <1>9 DEF IInv, Typed
<1>11. Typed'
  <2>1. local_mem_s.mem \in MemType
    BY DEF IInv, Typed
  <2> QED
    BY <1>1, <1>9, <2>1 DEF IInv, Typed
<1>12. MemInv'
  <2>1. ASSUME ~Switching', NEW u \in Members
        PROVE  mem'[u] = local_mem_s.mem
    <3>1. u # t => ret[u] \notin {"receive", "copy"}
      BY <2>1, <1>10 DEF Switching
    <3>2. u # t => ret[u] = "alloced"
      BY <3>1, <1>1, <1>2, Near DEF IInv, After
    <3> QED
      BY <3>2, <1>3, <1>10 DEF IInv, CopyInv
  <2>2. \A u \in Members : mem'[u].size > 0 => mem'[u].block # NULL
    BY <1>3, <1>10 DEF IInv, MemInv
  <2> QED
    BY <2>1, <2>2, <1>1, <1>3 DEF MemInv
<1>13. SizeInv'
  BY <1>1, <1>3, <1>4, <1>10 DEF IInv, SizeInv
<1>14. ChiefInv'
  BY <1>1, <1>2, <1>3, <1>10 DEF IInv, ChiefInv, ChiefSends
<1>15. CopyInv'
  BY <1>1, <1>10 DEF IInv, CopyInv
<1>16. AllocInv' /\ ContentInv'
  BY <1>1, <1>4, <1>10 DEF IInv, AllocInv, ContentInv
<1> QED
  BY <1>9, <1>11, <1>12, <1>13, <1>14, <1>15, <1>16 DEF IInv

LEMMA OthersStep == ASSUME IInv, Others PROVE IInv'
<1> USE ZeroIsMember
<1>1. UNCHANGED <<pc, k, ret, mem, local_mem_s, sent, local_mem_p, entered, left>>
  BY DEF Others, node
<1>2. CASE OthersPack
  <2>1. /\ held["others"] # NULL /\ UNCHANGED <<held, live>>
        /\ content' = [content EXCEPT ![held["others"]] = [t \in Members |-> 0]]
    BY <1>2 DEF OthersPack, alloc
  <2>2. Typed'
    BY <2>1, <1>1 DEF IInv, Typed
  <2>3. ContentInv'
    <3> SUFFICES ASSUME NEW t \in Members, ret[t] = "compute"
                 PROVE  content'[held["team"]] = content[held["team"]]
      BY <1>1, <2>1 DEF IInv, ContentInv
    <3>1. ~Switching
      BY WhileSwitching DEF IInv
    <3>2. held["team"] # NULL
      BY <3>1, TeamBlock, PackmAssumption
    <3> QED
      BY <2>1, <3>2 DEF IInv, AllocInv, Typed
  <2>4. PlaceInv' /\ TogetherInv' /\ MemInv' /\ SizeInv' /\ ChiefInv' /\ CopyInv' /\ AllocInv'
    BY <1>1, <2>1 DEF IInv, PlaceInv, TogetherInv, MemInv, SizeInv, ChiefInv, CopyInv,
                      AllocInv, Switching, ChiefSends
  <2> QED
    BY <2>2, <2>3, <2>4 DEF IInv
<1>3. CASE UNCHANGED content /\ (Pba!Acquire("others") \/ Pba!Release("others"))
  <2>1. /\ held' \in [{"team", "others"} -> Blocks \cup {NULL}] /\ held'["team"] = held["team"]
        /\ live' \subseteq Blocks
    BY <1>3 DEF IInv, AllocInv, Pba!Acquire, Pba!Release
  <2>2. AllocInv'
    <3>1. CASE Pba!Acquire("others")
      <4>1. PICK b \in live \ Pba!Held : held' = [held EXCEPT !["others"] = b]
        BY <3>1 DEF Pba!Acquire
      <4>2. live' = live
        BY <3>1 DEF Pba!Acquire
      <4>3. held["team"] # NULL => b # held["team"]
        BY <4>1 DEF Pba!Held
      <4> QED
        BY <2>1, <4>1, <4>2, <4>3 DEF IInv, AllocInv
    <3>2. CASE Pba!Release("others")
      BY <2>1, <3>2 DEF IInv, AllocInv, Pba!Release
    <3> QED
      BY <1>3, <3>1, <3>2
  <2>3. Typed' /\ ContentInv'
    BY <1>1, <1>3, <2>1 DEF IInv, Typed, ContentInv
  <2>4. PlaceInv' /\ TogetherInv' /\ MemInv' /\ SizeInv' /\ ChiefInv' /\ CopyInv'
    BY <1>1, <2>1 DEF IInv, PlaceInv, TogetherInv, MemInv, SizeInv, ChiefInv, CopyInv,
                      Switching, ChiefSends
  <2> QED
    BY <2>2, <2>3, <2>4 DEF IInv
<1> QED
  BY <1>2, <1>3 DEF Others

LEMMA ManageStep == ASSUME IInv, Manage PROVE IInv'
<1>1. /\ UNCHANGED <<pc, k, ret, mem, local_mem_s, sent, local_mem_p, content, entered, left, held>>
      /\ live' \subseteq Blocks /\ Pba!Held \subseteq live'
  BY DEF Manage, Pba!Manage, node
<1>2. AllocInv'
  BY <1>1 DEF IInv, AllocInv, Pba!Held
<1>3. Typed' /\ PlaceInv' /\ TogetherInv' /\ MemInv' /\ SizeInv' /\ ChiefInv' /\ CopyInv' /\ ContentInv'
  BY <1>1 DEF IInv, Typed, PlaceInv, TogetherInv, MemInv, SizeInv, ChiefInv, CopyInv,
              ContentInv, Switching, ChiefSends
<1> QED
  BY <1>2, <1>3 DEF IInv

LEMMA StepIInv == ASSUME IInv, [Next]_vars PROVE IInv'
<1>1. CASE UNCHANGED vars
  BY <1>1 DEF vars, node, alloc, IInv, Typed, PlaceInv, TogetherInv, MemInv, SizeInv, ChiefInv,
              CopyInv, AllocInv, ContentInv, Switching, ChiefSends
<1>2. ASSUME NEW t \in Members, Step(t) PROVE IInv'
  BY <1>2, LeaveStep, PackmIntStep, NothingToPackStep, ReuseStep, ReplaceStep, ReleaseOldStep,
     AcquireNewStep, ReceiveStep, CopyMemStep, AllocReturnStep, PackPanelsStep, ComputeStep,
     CloseStep, FreeMemStep DEF Step
<1> QED
  BY <1>1, <1>2, OthersStep, ManageStep DEF Next

\* The inductive invariant holds in every reachable state.
THEOREM Invariance == Spec => []IInv
<1>1. Init => IInv
  BY InitIInv
<1>2. IInv /\ [Next]_vars => IInv'
  BY StepIInv
<1> QED
  BY <1>1, <1>2, PTL DEF Spec

-----------------------------------------------------------------------------

\* bli_packm_alloc_ex and bli_packm_int: a thread packs into, and computes
\* from, the block that its team holds.
THEOREM BlockIsHeld == Spec => []BufferIsHeld
<1>1. IInv => BufferIsHeld
  <2> USE ZeroIsMember
  <2> SUFFICES ASSUME IInv, NEW t \in Members
               PROVE  /\ pc[t] \in {"pack", "compute"} /\ Packs[k[t]] > 0 =>
                            /\ mem[t].block = held["team"] /\ mem[t].block \in live
                            /\ mem[t].size >= Packs[k[t]]
                      /\ t = 0 /\ pc[t] = "done" => held["team"] = NULL
    BY DEF BufferIsHeld, size_needed
  <2>1. CASE pc[t] \in {"pack", "compute"}
    <3>1. ~Switching
      BY <2>1, NotSwitching DEF IInv
    <3>2. pc[t] = "compute" => ret[t] = "compute"
      BY SizesType DEF IInv, Places
    <3>3. mem[t].block = held["team"] /\ held["team"] \in Blocks
      BY <2>1, <3>1, <3>2, TeamBlock
    <3>4. held["team"] \in live
      BY <3>3, PackmAssumption DEF IInv, AllocInv
    <3> QED
      BY <2>1, <3>2, <3>3, <3>4 DEF IInv, SizeInv
  <2>2. t = 0 /\ pc[t] = "done" => held["team"] = NULL
    BY DEF IInv, ChiefInv
  <2> QED
    BY <2>1, <2>2
<1> QED
  BY <1>1, Invariance, PTL

\* The two barriers of bli_packm_int: what a thread computes with is what all
\* threads have packed for it, and nobody overwrites it.
THEOREM DataIsStable == Spec => []PackedDataStable
<1>1. IInv => PackedDataStable
  <2> SUFFICES ASSUME IInv, NEW t \in Members, pc[t] = "compute", NEW u \in Members
               PROVE  content[mem[t].block][u] = k[t]
    BY DEF PackedDataStable
  <2>1. ~Switching /\ ret[t] = "compute"
    BY NotSwitching, SizesType DEF IInv, Places
  <2>2. mem[t].block = held["team"]
    BY <2>1, TeamBlock
  <2>3. entered[u] >= entered[t]
    <3>1. entered[t] \in Nat /\ entered[u] \in Nat
      BY DEF IInv, Typed
    <3> QED
      BY <3>1, Near DEF IInv
  <2> QED
    BY <2>1, <2>2, <2>3 DEF IInv, ContentInv
<1> QED
  BY <1>1, Invariance, PTL

\* The barrier at the end of bli_packm_alloc_ex: nobody copies a local mem_t
\* that is out of scope, or that of another packing.
THEOREM LocalIsThere == Spec => []LocalOutlivesReaders
<1>1. IInv => LocalOutlivesReaders
  <2> SUFFICES ASSUME IInv, NEW t \in Members, pc[t] = "copy"
               PROVE  local_mem_s.live /\ local_mem_p[t] = k[t] /\ k[0] = k[t]
    BY DEF LocalOutlivesReaders
  <2>1. ret[t] = "copy"
    BY SizesType DEF IInv, Places
  <2> QED
    BY <2>1, ChiefIsThere DEF IInv, CopyInv
<1> QED
  BY <1>1, Invariance, PTL
=============================================================================
