--------------------------- MODULE GraphAllocProofs ---------------------------
(***************************************************************************)
(* What GraphAlloc keeps, for graphs of any size: the free list and the     *)
(* allocated tensors divide the buffer among them, and a graph that is      *)
(* computed from the offsets that were measured never overwrites a value    *)
(* that is still to be read.                                               *)
(***************************************************************************)
EXTENDS GraphAlloc, Recursion, FiniteSetTheorems, SequenceTheorems

(***************************************************************************)
(* Blocks and the free list.                                               *)
(***************************************************************************)
Block      == [offset : Nat, size : Nat]
In(a, b)   == b.offset <= a /\ a < b.offset + b.size
Disjoint(b, c) == \A a \in Nat : ~(In(a, b) /\ In(a, c))
IsFree(free, a)  == \E i \in DOMAIN free : In(a, free[i])

\* Blocks of a free list do not overlap, whatever their order.
Separate(free) == \A i, j \in DOMAIN free : i # j => Disjoint(free[i], free[j])
FreeList(free) == free \in Seq(Block) /\ Separate(free) /\ \A i \in DOMAIN free : End(free[i]) <= Room

\* There is a block that goes to the end, and starts at m or before.
Rest(free, m) == \E i \in DOMAIN free : End(free[i]) = Room /\ free[i].offset <= m

(***************************************************************************)
(* The graph, and how far a walk over it has come.                         *)
(***************************************************************************)
TensorType == [op : {"none", "view", "inplace", "other"}, src : Seq(Nat), view_src : Nat, shape : {"tokens", "one"}]

\* The uses of tensors as parents: <<node, position>>; those from node k on; those of t.
Sites       == {x \in Nodes \X (1 .. 2) : x[2] \in DOMAIN src(x[1])}
From(k)     == {x \in Sites : x[1] >= k}
UsesIn(U, t) == {x \in U : src(x[1])[x[2]] = t}
\* The views of t that are not done with, a view that is never used included.
ViewsIn(U, t) == {v \in Nodes : graph[v].view_src = t /\ (UsesIn(U, v) # {} \/ UsesIn(Sites, v) = {})}

\* With the uses U still to come, the value of t is not needed any more.
Past(U, t) == UsesIn(U, t) = {} /\ ViewsIn(U, t) = {} /\ t \notin outputs /\ UsesIn(Sites, t) # {}

Parent(t) ==
  /\ Len(src(t)) \in {1, 2}
  /\ \A k \in DOMAIN src(t) : src(t)[k] \in 1 .. t - 1
  /\ is_view(t) => /\ graph[t].view_src \in 1 .. t - 1
                   /\ ~is_view(graph[t].view_src)
                   /\ UsesIn(Sites, graph[t].view_src) # {}
GraphInv ==
  /\ graph \in Seq(TensorType)
  /\ Len(graph) \in NLeafs .. NLeafs + NNodes
  /\ \A t \in 1 .. NLeafs : src(t) = <<>> /\ ~is_view(t)
  /\ \A t \in Nodes : Parent(t)
  /\ outputs \subseteq Nodes
  /\ \A t \in outputs : is_view(t) => UsesIn(Sites, t) = {}
  /\ phase = "build" => outputs = {}

\* The tensors that own memory.
Owning == {t \in Tensors : ~is_view(t)}

\* The block b of s and the block c of a later t do not get in each other's way.
Compatible(s, b, t, c) ==
  \/ Disjoint(b, c)
  \/ Past(From(t), s)
  \/ graph[t].op = "inplace" /\ b = c /\ Past(From(t + 1), s) /\ ViewsIn(From(t), s) = {}

(***************************************************************************)
(* While a graph is measured: the nodes before k are placed, the uses U are  *)
(* to come.                                                                *)
(***************************************************************************)
HashType == [n_children : Int, n_views : Int, offset : Nat, allocated : BOOLEAN]
AllocType(G) == /\ DOMAIN G = {"hash", "free", "max_size"}
                /\ G = [hash |-> G.hash, free |-> G.free, max_size |-> G.max_size]
                /\ G.hash \in [Tensors -> HashType]
                /\ FreeList(G.free)
                /\ G.max_size \in 0 .. Room
Place(G, t)  == [offset |-> G.hash[t].offset, size |-> Size(t)]
Counts(G, U) == \A t \in Tensors : /\ G.hash[t].n_children = Cardinality(UsesIn(U, t))
                                   /\ G.hash[t].n_views = Cardinality(ViewsIn(U, t))
Owned(G, k)  == /\ \A t \in Tensors : G.hash[t].allocated => t \in Owning /\ t < k
                /\ \A t \in Owning : t < k => G.hash[t].allocated \/ Past(From(k), t)
Divided(G)   ==
  /\ \A a \in 0 .. Room - 1 : IsFree(G.free, a) \/ \E t \in Tensors : G.hash[t].allocated /\ In(a, Place(G, t))
  /\ \A t \in Tensors : G.hash[t].allocated =>
       /\ \A i \in DOMAIN G.free : Disjoint(Place(G, t), G.free[i])
       /\ \A s \in Tensors : G.hash[s].allocated /\ s # t => Disjoint(Place(G, t), Place(G, s))
Placed(G, k) ==
  /\ \A t \in Owning : t < k => End(Place(G, t)) <= G.max_size
  /\ \A s, t \in Owning : s < t /\ t < k => Compatible(s, Place(G, s), t, Place(G, t))
\* The walk has not taken more than a block of the largest size for each tensor.
RoomLeft(G, k) == \E i \in DOMAIN G.free : End(G.free[i]) = Room /\ G.free[i].offset + MaxN + 1 <= k * (MaxN + 1)
Walk(G, U, k) ==
  /\ AllocType(G) /\ Counts(G, U) /\ Owned(G, k) /\ Divided(G) /\ Placed(G, k)
  /\ RoomLeft(G, k)

(***************************************************************************)
(* The layout that is kept, and the computation.                           *)
(***************************************************************************)
Kept(t) == [offset |-> allocs[t].offset, size |-> allocs[t].size_max]
Layout ==
  /\ DOMAIN allocs = Tensors
  /\ \A t \in Owning : Kept(t) \in Block /\ End(Kept(t)) <= buffer
  /\ \A t \in Owning : graph[t].shape = "one" => allocs[t].size_max = 1
  /\ \A s, t \in Owning : s < t => Compatible(s, Kept(s), t, Kept(t))

Computing ==
  /\ \A t \in Owning : Size(t) <= allocs[t].size_max
  /\ \A t \in Owning : t < next => Past(From(next), t) \/ Holds(t)

AllocInv ==
  /\ GraphInv
  /\ n \in 0 .. MaxN /\ phase \in {"build", "built", "measure", "compute"}
  /\ next \in 0 .. Len(graph) + 1
  /\ buffer \in 0 .. Room /\ mem \in [0 .. Room - 1 -> Nat]
  /\ phase = "build" => allocs = NoAllocs
  /\ allocs # NoAllocs => Layout
  /\ phase = "measure" => next >= 1 /\ Walk(galloc, From(next), next)
  /\ phase # "measure" => galloc = Reset
  /\ phase = "compute" => next >= 1 /\ allocs # NoAllocs /\ Computing

\* The inputs are alike, and a graph that is complete uses one: what the code looks at, the
\* nodes and their sources, tells of all inputs whether they have grown.
LeafInv ==
  /\ phase # "build" => Nodes # {}
  /\ \A l \in 1 .. NLeafs : graph[l].shape = "tokens"
  /\ allocs # NoAllocs => \A l, m \in 1 .. NLeafs : allocs[l].size_max = allocs[m].size_max
-----------------------------------------------------------------------------
(***************************************************************************)
(* Lemmas about the free list: the operations change what is free by the   *)
(* block they are about, and nothing else.                                 *)
(***************************************************************************)
\* The buffer has room for a block of the largest size for each tensor, and more.
LEMMA RoomFacts ==
  /\ NLeafs \in Nat \ {0} /\ NNodes \in Nat /\ MaxN \in Nat
  /\ Room \in Nat \ {0}
  /\ \A k \in 1 .. NLeafs + NNodes : (k - 1) * (MaxN + 1) \in Nat /\ (k - 1) * (MaxN + 1) + MaxN + 1 < Room
                                     /\ (k - 1) * (MaxN + 1) + MaxN + 1 = k * (MaxN + 1)
<1>1. NLeafs \in Nat \ {0} /\ NNodes \in Nat /\ MaxN \in Nat
  BY GraphAssumption
<1>2. \A M, k, j \in Nat : k <= j => k * M \in Nat /\ k * M <= j * M
  OBVIOUS
<1>3. ASSUME NEW k \in 1 .. NLeafs + NNodes
      PROVE  /\ (k - 1) * (MaxN + 1) \in Nat /\ (k - 1) * (MaxN + 1) + MaxN + 1 < Room
             /\ (k - 1) * (MaxN + 1) + MaxN + 1 = k * (MaxN + 1)
  <2>1. (k - 1) * (MaxN + 1) + MaxN + 1 = k * (MaxN + 1)
    BY <1>1
  <2>2. k * (MaxN + 1) <= (NLeafs + NNodes) * (MaxN + 1)
    BY <1>1, <1>2
  <2> QED BY <1>1, <1>2, <2>1, <2>2 DEF Room
<1>4. Room \in Nat \ {0}
  BY <1>1, <1>2 DEF Room
<1> QED BY <1>1, <1>3, <1>4

\* A sequence of which one element is removed.
LEMMA Removed ==
  ASSUME NEW S, NEW f \in Seq(S), NEW i \in 1 .. Len(f)
  PROVE  /\ RemoveAt(f, i) \in Seq(S)
         /\ Len(RemoveAt(f, i)) = Len(f) - 1
         /\ \A j \in 1 .. Len(f) - 1 : RemoveAt(f, i)[j] = IF j < i THEN f[j] ELSE f[j + 1]
<1> DEFINE a == SubSeq(f, 1, i - 1)
           b == SubSeq(f, i + 1, Len(f))
<1>1. a \in Seq(S) /\ Len(a) = i - 1 /\ \A j \in 1 .. i - 1 : a[j] = f[j]
  OBVIOUS
<1>2. b \in Seq(S) /\ Len(b) = Len(f) - i /\ \A j \in 1 .. Len(f) - i : b[j] = f[j + i]
  OBVIOUS
<1> HIDE DEF a, b
<1>3. /\ a \o b \in Seq(S)
      /\ Len(a \o b) = Len(a) + Len(b)
      /\ \A j \in 1 .. Len(a) + Len(b) : (a \o b)[j] = IF j <= Len(a) THEN a[j] ELSE b[j - Len(a)]
  BY <1>1, <1>2, ConcatProperties
<1>4. RemoveAt(f, i) = a \o b
  BY DEF RemoveAt, a, b
<1>5. Len(a) + Len(b) = Len(f) - 1
  BY <1>1, <1>2
<1>6. ASSUME NEW j \in 1 .. Len(f) - 1 PROVE (a \o b)[j] = IF j < i THEN f[j] ELSE f[j + 1]
  <2>1. CASE j < i
    BY <1>1, <1>3, <1>5, <2>1
  <2>2. CASE ~(j < i)
    <3>1. j - (i - 1) \in 1 .. Len(f) - i /\ j - (i - 1) + i = j + 1
      BY <2>2
    <3> QED BY <1>1, <1>2, <1>3, <1>5, <2>2, <3>1
  <2> QED BY <2>1, <2>2
<1> QED BY <1>3, <1>4, <1>5, <1>6

\* A sequence into which an element is inserted.
LEMMA Inserted ==
  ASSUME NEW S, NEW f \in Seq(S), NEW i \in 1 .. Len(f) + 1, NEW e \in S
  PROVE  /\ InsertAt(f, i, e) \in Seq(S)
         /\ Len(InsertAt(f, i, e)) = Len(f) + 1
         /\ \A j \in 1 .. Len(f) + 1 :
              InsertAt(f, i, e)[j] = IF j < i THEN f[j] ELSE IF j = i THEN e ELSE f[j - 1]
<1> DEFINE a == SubSeq(f, 1, i - 1)
           b == SubSeq(f, i, Len(f))
           c == a \o <<e>>
<1>1. a \in Seq(S) /\ Len(a) = i - 1 /\ \A j \in 1 .. i - 1 : a[j] = f[j]
  OBVIOUS
<1>2. b \in Seq(S) /\ Len(b) = Len(f) - i + 1 /\ \A j \in 1 .. Len(f) - i + 1 : b[j] = f[j + i - 1]
  OBVIOUS
<1> HIDE DEF a, b
<1>3. <<e>> \in Seq(S) /\ Len(<<e>>) = 1 /\ <<e>>[1] = e
  OBVIOUS
<1>4. /\ c \in Seq(S) /\ Len(c) = i
      /\ \A j \in 1 .. i : c[j] = IF j < i THEN f[j] ELSE e
  BY <1>1, <1>3, ConcatProperties
<1> HIDE DEF c
<1>5. /\ c \o b \in Seq(S)
      /\ Len(c \o b) = Len(c) + Len(b)
      /\ \A j \in 1 .. Len(c) + Len(b) : (c \o b)[j] = IF j <= Len(c) THEN c[j] ELSE b[j - Len(c)]
  BY <1>2, <1>4, ConcatProperties
<1>6. InsertAt(f, i, e) = c \o b
  BY DEF InsertAt, a, b, c
<1> QED BY <1>2, <1>4, <1>5, <1>6

\* A set of naturals has a least element.
LEMMA MinFacts ==
  ASSUME NEW S \in SUBSET Nat, S # {}
  PROVE  Min(S) \in S /\ \A x \in S : Min(S) <= x
<1>1. \E x \in S : \A y \in S : x <= y
  BY LeastNatural
<1> QED BY <1>1 DEF Min

\* A bounded set of naturals has a greatest element.
LEMMA MaxFacts ==
  ASSUME NEW N \in Nat, NEW S \in SUBSET (0 .. N), S # {}
  PROVE  Max(S) \in S /\ \A x \in S : Max(S) >= x
<1> DEFINE T == {N - x : x \in S}
<1>1. T \in SUBSET Nat /\ T # {}
  <2>1. \A x \in S : x \in 0 .. N /\ N - x \in Nat
    OBVIOUS
  <2> QED BY <2>1
<1>2. PICK m \in T : \A y \in T : m <= y
  BY <1>1, LeastNatural
<1>3. PICK x \in S : m = N - x
  BY <1>2
<1>4. \A y \in S : N - y \in T
  OBVIOUS
<1> HIDE DEF T
<1>5. \A y \in S : x >= y
  BY <1>2, <1>3, <1>4
<1> QED BY <1>3, <1>5 DEF Max

\* A sequence of blocks, in terms that arithmetic takes up.
LEMMA BlockFacts ==
  ASSUME NEW free \in Seq(Block)
  PROVE  /\ Len(free) \in Nat /\ DOMAIN free = 1 .. Len(free)
         /\ \A i \in 1 .. Len(free) :
              /\ free[i] \in Block /\ free[i].offset \in Nat /\ free[i].size \in Nat
              /\ free[i] = [offset |-> free[i].offset, size |-> free[i].size]
<1>1. Len(free) \in Nat /\ DOMAIN free = 1 .. Len(free) /\ \A i \in 1 .. Len(free) : free[i] \in Block
  OBVIOUS
<1>2. \A b \in Block : /\ b.offset \in Nat /\ b.size \in Nat
                       /\ b = [offset |-> b.offset, size |-> b.size]
  BY DEF Block
<1> QED BY <1>1, <1>2

\* If a block is large enough, so is the best fitting one.
LEMMA BestFitFacts ==
  ASSUME NEW free \in Seq(Block), NEW size \in Nat, NEW k \in DOMAIN free, free[k].size >= size
  PROVE  BestFit(free, size) \in DOMAIN free /\ free[BestFit(free, size)].size >= size
<1> DEFINE fits == {i \in 1 .. Len(free) - 1 : free[i].size >= size}
           best == {i \in fits : \A j \in fits : free[i].size <= free[j].size}
<1>1. Len(free) \in Nat /\ DOMAIN free = 1 .. Len(free) /\ \A i \in 1 .. Len(free) : free[i].size \in Nat
  BY BlockFacts
<1>2. CASE fits = {}
  <2>1. BestFit(free, size) = Len(free)
    BY <1>2 DEF BestFit
  <2>2. k = Len(free)
    BY <1>1, <1>2
  <2> QED BY <1>1, <2>1, <2>2
<1>3. CASE fits # {}
  <2> DEFINE sizes == {free[i].size : i \in fits}
  <2>1. sizes \in SUBSET Nat /\ sizes # {}
    <3>1. \A i \in fits : free[i].size \in Nat
      BY <1>1
    <3> HIDE DEF fits
    <3> QED BY <1>3, <3>1
  <2>2. PICK s \in sizes : \A x \in sizes : s <= x
    BY <2>1, LeastNatural
  <2>a. PICK i \in fits : s = free[i].size
    BY <2>2
  <2>b. \A j \in fits : free[i].size <= free[j].size
    BY <2>2, <2>a
  <2>c. i \in best
    BY <2>a, <2>b
  <2>d. \A j \in best : j \in 0 .. Len(free)
    BY <1>1
  <2>3. best # {} /\ best \in SUBSET (0 .. Len(free))
    BY <2>c, <2>d
  <2>4. Max(best) \in best
    BY <1>1, <2>3, MaxFacts
  <2>5. BestFit(free, size) = Max(best)
    BY <1>3 DEF BestFit
  <2> QED BY <1>1, <2>4, <2>5
<1> QED BY <1>2, <1>3

\* The block b is taken from the start of the i-th free block.
Shrunk(free, i, size) ==
  IF free[i].size = size THEN RemoveAt(free, i)
  ELSE [free EXCEPT ![i] = [offset |-> @.offset + size, size |-> @.size - size]]

\* ggml_dyn_tallocr_alloc's split: b is not free any more, everything else is as it was.
LEMMA ShrunkFacts ==
  ASSUME NEW free, FreeList(free), NEW i \in DOMAIN free, NEW size \in Nat, free[i].size >= size
  PROVE  LET b == [offset |-> free[i].offset, size |-> size]
         IN /\ FreeList(Shrunk(free, i, size))
            /\ b \in Block /\ End(b) <= Room
            /\ \A a \in Nat : In(a, b) => IsFree(free, a)
            /\ \A a \in Nat : IsFree(Shrunk(free, i, size), a) <=> IsFree(free, a) /\ ~In(a, b)
            /\ \A m \in Nat : Rest(free, m) /\ m + size < Room => Rest(Shrunk(free, i, size), m + size)
<1> DEFINE b == [offset |-> free[i].offset, size |-> size]
           left == [offset |-> free[i].offset + size, size |-> free[i].size - size]
           new == Shrunk(free, i, size)
<1>1. /\ free \in Seq(Block) /\ Len(free) \in Nat /\ DOMAIN free = 1 .. Len(free) /\ Room \in Nat
      /\ \A j \in 1 .. Len(free) : free[j] \in Block /\ free[j].offset \in Nat /\ free[j].size \in Nat
                                   /\ free[j].offset + free[j].size <= Room
  BY RoomFacts, BlockFacts DEF FreeList, End
<1>2. b \in Block /\ left \in Block /\ End(b) <= Room /\ b.offset + b.size <= Room
  BY <1>1 DEF Block, End
<1>3. \A a \in Nat : In(a, free[i]) <=> (In(a, b) \/ In(a, left))
  BY SMTT(40), <1>1 DEF In
<1>4. \A a \in Nat : ~(In(a, b) /\ In(a, left))
  BY <1>1 DEF In
<1>5. \A a \in Nat : In(a, b) => IsFree(free, a)
  BY <1>1, <1>3 DEF IsFree
<1>6. \A j, k \in 1 .. Len(free) : j # k => \A a \in Nat : ~(In(a, free[j]) /\ In(a, free[k]))
  BY <1>1 DEF FreeList, Separate, Disjoint
<1>7. CASE free[i].size = size
  <2>1. /\ new \in Seq(Block) /\ Len(new) = Len(free) - 1 /\ DOMAIN new = 1 .. Len(free) - 1
        /\ \A j \in 1 .. Len(free) - 1 : new[j] = IF j < i THEN free[j] ELSE free[j + 1]
    <3>1. new = RemoveAt(free, i)
      BY <1>7 DEF Shrunk
    <3>2. /\ new \in Seq(Block) /\ Len(new) = Len(free) - 1
          /\ \A j \in 1 .. Len(free) - 1 : new[j] = IF j < i THEN free[j] ELSE free[j + 1]
      BY ZenonT(40), <1>1, <3>1, Removed
    <3> QED BY <3>2, BlockFacts
  <2> HIDE DEF new
  <2>2. \A a \in Nat : ~In(a, left)
    BY <1>1, <1>7 DEF In
  <2>3. \A a \in Nat : IsFree(new, a) <=> IsFree(free, a) /\ ~In(a, b)
    <3>1. ASSUME NEW a \in Nat, IsFree(new, a) PROVE IsFree(free, a) /\ ~In(a, b)
      <4>1. PICK j \in 1 .. Len(free) - 1 : In(a, new[j])
        BY <2>1, <3>1 DEF IsFree
      <4>2. PICK k \in 1 .. Len(free) : k # i /\ new[j] = free[k]
        BY <1>1, <2>1
      <4> QED BY <1>1, <1>3, <1>6, <4>1, <4>2 DEF IsFree
    <3>2. ASSUME NEW a \in Nat, IsFree(free, a), ~In(a, b) PROVE IsFree(new, a)
      <4>1. PICK k \in 1 .. Len(free) : In(a, free[k])
        BY <1>1, <3>2 DEF IsFree
      <4>2. k # i
        BY <1>3, <2>2, <3>2, <4>1
      <4>3. PICK j \in 1 .. Len(free) - 1 : new[j] = free[k]
        <5>1. CASE k < i
          BY <1>1, <2>1, <5>1
        <5>2. CASE k > i
          <6>1. k - 1 \in 1 .. Len(free) - 1 /\ ~(k - 1 < i) /\ (k - 1) + 1 = k
            BY <1>1, <5>2
          <6> QED BY <2>1, <6>1
        <5> QED BY <1>1, <4>2, <5>1, <5>2
      <4> QED BY <2>1, <4>1, <4>3 DEF IsFree
    <3> QED BY <3>1, <3>2
  <2>4. Separate(new)
    <3> SUFFICES ASSUME NEW j \in 1 .. Len(free) - 1, NEW k \in 1 .. Len(free) - 1, j # k,
                        NEW a \in Nat
                 PROVE  ~(In(a, new[j]) /\ In(a, new[k]))
      BY <2>1 DEF Separate, Disjoint
    <3> DEFINE at(x) == IF x < i THEN x ELSE x + 1
    <3>1. at(j) \in 1 .. Len(free) /\ at(k) \in 1 .. Len(free) /\ at(j) # at(k)
      BY <1>1
    <3>2. new[j] = free[at(j)] /\ new[k] = free[at(k)]
      BY <2>1
    <3> QED BY <1>6, <3>1, <3>2
  <2>5. \A j \in DOMAIN new : End(new[j]) <= Room
    BY SMTT(40), <1>1, <2>1 DEF End
  <2>6. \A m \in Nat : Rest(free, m) /\ m + size < Room => Rest(new, m + size)
    <3> SUFFICES ASSUME NEW m \in Nat, Rest(free, m), m + size < Room PROVE Rest(new, m + size)
      OBVIOUS
    <3>1. PICK k \in 1 .. Len(free) : End(free[k]) = Room /\ free[k].offset <= m
      BY <1>1 DEF Rest
    <3>2. k # i
      BY <1>1, <1>7, <3>1 DEF End
    <3>3. PICK j \in 1 .. Len(free) - 1 : new[j] = free[k]
      <5>1. CASE k < i
        BY <1>1, <2>1, <5>1
      <5>2. CASE k > i
        <6>1. k - 1 \in 1 .. Len(free) - 1 /\ ~(k - 1 < i) /\ (k - 1) + 1 = k
          BY <1>1, <5>2
        <6> QED BY <2>1, <6>1
      <5> QED BY <1>1, <3>2, <5>1, <5>2
    <3>4. j \in DOMAIN new /\ End(new[j]) = Room /\ new[j].offset <= m + size
      BY <1>1, <2>1, <3>1, <3>3
    <3> QED BY <3>4 DEF Rest
  <2>7. FreeList(new)
    BY <2>1, <2>4, <2>5 DEF FreeList
  <2> QED BY <1>2, <1>5, <2>3, <2>6, <2>7 DEF new
<1>8. CASE free[i].size # size
  <2>1. /\ new \in Seq(Block) /\ DOMAIN new = 1 .. Len(free)
        /\ \A j \in 1 .. Len(free) : new[j] = IF j = i THEN left ELSE free[j]
    BY <1>1, <1>2, <1>8 DEF Shrunk
  <2> HIDE DEF new, left
  <2>2. \A a \in Nat : IsFree(new, a) <=> IsFree(free, a) /\ ~In(a, b)
    <3>1. ASSUME NEW a \in Nat, NEW j \in 1 .. Len(free), In(a, new[j]) PROVE IsFree(free, a) /\ ~In(a, b)
      BY <1>1, <1>3, <1>4, <1>6, <2>1, <3>1 DEF IsFree
    <3>2. ASSUME NEW a \in Nat, NEW j \in 1 .. Len(free), In(a, free[j]), ~In(a, b) PROVE IsFree(new, a)
      BY <1>1, <1>3, <2>1, <3>2 DEF IsFree
    <3> QED BY <1>1, <2>1, <3>1, <3>2 DEF IsFree
  <2>3. Separate(new)
    BY <1>1, <1>3, <1>6, <2>1 DEF Separate, Disjoint
  <2>4. \A j \in DOMAIN new : End(new[j]) <= Room
    BY <1>1, <2>1 DEF End, left
  <2>5. \A m \in Nat : Rest(free, m) /\ m + size < Room => Rest(new, m + size)
    <3> SUFFICES ASSUME NEW m \in Nat, Rest(free, m), m + size < Room PROVE Rest(new, m + size)
      OBVIOUS
    <3>1. PICK k \in 1 .. Len(free) : End(free[k]) = Room /\ free[k].offset <= m
      BY <1>1 DEF Rest
    <3>2. End(new[k]) = Room /\ new[k].offset <= m + size
      BY SMTT(40), <1>1, <2>1, <3>1 DEF End, left
    <3> QED BY <2>1, <3>2 DEF Rest
  <2>6. FreeList(new)
    BY <2>1, <2>3, <2>4 DEF FreeList
  <2> QED BY <1>2, <1>5, <2>2, <2>5, <2>6 DEF new
<1> QED BY <1>7, <1>8

\* The list new has what free has, and the block b.
Freed(free, new, b) ==
  /\ FreeList(new)
  /\ \A a \in Nat : IsFree(new, a) <=> IsFree(free, a) \/ In(a, b)
  /\ \A m \in Nat : Rest(free, m) => Rest(new, m)

Nothing == [offset |-> 0, size |-> 0]

\* The facts of a free list that arithmetic needs.
LEMMA ListFacts ==
  ASSUME NEW free, FreeList(free)
  PROVE  /\ free \in Seq(Block) /\ Len(free) \in Nat /\ DOMAIN free = 1 .. Len(free) /\ Room \in Nat
         /\ \A j \in 1 .. Len(free) :
              /\ free[j] \in Block /\ free[j].offset \in Nat /\ free[j].size \in Nat
              /\ free[j] = [offset |-> free[j].offset, size |-> free[j].size]
              /\ End(free[j]) = free[j].offset + free[j].size /\ free[j].offset + free[j].size <= Room
         /\ \A j, k \in 1 .. Len(free) : j # k => \A a \in Nat : ~(In(a, free[j]) /\ In(a, free[k]))
BY RoomFacts, BlockFacts DEF FreeList, Separate, Disjoint, End

\* A free block grows by the block b that is freed next to it.
LEMMA Grown ==
  ASSUME NEW free, FreeList(free), NEW i \in DOMAIN free,
         NEW b \in Block, End(b) <= Room, \A a \in Nat : In(a, b) => ~IsFree(free, a),
         NEW c \in Block, c.size = free[i].size + b.size,
         \/ c.offset = free[i].offset /\ End(free[i]) = b.offset
         \/ c.offset = b.offset /\ End(b) = free[i].offset
  PROVE  Freed(free, [free EXCEPT ![i] = c], b)
<1> DEFINE new == [free EXCEPT ![i] = c]
<1>1. /\ free \in Seq(Block) /\ Len(free) \in Nat /\ DOMAIN free = 1 .. Len(free) /\ Room \in Nat
      /\ \A j \in 1 .. Len(free) :
           /\ free[j] \in Block /\ free[j].offset \in Nat /\ free[j].size \in Nat
           /\ End(free[j]) = free[j].offset + free[j].size /\ free[j].offset + free[j].size <= Room
      /\ \A j, k \in 1 .. Len(free) : j # k => \A a \in Nat : ~(In(a, free[j]) /\ In(a, free[k]))
  BY ListFacts
<1>2. /\ b.offset \in Nat /\ b.size \in Nat /\ c.offset \in Nat /\ c.size \in Nat
      /\ End(b) = b.offset + b.size /\ End(c) = c.offset + c.size
  BY DEF Block, End
<1>3. /\ \A a \in Nat : In(a, c) <=> In(a, free[i]) \/ In(a, b)
      /\ End(c) <= Room /\ (End(free[i]) = Room => End(c) = Room) /\ c.offset <= free[i].offset
  <2> DEFINE o == free[i].offset
             z == free[i].size
  <2>1. o \in Nat /\ z \in Nat /\ End(free[i]) = o + z /\ o + z <= Room
    BY <1>1
  <2>2. \A a \in Nat : In(a, free[i]) <=> o <= a /\ a < o + z
    BY DEF In
  <2>3. c.size = z + b.size
    OBVIOUS
  <2>4. CASE c.offset = o /\ o + z = b.offset
    <3> HIDE DEF o, z
    <3>1. \A a \in Nat : In(a, c) <=> In(a, free[i]) \/ In(a, b)
      BY <1>2, <2>1, <2>2, <2>3, <2>4 DEF In
    <3>2. b.offset + b.size <= Room /\ Room \in Nat
      BY <1>1, <1>2
    <3>3. End(c) = b.offset + b.size /\ End(free[i]) = b.offset /\ c.offset = o
      BY <1>2, <2>1, <2>3, <2>4
    <3>4. End(c) <= Room /\ (End(free[i]) = Room => End(c) = Room)
      BY <1>2, <3>2, <3>3
    <3>5. c.offset <= o
      BY <2>1, <3>3
    <3> QED BY <3>1, <3>4, <3>5 DEF o
  <2>5. CASE c.offset = b.offset /\ b.offset + b.size = o
    <3> HIDE DEF o, z
    <3>1. \A a \in Nat : In(a, c) <=> In(a, free[i]) \/ In(a, b)
      BY <1>2, <2>1, <2>2, <2>3, <2>5 DEF In
    <3> QED BY SMTT(40), <1>1, <1>2, <2>1, <2>3, <2>5, <3>1 DEF o
  <2> QED BY <1>2, <2>1, <2>4, <2>5
<1>4. End(c) <= Room /\ (End(free[i]) = Room => End(c) = Room) /\ c.offset <= free[i].offset
  BY <1>3
<1>5. new \in Seq(Block) /\ DOMAIN new = 1 .. Len(free)
      /\ \A j \in 1 .. Len(free) : new[j] = IF j = i THEN c ELSE free[j]
  BY <1>1
<1> HIDE DEF new
<1>6. \A a \in Nat : IsFree(new, a) <=> IsFree(free, a) \/ In(a, b)
  <2>1. ASSUME NEW a \in Nat, NEW j \in 1 .. Len(free), In(a, new[j]) PROVE IsFree(free, a) \/ In(a, b)
    BY <1>1, <1>3, <1>5, <2>1 DEF IsFree
  <2>2. ASSUME NEW a \in Nat, NEW j \in 1 .. Len(free), In(a, free[j]) PROVE IsFree(new, a)
    BY <1>1, <1>3, <1>5, <2>2 DEF IsFree
  <2>3. ASSUME NEW a \in Nat, In(a, b) PROVE IsFree(new, a)
    BY <1>1, <1>3, <1>5, <2>3 DEF IsFree
  <2> QED BY <1>1, <1>5, <2>1, <2>2, <2>3 DEF IsFree
<1>7. Separate(new)
  <2> SUFFICES ASSUME NEW j \in 1 .. Len(free), NEW k \in 1 .. Len(free), j # k, NEW a \in Nat
               PROVE  ~(In(a, new[j]) /\ In(a, new[k]))
    BY <1>5 DEF Separate, Disjoint
  <2>1. In(a, b) => ~In(a, free[j]) /\ ~In(a, free[k])
    BY <1>1 DEF IsFree
  <2> QED BY <1>1, <1>3, <1>5, <2>1
<1>8. \A j \in DOMAIN new : End(new[j]) <= Room
  BY <1>1, <1>4, <1>5
<1>9. \A m \in Nat : Rest(free, m) => Rest(new, m)
  <2> SUFFICES ASSUME NEW m \in Nat, Rest(free, m) PROVE Rest(new, m)
    OBVIOUS
  <2>1. PICK j \in 1 .. Len(free) : End(free[j]) = Room /\ free[j].offset <= m
    BY <1>1 DEF Rest
  <2>2. End(new[j]) = Room /\ new[j].offset <= m
    <3>1. CASE j = i
      BY <1>1, <1>2, <1>4, <1>5, <2>1, <3>1
    <3>2. CASE j # i
      BY <1>5, <2>1, <3>2
    <3> QED BY <3>1, <3>2
  <2> QED BY <1>5, <2>2 DEF Rest
<1> QED BY <1>5, <1>6, <1>7, <1>8, <1>9 DEF Freed, FreeList, new

\* Merging two blocks that touch changes nothing that is free.
LEMMA MergedFacts ==
  ASSUME NEW free, FreeList(free), NEW i \in DOMAIN free
  PROVE  Freed(free, Merged(free, i), Nothing)
<1>0. /\ free \in Seq(Block) /\ Len(free) \in Nat /\ DOMAIN free = 1 .. Len(free) /\ Room \in Nat
      /\ \A j \in 1 .. Len(free) :
           /\ free[j] \in Block /\ free[j].offset \in Nat /\ free[j].size \in Nat
           /\ free[j] = [offset |-> free[j].offset, size |-> free[j].size]
           /\ End(free[j]) = free[j].offset + free[j].size /\ free[j].offset + free[j].size <= Room
      /\ \A j, k \in 1 .. Len(free) : j # k => \A a \in Nat : ~(In(a, free[j]) /\ In(a, free[k]))
  BY ListFacts
<1>a. \A a \in Nat : ~In(a, Nothing)
  BY DEF In, Nothing
<1>b. CASE ~(i < Len(free) /\ End(free[i]) = free[i + 1].offset)
  BY <1>a, <1>b DEF Merged, Freed
<1>c. CASE i < Len(free) /\ End(free[i]) = free[i + 1].offset
  <2> DEFINE c == [offset |-> free[i].offset, size |-> free[i].size + free[i + 1].size]
             g == [free EXCEPT ![i] = c]
             new == Merged(free, i)
  <2>1. i \in 1 .. Len(free) /\ i + 1 \in 1 .. Len(free)
    BY <1>0, <1>c
  <2>2. c \in Block /\ End(c) = End(free[i + 1]) /\ c.offset = free[i].offset
    BY SMTT(40), <1>0, <1>c, <2>1 DEF Block, End
  <2>3. \A a \in Nat : In(a, c) <=> In(a, free[i]) \/ In(a, free[i + 1])
    BY SMTT(40), <1>0, <1>c, <2>1 DEF In
  <2>4. g \in Seq(Block) /\ Len(g) = Len(free) /\ DOMAIN g = 1 .. Len(free)
        /\ \A j \in 1 .. Len(free) : g[j] = IF j = i THEN c ELSE free[j]
    BY <1>0, <2>2
  <2>5. [free EXCEPT ![i].size = @ + free[i + 1].size] = g
    <3>1. free[i] = [offset |-> free[i].offset, size |-> free[i].size]
      BY <1>0, <2>1
    <3>2. [free[i] EXCEPT !.size = @ + free[i + 1].size] = c
      BY <3>1
    <3> QED BY <3>2
  <2>6. new = RemoveAt(g, i + 1)
    BY <1>c, <2>5 DEF Merged
  <2> HIDE DEF c, g, new
  <2>7. /\ new \in Seq(Block) /\ Len(new) = Len(free) - 1 /\ DOMAIN new = 1 .. Len(free) - 1
        /\ \A j \in 1 .. Len(free) - 1 : new[j] = IF j < i + 1 THEN g[j] ELSE g[j + 1]
    <3>1. i + 1 \in 1 .. Len(g)
      BY SMTT(40), <2>1, <2>4
    <3>2. /\ new \in Seq(Block) /\ Len(new) = Len(g) - 1
          /\ \A j \in 1 .. Len(g) - 1 : new[j] = IF j < i + 1 THEN g[j] ELSE g[j + 1]
      BY <2>4, <2>6, <3>1, Removed
    <3> QED BY <2>4, <3>2, BlockFacts
  <2> DEFINE at(j) == IF j <= i THEN j ELSE j + 1
  <2>8. \A j \in 1 .. Len(free) - 1 : /\ at(j) \in 1 .. Len(free) /\ at(j) # i + 1
                                      /\ new[j] = IF j = i THEN c ELSE free[at(j)]
                                      /\ (at(j) = i <=> j = i)
    <3> TAKE j \in 1 .. Len(free) - 1
    <3>1. CASE j < i
      <4>1. j \in 1 .. Len(free) /\ at(j) = j /\ j < i + 1 /\ j # i /\ j # i + 1
        BY SMTT(40), <1>0, <2>1, <3>1
      <4> QED BY <2>4, <2>7, <4>1
    <3>2. CASE j = i
      BY <1>0, <2>1, <2>4, <2>7, <3>2
    <3>3. CASE j > i
      <4>1. j + 1 \in 1 .. Len(free) /\ at(j) = j + 1 /\ ~(j < i + 1)
        BY SMTT(40), <1>0, <2>1, <3>3
      <4> QED BY SMTT(40), <1>0, <2>1, <2>4, <2>7, <3>3, <4>1
    <3> QED BY <2>1, <3>1, <3>2, <3>3
  <2>9. \A k \in 1 .. Len(free) : k # i + 1 => \E j \in 1 .. Len(free) - 1 : k = at(j)
    <3>1. SUFFICES ASSUME NEW k \in 1 .. Len(free), k # i + 1 PROVE \E j \in 1 .. Len(free) - 1 : k = at(j)
      OBVIOUS
    <3>2. CASE k <= i
      <4>1. k \in 1 .. Len(free) - 1 /\ at(k) = k
        BY <1>0, <2>1, <3>2
      <4> QED BY <4>1
    <3>3. CASE ~(k <= i)
      <4>1. k - 1 \in 1 .. Len(free) - 1 /\ ~(k - 1 <= i) /\ (k - 1) + 1 = k
        BY <1>0, <2>1, <3>1, <3>3
      <4> QED BY <4>1
    <3> QED BY <3>2, <3>3
  <2> HIDE DEF at
  <2>10. \A a \in Nat : IsFree(new, a) <=> IsFree(free, a)
    <3>1. ASSUME NEW a \in Nat, NEW j \in 1 .. Len(free) - 1, In(a, new[j]) PROVE IsFree(free, a)
      BY <1>0, <2>1, <2>3, <2>8, <3>1 DEF IsFree
    <3>2. ASSUME NEW a \in Nat, NEW k \in 1 .. Len(free), In(a, free[k]) PROVE IsFree(new, a)
      <4>1. CASE k \in {i, i + 1}
        <5>1. i \in 1 .. Len(free) - 1 /\ new[i] = c
          BY SMTT(40), <1>0, <2>1, <2>8
        <5> QED BY <2>3, <2>7, <3>2, <4>1, <5>1 DEF IsFree
      <4>2. CASE k \notin {i, i + 1}
        <5>1. PICK j \in 1 .. Len(free) - 1 : k = at(j)
          BY <2>9, <4>2
        <5>2. new[j] = free[k]
          BY <2>8, <4>2, <5>1
        <5> QED BY <2>7, <3>2, <5>2 DEF IsFree
      <4> QED BY <4>1, <4>2
    <3> QED BY <1>0, <2>7, <3>1, <3>2 DEF IsFree
  <2>11. Separate(new)
    <3> SUFFICES ASSUME NEW j \in 1 .. Len(free) - 1, NEW k \in 1 .. Len(free) - 1, j # k, NEW a \in Nat
                 PROVE  ~(In(a, new[j]) /\ In(a, new[k]))
      BY <2>7 DEF Separate, Disjoint
    <3>1. at(j) # at(k)
      BY DEF at
    <3>2. CASE j # i /\ k # i
      BY <1>0, <2>8, <3>1, <3>2
    <3>3. CASE j = i
      BY ZenonT(40), <1>0, <2>1, <2>3, <2>8, <3>1, <3>3
    <3>4. CASE k = i
      BY <1>0, <2>1, <2>3, <2>8, <3>1, <3>4
    <3> QED BY <3>2, <3>3, <3>4
  <2>12. \A j \in DOMAIN new : End(new[j]) <= Room
    <3>1. End(c) <= Room /\ \A j \in 1 .. Len(free) : End(free[j]) <= Room
      BY <1>0, <2>1, <2>2
    <3>2. \A j \in 1 .. Len(free) - 1 : End(new[j]) <= Room
      BY <2>8, <3>1
    <3> QED BY <2>7, <3>2
  <2>13. \A m \in Nat : Rest(free, m) => Rest(new, m)
    <3> SUFFICES ASSUME NEW m \in Nat, Rest(free, m) PROVE Rest(new, m)
      OBVIOUS
    <3>1. PICK k \in 1 .. Len(free) : End(free[k]) = Room /\ free[k].offset <= m
      BY <1>0 DEF Rest
    <3>2. CASE k \in {i, i + 1}
      <4>1. i \in 1 .. Len(free) - 1 /\ new[i] = c
        BY SMTT(40), <1>0, <2>1, <2>8
      <4>2. End(c) = Room /\ c.offset <= m
        BY SMTT(40), <1>0, <1>c, <2>1, <2>2, <3>1, <3>2
      <4> QED BY <2>7, <4>1, <4>2 DEF Rest
    <3>3. CASE k \notin {i, i + 1}
      <4>1. PICK j \in 1 .. Len(free) - 1 : k = at(j)
        BY <2>9, <3>3
      <4>2. new[j] = free[k]
        BY <2>8, <3>3, <4>1
      <4> QED BY <2>7, <3>1, <4>2 DEF Rest
    <3> QED BY <3>2, <3>3
  <2>14. FreeList(new)
    BY <2>7, <2>11, <2>12 DEF FreeList
  <2> QED BY <1>a, <2>10, <2>13, <2>14 DEF Freed, new
<1> QED BY <1>b, <1>c

\* A block that touches no other is inserted.
LEMMA InsertedFacts ==
  ASSUME NEW free, FreeList(free), NEW i \in 1 .. Len(free) + 1,
         NEW b \in Block, End(b) <= Room, \A a \in Nat : In(a, b) => ~IsFree(free, a)
  PROVE  Freed(free, InsertAt(free, i, b), b)
<1> DEFINE new == InsertAt(free, i, b)
           at(j) == IF j < i THEN j ELSE j - 1
<1>0. /\ free \in Seq(Block) /\ Len(free) \in Nat /\ DOMAIN free = 1 .. Len(free)
      /\ \A j \in 1 .. Len(free) : End(free[j]) <= Room
      /\ \A j, k \in 1 .. Len(free) : j # k => \A a \in Nat : ~(In(a, free[j]) /\ In(a, free[k]))
  BY ListFacts
<1>1. /\ new \in Seq(Block) /\ Len(new) = Len(free) + 1
      /\ \A j \in 1 .. Len(free) + 1 : new[j] = IF j < i THEN free[j] ELSE IF j = i THEN b ELSE free[j - 1]
  BY SMTT(40), <1>0, Inserted
<1>2. DOMAIN new = 1 .. Len(free) + 1
  BY <1>1, BlockFacts
<1> HIDE DEF new
<1>3. \A j \in 1 .. Len(free) + 1 : j # i => at(j) \in 1 .. Len(free) /\ new[j] = free[at(j)]
  <2> TAKE j \in 1 .. Len(free) + 1
  <2>1. CASE j < i
    BY <1>0, <1>1, <2>1
  <2>2. CASE j > i
    <3>1. j - 1 \in 1 .. Len(free)
      BY <1>0, <2>2
    <3> QED BY <1>0, <1>1, <2>2, <3>1
  <2> QED BY <2>1, <2>2
<1>4. \A k \in 1 .. Len(free) : \E j \in 1 .. Len(free) + 1 : j # i /\ at(j) = k
  <2> TAKE k \in 1 .. Len(free)
  <2>1. CASE k < i
    <3>1. k \in 1 .. Len(free) + 1 /\ at(k) = k /\ k # i
      BY <1>0, <2>1
    <3> QED BY <3>1
  <2>2. CASE ~(k < i)
    <3>1. k + 1 \in 1 .. Len(free) + 1 /\ at(k + 1) = k /\ k + 1 # i
      BY <1>0, <2>2
    <3> QED BY <3>1
  <2> QED BY <2>1, <2>2
<1>5. \A j, k \in 1 .. Len(free) + 1 : j # k /\ j # i /\ k # i => at(j) # at(k)
  BY <1>0
<1> HIDE DEF at
<1>6. new[i] = b
  BY <1>1
<1>7. \A a \in Nat : IsFree(new, a) <=> IsFree(free, a) \/ In(a, b)
  <2>1. ASSUME NEW a \in Nat, NEW j \in 1 .. Len(free) + 1, In(a, new[j]) PROVE IsFree(free, a) \/ In(a, b)
    BY <1>0, <1>3, <1>6, <2>1 DEF IsFree
  <2>2. ASSUME NEW a \in Nat, NEW k \in 1 .. Len(free), In(a, free[k]) PROVE IsFree(new, a)
    BY <1>2, <1>3, <1>4, <2>2 DEF IsFree
  <2>3. ASSUME NEW a \in Nat, In(a, b) PROVE IsFree(new, a)
    BY <1>2, <1>6, <2>3 DEF IsFree
  <2> QED BY <1>0, <1>2, <2>1, <2>2, <2>3 DEF IsFree
<1>8. Separate(new)
  <2> SUFFICES ASSUME NEW j \in 1 .. Len(free) + 1, NEW k \in 1 .. Len(free) + 1, j # k, NEW a \in Nat
               PROVE  ~(In(a, new[j]) /\ In(a, new[k]))
    BY <1>2 DEF Separate, Disjoint
  <2>1. \A l \in 1 .. Len(free) : In(a, b) => ~In(a, free[l])
    BY <1>0 DEF IsFree
  <2>2. CASE j # i /\ k # i
    BY <1>0, <1>3, <1>5, <2>2
  <2>3. CASE j = i \/ k = i
    BY <1>3, <1>6, <2>1, <2>3
  <2> QED BY <2>2, <2>3
<1>9. \A j \in DOMAIN new : End(new[j]) <= Room
  BY <1>0, <1>2, <1>3, <1>6
<1>10. \A m \in Nat : Rest(free, m) => Rest(new, m)
  BY <1>0, <1>2, <1>3, <1>4 DEF Rest
<1>11. FreeList(new)
  BY <1>1, <1>8, <1>9 DEF FreeList
<1> QED BY <1>7, <1>10, <1>11 DEF Freed, new

\* One after the other.
LEMMA FreedTwice ==
  ASSUME NEW f, NEW g, NEW h, NEW b, Freed(f, g, b), Freed(g, h, Nothing)
  PROVE  Freed(f, h, b)
<1>1. \A a \in Nat : ~In(a, Nothing)
  BY DEF In, Nothing
<1> QED BY <1>1 DEF Freed

\* ggml_dyn_tallocr_free_tensor: a block that was not free becomes free.
LEMMA FreeFacts ==
  ASSUME NEW free, FreeList(free),
         NEW b \in Block, End(b) <= Room, \A a \in Nat : In(a, b) => ~IsFree(free, a)
  PROVE  Freed(free, dyn_free(free, b), b)
<1> DEFINE touching == {j \in DOMAIN free : End(free[j]) = b.offset \/ End(b) = free[j].offset}
           i == Min(touching)
<1>0. /\ free \in Seq(Block) /\ Len(free) \in Nat /\ DOMAIN free = 1 .. Len(free)
      /\ \A j \in 1 .. Len(free) : /\ free[j].offset \in Nat /\ free[j].size \in Nat
                                   /\ free[j] = [offset |-> free[j].offset, size |-> free[j].size]
  BY ListFacts
<1>1. b.offset \in Nat /\ b.size \in Nat
  BY DEF Block
<1>2. CASE touching = {}
  <2> DEFINE before == {j \in DOMAIN free : free[j].offset < b.offset}
  <2>1. before \subseteq 1 .. Len(free)
    BY <1>0
  <2>2. Cardinality(before) \in 0 .. Len(free)
    <3>1. IsFiniteSet(1 .. Len(free)) /\ Cardinality(1 .. Len(free)) = Len(free)
      BY SMTT(40), <1>0, FS_Interval
    <3>2. IsFiniteSet(before) /\ Cardinality(before) <= Len(free) /\ Cardinality(before) \in Nat
      BY <2>1, <3>1, FS_Subset, FS_CardinalityType
    <3> QED BY <1>0, <3>2
  <2>3. 1 + Cardinality(before) \in 1 .. Len(free) + 1
    BY <1>0, <2>2
  <2>4. dyn_free(free, b) = InsertAt(free, 1 + Cardinality(before), b)
    BY <1>2 DEF dyn_free
  <2> HIDE DEF before
  <2> QED BY <2>3, <2>4, InsertedFacts
<1>3. CASE touching # {}
  <2>1. touching \subseteq Nat
    BY <1>0
  <2>2. i \in touching
    BY <1>3, <2>1, MinFacts
  <2>3. i \in DOMAIN free /\ i \in 1 .. Len(free)
    BY <1>0, <2>2
  <2>4. CASE End(free[i]) = b.offset
    <3> DEFINE c == [offset |-> free[i].offset, size |-> free[i].size + b.size]
               g == [free EXCEPT ![i] = c]
    <3>1. [free EXCEPT ![i].size = @ + b.size] = g
      <4>1. free[i] = [offset |-> free[i].offset, size |-> free[i].size]
        BY <1>0, <2>3
      <4>2. [free[i] EXCEPT !.size = @ + b.size] = c
        BY <4>1
      <4> QED BY <4>2
    <3>2. c \in Block
      BY <1>0, <1>1, <2>3 DEF Block
    <3>3. Freed(free, g, b)
      BY <2>3, <2>4, <3>2, Grown
    <3>4. dyn_free(free, b) = Merged(g, i)
      BY <1>3, <2>4, <3>1 DEF dyn_free
    <3>5. i \in DOMAIN g /\ FreeList(g)
      BY <2>3, <3>3 DEF Freed
    <3> HIDE DEF g, i
    <3> QED BY <3>3, <3>4, <3>5, MergedFacts, FreedTwice
  <2>5. CASE End(free[i]) # b.offset
    <3> DEFINE c == [offset |-> b.offset, size |-> free[i].size + b.size]
               g == [free EXCEPT ![i] = c]
    <3>1. [free EXCEPT ![i] = [offset |-> b.offset, size |-> @.size + b.size]] = g
      OBVIOUS
    <3>2. c \in Block
      BY SMTT(40), <1>0, <1>1, <2>3 DEF Block
    <3>3. Freed(free, g, b)
      BY <2>2, <2>3, <2>5, <3>2, Grown
    <3>4. dyn_free(free, b) = IF i > 1 THEN Merged(g, i - 1) ELSE g
      BY <1>3, <2>5, <3>1 DEF dyn_free
    <3>5. DOMAIN g = 1 .. Len(free) /\ FreeList(g)
      BY <1>0, <3>3 DEF Freed
    <3>6. i > 1 => i - 1 \in DOMAIN g
      BY <1>0, <2>3, <3>5
    <3> HIDE DEF g, i
    <3> QED BY <3>3, <3>4, <3>5, <3>6, MergedFacts, FreedTwice
  <2> QED BY <2>4, <2>5
<1> QED BY <1>2, <1>3
-----------------------------------------------------------------------------
(***************************************************************************)
(* Lemmas about the graph and the uses of its tensors.                     *)
(***************************************************************************)
\* What a graph is, in terms that the provers take up at once.
LEMMA GraphFacts ==
  ASSUME GraphInv
  PROVE  /\ Len(graph) \in Nat /\ Len(graph) <= NLeafs + NNodes
         /\ Tensors = 1 .. Len(graph) /\ Nodes = NLeafs + 1 .. Len(graph) /\ Nodes \subseteq Tensors
         /\ \A t \in Tensors : graph[t].shape \in {"tokens", "one"} /\ src(t) \in Seq(Nat)
         /\ \A t \in Tensors : Len(src(t)) \in 0 .. 2 /\ DOMAIN src(t) = 1 .. Len(src(t))
         /\ \A t \in Tensors : \A k \in DOMAIN src(t) : src(t)[k] \in Tensors /\ src(t)[k] < t
         /\ \A t \in Tensors : t \notin Nodes => src(t) = <<>> /\ ~is_view(t)
         /\ \A t \in Tensors : Root(t) \in Owning /\ Root(t) <= t
         /\ \A t \in Owning : t \in Tensors /\ Root(t) = t
         /\ \A t \in Tensors : is_view(t) => t \in Nodes /\ Root(t) = graph[t].view_src /\ Root(t) < t
         /\ \A t \in Tensors : is_view(t) => t \notin Owning /\ UsesIn(Sites, Root(t)) # {}
         /\ \A v \in Nodes, t \in Tensors : graph[v].view_src = t => is_view(v)
<1>1. NLeafs \in Nat \ {0} /\ NNodes \in Nat
  BY GraphAssumption
<1>2. /\ Len(graph) \in Nat /\ Tensors = 1 .. Len(graph)
      /\ \A t \in 1 .. Len(graph) : graph[t] \in TensorType
  BY DEF GraphInv, Tensors
<1>3. Len(graph) >= NLeafs /\ Len(graph) <= NLeafs + NNodes
  BY <1>1, <1>2 DEF GraphInv
<1>4. Nodes = NLeafs + 1 .. Len(graph) /\ Nodes \subseteq Tensors
      /\ \A t \in Tensors : t \notin Nodes => t \in 1 .. NLeafs
  BY <1>1, <1>2, <1>3 DEF Nodes
<1>5. \A t \in Tensors : graph[t].shape \in {"tokens", "one"} /\ src(t) \in Seq(Nat) /\ graph[t].view_src \in Nat
  BY <1>2 DEF TensorType, src
<1>6. \A t \in Tensors : t \notin Nodes => src(t) = <<>> /\ ~is_view(t)
  BY <1>4 DEF GraphInv
<1>7. \A t \in Nodes : Parent(t)
  BY DEF GraphInv
<1>8. ASSUME NEW t \in Tensors
      PROVE  /\ Len(src(t)) \in 0 .. 2 /\ DOMAIN src(t) = 1 .. Len(src(t))
             /\ \A k \in DOMAIN src(t) : src(t)[k] \in Tensors /\ src(t)[k] < t
  <2>1. CASE t \in Nodes
    <3>1. Len(src(t)) \in {1, 2} /\ \A k \in DOMAIN src(t) : src(t)[k] \in 1 .. t - 1
      BY <1>7, <2>1 DEF Parent
    <3>2. DOMAIN src(t) = 1 .. Len(src(t))
      BY <1>5
    <3>3. t \in 1 .. Len(graph)
      BY <1>2
    <3> QED BY <1>2, <3>1, <3>2, <3>3
  <2>2. CASE t \notin Nodes
    <3>1. src(t) = <<>>
      BY <1>6, <2>2
    <3> QED BY <3>1
  <2> QED BY <2>1, <2>2
<1>9. ASSUME NEW t \in Tensors, is_view(t)
      PROVE  /\ t \in Nodes /\ Root(t) = graph[t].view_src /\ Root(t) < t /\ Root(t) \in Owning
             /\ UsesIn(Sites, Root(t)) # {}
  <2>1. t \in Nodes
    BY <1>6, <1>9
  <2>2. graph[t].view_src \in 1 .. t - 1 /\ ~is_view(graph[t].view_src) /\ UsesIn(Sites, graph[t].view_src) # {}
    BY <1>7, <1>9, <2>1 DEF Parent
  <2>3. Root(t) = graph[t].view_src
    BY <1>9 DEF Root
  <2>4. t \in 1 .. Len(graph)
    BY <1>2
  <2> QED BY <1>2, <2>1, <2>2, <2>3, <2>4 DEF Owning
<1>10. \A t \in Owning : t \in Tensors /\ Root(t) = t
  BY DEF Owning, Root
<1>11. \A t \in Tensors : Root(t) \in Owning /\ Root(t) <= t
  BY <1>2, <1>9, <1>10 DEF Owning
<1>12. \A v \in Nodes, t \in Tensors : graph[v].view_src = t => is_view(v)
  BY <1>2 DEF is_view
<1> QED BY <1>2, <1>3, <1>4, <1>5, <1>6, <1>8, <1>9, <1>10, <1>11, <1>12 DEF Owning

\* The size of a tensor.
LEMMA SizeFacts ==
  ASSUME n \in 0 .. MaxN, NEW t
  PROVE  Size(t) \in Nat /\ Size(t) <= MaxN + 1
BY GraphAssumption DEF Size

\* There are finitely many uses and views, and fewer when fewer uses are to come.
LEMMA UsesFacts ==
  ASSUME GraphInv
  PROVE  /\ IsFiniteSet(Sites) /\ IsFiniteSet(Nodes)
         /\ \A U \in SUBSET Sites, t \in Tensors :
              /\ IsFiniteSet(UsesIn(U, t)) /\ IsFiniteSet(ViewsIn(U, t))
              /\ Cardinality(UsesIn(U, t)) \in Nat /\ Cardinality(ViewsIn(U, t)) \in Nat
              /\ Cardinality(UsesIn(U, t)) = 0 <=> UsesIn(U, t) = {}
              /\ Cardinality(ViewsIn(U, t)) = 0 <=> ViewsIn(U, t) = {}
<1>1. IsFiniteSet(Nodes)
  BY GraphFacts, FS_Interval, GraphAssumption
<1>2. IsFiniteSet(1 .. 2)
  <2>1. IsFiniteSet({1} \cup {2})
    BY FS_Singleton, FS_Union
  <2>2. 1 .. 2 = {1} \cup {2}
    OBVIOUS
  <2> QED BY <2>1, <2>2
<1>3. IsFiniteSet(Nodes \X (1 .. 2))
  BY <1>1, <1>2, FS_Product
<1>4. IsFiniteSet(Sites)
  BY <1>3, FS_Subset DEF Sites
<1>5. ASSUME NEW U \in SUBSET Sites, NEW t \in Tensors
      PROVE  IsFiniteSet(UsesIn(U, t)) /\ IsFiniteSet(ViewsIn(U, t))
  <2>1. UsesIn(U, t) \subseteq Sites /\ ViewsIn(U, t) \subseteq Nodes
    BY DEF UsesIn, ViewsIn
  <2> QED BY <1>1, <1>4, <2>1, FS_Subset
<1> QED BY <1>1, <1>4, <1>5, FS_CardinalityType, FS_EmptySet

\* What is past stays past.
LEMMA PastMonotone ==
  ASSUME NEW U, NEW W \in SUBSET U, NEW t
  PROVE  /\ UsesIn(W, t) \subseteq UsesIn(U, t) /\ ViewsIn(W, t) \subseteq ViewsIn(U, t)
         /\ Past(U, t) => Past(W, t)
<1>1. \A v : UsesIn(W, v) \subseteq UsesIn(U, v)
  BY DEF UsesIn
<1>2. ViewsIn(W, t) \subseteq ViewsIn(U, t)
  BY <1>1 DEF ViewsIn
<1> QED BY <1>1, <1>2 DEF Past

\* The uses from node k on are those of k and those after it.
LEMMA FromFacts ==
  ASSUME GraphInv, NEW k \in 0 .. Len(graph) + 1
  PROVE  /\ From(k) \subseteq Sites /\ From(k + 1) \subseteq From(k)
         /\ \A j \in Int : j >= k => From(j) \subseteq From(k)
         /\ k <= 1 => From(k) = Sites
         /\ \A x \in From(k) : x[1] \in Nodes /\ x[1] >= k /\ x[2] \in DOMAIN src(x[1])
         /\ From(k) \ From(k + 1) = {x \in Sites : x[1] = k}
<1>1. \A x \in Sites : x[1] \in Nodes /\ x[1] \in Int /\ x[1] >= 1 /\ x[2] \in DOMAIN src(x[1])
  BY GraphFacts, GraphAssumption DEF Sites
<1>2. k \in Int
  BY GraphFacts
<1> QED BY <1>1, <1>2 DEF From

\* What is past before node k is past after it.
LEMMA PastNext ==
  ASSUME GraphInv, NEW k \in 0 .. Len(graph) + 1, NEW t
  PROVE  /\ Past(From(k), t) => Past(From(k + 1), t)
         /\ UsesIn(From(k), t) \subseteq UsesIn(Sites, t)
         /\ ViewsIn(From(k + 1), t) \subseteq ViewsIn(From(k), t)
<1>1. From(k) \in SUBSET Sites /\ From(k + 1) \in SUBSET From(k)
  BY FromFacts
<1> HIDE DEF GraphInv
<1> QED BY <1>1, PastMonotone

\* The parents of a node have a use there.
LEMMA ParentUsed ==
  ASSUME GraphInv, NEW k \in Tensors, NEW i \in DOMAIN src(k)
  PROVE  <<k, i>> \in Sites /\ <<k, i>> \in From(k) /\ <<k, i>> \in UsesIn(From(k), src(k)[i])
<1>1. k \in Nodes /\ i \in 1 .. 2 /\ k \in Int
  <2>1. Len(src(k)) \in 0 .. 2 /\ i \in 1 .. Len(src(k)) /\ k \in 1 .. Len(graph)
    BY GraphFacts
  <2>2. src(k) # <<>>
    BY <2>1
  <2> QED BY <2>1, <2>2, GraphFacts
<1> QED BY <1>1 DEF Sites, From, UsesIn
-----------------------------------------------------------------------------
(***************************************************************************)
(* The walk over the graph that measures it.                               *)
(***************************************************************************)
LEMMA AllocFacts ==
  ASSUME NEW G, AllocType(G)
  PROVE  /\ G = [hash |-> G.hash, free |-> G.free, max_size |-> G.max_size]
         /\ FreeList(G.free) /\ G.max_size \in Nat /\ G.max_size <= Room /\ Room \in Nat
         /\ DOMAIN G.hash = Tensors
         /\ \A t \in Tensors :
              LET h == G.hash[t]
              IN /\ h \in HashType
                 /\ h.n_children \in Int /\ h.n_views \in Int /\ h.offset \in Nat /\ h.allocated \in BOOLEAN
                 /\ h = [n_children |-> h.n_children, n_views |-> h.n_views,
                         offset |-> h.offset, allocated |-> h.allocated]
<1>1. /\ G = [hash |-> G.hash, free |-> G.free, max_size |-> G.max_size]
      /\ FreeList(G.free) /\ G.max_size \in Nat /\ G.max_size <= Room /\ Room \in Nat
      /\ DOMAIN G.hash = Tensors /\ \A t \in Tensors : G.hash[t] \in HashType
  BY RoomFacts DEF AllocType
<1>2. \A h \in HashType :
        /\ h.n_children \in Int /\ h.n_views \in Int /\ h.offset \in Nat /\ h.allocated \in BOOLEAN
        /\ h = [n_children |-> h.n_children, n_views |-> h.n_views,
                offset |-> h.offset, allocated |-> h.allocated]
  BY DEF HashType
<1> QED BY <1>1, <1>2

\* ggml_dyn_tallocr_alloc gives t a block that was free.
LEMMA DynAllocFacts ==
  ASSUME n \in 0 .. MaxN, NEW G, AllocType(G), NEW t \in Tensors,
         NEW m \in Nat, Rest(G.free, m), m + MaxN + 1 < Room
  PROVE  LET H == dyn_alloc(G, t)
         IN /\ AllocType(H)
            /\ H.hash = [G.hash EXCEPT ![t].offset = H.hash[t].offset] /\ H.hash[t].offset \in Nat
            /\ End(Place(H, t)) <= H.max_size /\ G.max_size <= H.max_size
            /\ \A a \in Nat : In(a, Place(H, t)) => IsFree(G.free, a)
            /\ \A a \in Nat : IsFree(H.free, a) <=> IsFree(G.free, a) /\ ~In(a, Place(H, t))
            /\ Rest(H.free, m + MaxN + 1)
<1> DEFINE free == G.free
           size == Size(t)
           i    == BestFit(free, size)
           b    == [offset |-> free[i].offset, size |-> size]
           H    == dyn_alloc(G, t)
<1>1. /\ MaxN \in Nat /\ size \in Nat /\ size <= MaxN + 1 /\ FreeList(free) /\ Room \in Nat
      /\ G.max_size \in Nat /\ G.max_size <= Room
  BY SizeFacts, AllocFacts, GraphAssumption
<1>2. /\ free \in Seq(Block) /\ DOMAIN free = 1 .. Len(free)
      /\ \A j \in 1 .. Len(free) : free[j].offset \in Nat /\ free[j].size \in Nat /\ End(free[j]) = free[j].offset + free[j].size
  BY <1>1, ListFacts
<1>3. PICK k \in DOMAIN free : End(free[k]) = Room /\ free[k].offset <= m
  BY DEF Rest
<1>4. free[k].size >= size
  BY SMTT(40), <1>1, <1>2, <1>3
<1> HIDE DEF size
<1>5. i \in DOMAIN free /\ free[i].size >= size
  BY <1>1, <1>2, <1>3, <1>4, BestFitFacts
<1>6. /\ FreeList(Shrunk(free, i, size))
      /\ b \in Block /\ End(b) <= Room
      /\ \A a \in Nat : In(a, b) => IsFree(free, a)
      /\ \A a \in Nat : IsFree(Shrunk(free, i, size), a) <=> IsFree(free, a) /\ ~In(a, b)
      /\ \A l \in Nat : Rest(free, l) /\ l + size < Room => Rest(Shrunk(free, i, size), l + size)
  <2> HIDE DEF i, free
  <2> QED BY <1>1, <1>5, ShrunkFacts
<1>7. H = [hash     |-> [G.hash EXCEPT ![t].offset = b.offset],
           free     |-> Shrunk(free, i, size),
           max_size |-> Max({G.max_size, b.offset + size})]
  <2>1. free[i].size - size = 0 <=> free[i].size = size
    BY <1>1, <1>2, <1>5
  <2>2. G = [hash |-> G.hash, free |-> G.free, max_size |-> G.max_size]
    BY AllocFacts
  <2> HIDE DEF i
  <2>3. H = [G EXCEPT !.free = Shrunk(free, i, size), !.max_size = Max({@, b.offset + size}),
                      !.hash[t].offset = b.offset]
    BY <2>1 DEF dyn_alloc, Shrunk, size, i
  <2> HIDE DEF free, H
  <2> QED BY <2>2, <2>3
<1> HIDE DEF H, i, free
<1>8. b.offset \in Nat /\ b.size = size /\ b.offset + size <= Room
  BY <1>6 DEF Block, End
<1>9. Max({G.max_size, b.offset + size}) \in {G.max_size, b.offset + size}
      /\ Max({G.max_size, b.offset + size}) >= G.max_size
      /\ Max({G.max_size, b.offset + size}) >= b.offset + size
  <2>1. {G.max_size, b.offset + size} \in SUBSET (0 .. Room)
    BY <1>1, <1>8
  <2> QED BY <1>1, <2>1, MaxFacts
<1> HIDE DEF b
<1>10. H.hash[t].offset = b.offset /\ H.hash = [G.hash EXCEPT ![t].offset = b.offset]
  BY <1>7, AllocFacts
<1>11. Place(H, t) = b
  BY <1>10 DEF Place, b, size
<1>12. AllocType(H)
  <2>1. \A h \in HashType, o \in Nat : [h EXCEPT !.offset = o] \in HashType
    BY DEF HashType
  <2>2. H.hash \in [Tensors -> HashType]
    BY <1>8, <1>10, <2>1, AllocFacts DEF AllocType
  <2>3. H.max_size \in 0 .. Room
    BY <1>1, <1>7, <1>8, <1>9
  <2> QED BY <1>6, <1>7, <2>2, <2>3 DEF AllocType
<1>13. Rest(H.free, m + size)
  BY <1>1, <1>6, <1>7 DEF free
<1>14. Rest(H.free, m + MaxN + 1)
  <2>1. PICK l \in DOMAIN H.free : End(H.free[l]) = Room /\ H.free[l].offset <= m + size
    BY <1>13 DEF Rest
  <2>2. H.free[l].offset \in Nat
    BY <1>12, AllocFacts, ListFacts
  <2> QED BY <1>1, <2>1, <2>2 DEF Rest
<1>15. End(Place(H, t)) <= H.max_size /\ G.max_size <= H.max_size
  BY <1>1, <1>7, <1>8, <1>9, <1>11 DEF End
<1>16. \A a \in Nat : In(a, Place(H, t)) => IsFree(G.free, a)
  BY <1>6, <1>11 DEF free
<1>17. \A a \in Nat : IsFree(H.free, a) <=> IsFree(G.free, a) /\ ~In(a, Place(H, t))
  BY <1>6, <1>7, <1>11 DEF free
<1> QED BY <1>8, <1>10, <1>12, <1>14, <1>15, <1>16, <1>17 DEF H

\* The parents of the next node have their memory already, or need none.
LEMMA ParentsAllocated ==
  ASSUME GraphInv, NEW k \in Tensors, NEW G, Walk(G, From(k), k)
  PROVE  /\ \A i \in DOMAIN src(k) : is_view(src(k)[i]) \/ G.hash[src(k)[i]].allocated
         /\ ForParents(allocate_node, G, k) = G
<1>1. ASSUME NEW i \in DOMAIN src(k)
      PROVE  is_view(src(k)[i]) \/ G.hash[src(k)[i]].allocated
  <2>1. src(k)[i] \in Tensors /\ src(k)[i] < k
    BY GraphFacts
  <2>2. UsesIn(From(k), src(k)[i]) # {}
    BY ParentUsed
  <2> QED BY <2>1, <2>2 DEF Walk, Owned, Owning, Past
<1>2. \A i \in DOMAIN src(k) : allocate_node(G, src(k)[i]) = G
  BY <1>1 DEF allocate_node
<1>3. Len(src(k)) \in 0 .. 2 /\ DOMAIN src(k) = 1 .. Len(src(k))
  BY GraphFacts
<1>4. CASE Len(src(k)) = 0
  BY <1>1, <1>4 DEF ForParents
<1>5. CASE Len(src(k)) = 1
  <2>1. 1 \in DOMAIN src(k)
    BY <1>3, <1>5
  <2> QED BY <1>1, <1>2, <1>5, <2>1 DEF ForParents
<1>6. CASE Len(src(k)) = 2
  <2>1. 1 \in DOMAIN src(k) /\ 2 \in DOMAIN src(k)
    BY <1>3, <1>6
  <2> QED BY <1>1, <1>2, <1>6, <2>1 DEF ForParents
<1> QED BY <1>1, <1>3, <1>4, <1>5, <1>6

\* The last block starts early enough.
LEMMA RoomSteps ==
  ASSUME NEW k \in 1 .. NLeafs + NNodes, NEW G, AllocType(G)
  PROVE  /\ RoomLeft(G, k) <=> Rest(G.free, (k - 1) * (MaxN + 1))
         /\ RoomLeft(G, k + 1) <=> Rest(G.free, k * (MaxN + 1))
<1> DEFINE l == (k - 1) * (MaxN + 1)
           m == k * (MaxN + 1)
           u == (k + 1) * (MaxN + 1)
<1>1. MaxN \in Nat /\ l \in Nat /\ m \in Nat /\ l + MaxN + 1 = m /\ m + MaxN + 1 = u
  <2>1. k \in Int /\ MaxN \in Nat
    BY RoomFacts
  <2>2. l \in Nat /\ l + MaxN + 1 = m
    BY RoomFacts
  <2>3. m + MaxN + 1 = u
    BY <2>1
  <2> QED BY <2>1, <2>2, <2>3
<1>2. RoomLeft(G, k) <=> \E i \in DOMAIN G.free : End(G.free[i]) = Room /\ G.free[i].offset + MaxN + 1 <= m
  BY DEF RoomLeft
<1>3. RoomLeft(G, k + 1) <=> \E i \in DOMAIN G.free : End(G.free[i]) = Room /\ G.free[i].offset + MaxN + 1 <= u
  BY DEF RoomLeft
<1>4. \A i \in DOMAIN G.free : G.free[i].offset \in Nat
  BY AllocFacts, ListFacts
<1> HIDE DEF l, m, u
<1>5. \A i \in DOMAIN G.free : /\ G.free[i].offset + MaxN + 1 <= m <=> G.free[i].offset <= l
                               /\ G.free[i].offset + MaxN + 1 <= u <=> G.free[i].offset <= m
  BY <1>1, <1>4
<1>6. RoomLeft(G, k) <=> Rest(G.free, l)
  BY <1>2, <1>5 DEF Rest
<1>7. RoomLeft(G, k + 1) <=> Rest(G.free, m)
  BY <1>3, <1>5 DEF Rest
<1> QED BY <1>6, <1>7 DEF l, m

\* The parts of the invariant of the walk.
LEMMA WalkParts ==
  ASSUME NEW G, NEW U, NEW k,
         AllocType(G), Counts(G, U), Owned(G, k), Divided(G), Placed(G, k), RoomLeft(G, k)
  PROVE  Walk(G, U, k)
BY DEF Walk

\* A view is given no memory.
LEMMA ViewPassed ==
  ASSUME GraphInv, NEW k \in Tensors, NEW G, Walk(G, From(k), k), is_view(k)
  PROVE  Walk(G, From(k), k + 1)
<1>1. k \in 1 .. Len(graph) /\ k \notin Owning /\ k \in 0 .. Len(graph) + 1 /\ Len(graph) <= NLeafs + NNodes
  BY GraphFacts, GraphAssumption
<1>2. Owned(G, k + 1)
  <2>1. \A t \in Tensors : t \in Int
    BY GraphFacts
  <2>2. \A t : Past(From(k), t) => Past(From(k + 1), t)
    BY <1>1, PastNext
  <2>3. \A t \in Owning : t \in Tensors
    BY DEF Owning
  <2>4. Owned(G, k)
    BY DEF Walk
  <2>5. ASSUME NEW t \in Tensors, G.hash[t].allocated PROVE t \in Owning /\ t < k + 1
    BY <1>1, <2>1, <2>4, <2>5 DEF Owned
  <2>6. ASSUME NEW t \in Owning, t < k + 1 PROVE G.hash[t].allocated \/ Past(From(k + 1), t)
    <3>0. t # k /\ t \in Int /\ k \in Int
      BY <1>1, <2>1, <2>3
    <3>1. t < k
      BY <2>6, <3>0
    <3> QED BY <2>2, <2>4, <3>1 DEF Owned
  <2> QED BY <2>5, <2>6 DEF Owned
<1>3. Placed(G, k + 1)
  <2>1. \A t \in Owning : t \in Int /\ t # k
    BY <1>1, GraphFacts
  <2> QED BY <1>1, <2>1 DEF Walk, Placed
<1>4. RoomLeft(G, k + 1)
  <2>1. k \in 1 .. NLeafs + NNodes
    BY <1>1, GraphAssumption
  <2>2. (k - 1) * (MaxN + 1) <= k * (MaxN + 1) /\ (k - 1) * (MaxN + 1) \in Nat /\ k * (MaxN + 1) \in Nat
    BY <2>1, RoomFacts
  <2>3. PICK i \in DOMAIN G.free : End(G.free[i]) = Room /\ G.free[i].offset <= (k - 1) * (MaxN + 1)
    BY <2>1, RoomSteps DEF Walk, Rest
  <2>4. G.free[i].offset \in Nat
    BY AllocFacts, ListFacts DEF Walk
  <2>5. G.free[i].offset <= k * (MaxN + 1)
    BY <2>2, <2>3, <2>4
  <2>6. Rest(G.free, k * (MaxN + 1))
    BY <2>3, <2>5 DEF Rest
  <2> QED BY <2>1, <2>6, RoomSteps DEF Walk
<1>5. AllocType(G) /\ Counts(G, From(k)) /\ Divided(G)
  BY DEF Walk
<1> QED BY <1>2, <1>3, <1>4, <1>5, WalkParts

\* Fields of a record of the hash set.
LEMMA HashFields ==
  ASSUME NEW h \in HashType
  PROVE  /\ LET g == [h EXCEPT !.allocated = TRUE]
            IN /\ g \in HashType /\ g.allocated /\ g.offset = h.offset
               /\ g.n_children = h.n_children /\ g.n_views = h.n_views
         /\ LET g == [h EXCEPT !.allocated = FALSE]
            IN /\ g \in HashType /\ ~g.allocated /\ g.offset = h.offset
               /\ g.n_children = h.n_children /\ g.n_views = h.n_views
         /\ \A i \in Int :
              LET g == [h EXCEPT !.n_children = i]
              IN /\ g \in HashType /\ g.allocated = h.allocated /\ g.offset = h.offset
                 /\ g.n_children = i /\ g.n_views = h.n_views
         /\ \A i \in Int :
              LET g == [h EXCEPT !.n_views = i]
              IN /\ g \in HashType /\ g.allocated = h.allocated /\ g.offset = h.offset
                 /\ g.n_children = h.n_children /\ g.n_views = i
         /\ \A o \in Nat :
              LET g == [h EXCEPT !.offset = o]
              IN /\ g \in HashType /\ g.allocated = h.allocated /\ g.offset = o
                 /\ g.n_children = h.n_children /\ g.n_views = h.n_views
BY DEF HashType

\* The entry of t is set to h, and nothing else is changed.
LEMMA EntrySet ==
  ASSUME NEW G, AllocType(G), NEW t \in Tensors, NEW h \in HashType
  PROVE  LET H == [G EXCEPT !.hash[t] = h]
         IN /\ AllocType(H) /\ H.free = G.free /\ H.max_size = G.max_size
            /\ H.hash[t] = h /\ \A s \in Tensors : s # t => H.hash[s] = G.hash[s]
<1> DEFINE H == [G EXCEPT !.hash[t] = h]
           new == [G.hash EXCEPT ![t] = h]
<1>1. /\ G = [hash |-> G.hash, free |-> G.free, max_size |-> G.max_size]
      /\ G.hash \in [Tensors -> HashType] /\ DOMAIN G.hash = Tensors
  BY DEF AllocType
<1>2. H = [hash |-> new, free |-> G.free, max_size |-> G.max_size]
  <2>1. H = [G EXCEPT !.hash = new]
    OBVIOUS
  <2> HIDE DEF new, H
  <2> QED BY <1>1, <2>1
<1>3. new[t] = h /\ \A s \in Tensors : s # t => new[s] = G.hash[s]
  BY <1>1
<1>4. new \in [Tensors -> HashType]
  BY <1>1
<1> HIDE DEF new, H
<1>5. AllocType(H)
  BY <1>1, <1>2, <1>4 DEF AllocType
<1> QED BY <1>2, <1>3, <1>5 DEF H

\* A tensor is given the block of free memory that fits best.
LEMMA BlockTaken ==
  ASSUME GraphInv, n \in 0 .. MaxN, NEW k \in Owning, NEW G, Walk(G, From(k), k)
  PROVE  Walk([dyn_alloc(G, k) EXCEPT !.hash[k].allocated = TRUE], From(k), k + 1)
<1> DEFINE D == dyn_alloc(G, k)
           H == [D EXCEPT !.hash[k].allocated = TRUE]
           m == (k - 1) * (MaxN + 1)
<1>1. /\ k \in Tensors /\ k \in 1 .. Len(graph) /\ k \in 0 .. Len(graph) + 1 /\ k \in 1 .. NLeafs + NNodes
      /\ \A t \in Tensors : t \in Int
      /\ \A t \in Owning : t \in Tensors
  BY GraphFacts, GraphAssumption DEF Owning
<1>2. m \in Nat /\ m + MaxN + 1 < Room /\ m + MaxN + 1 = k * (MaxN + 1) /\ k + 1 - 1 = k
  BY <1>1, RoomFacts
<1>3. AllocType(G) /\ Rest(G.free, m) /\ Counts(G, From(k)) /\ Owned(G, k) /\ Divided(G) /\ Placed(G, k)
  BY <1>1, RoomSteps DEF Walk
<1> HIDE DEF m
<1>4. /\ AllocType(D)
      /\ D.hash = [G.hash EXCEPT ![k].offset = D.hash[k].offset] /\ D.hash[k].offset \in Nat
      /\ End(Place(D, k)) <= D.max_size /\ G.max_size <= D.max_size
      /\ \A a \in Nat : In(a, Place(D, k)) => IsFree(G.free, a)
      /\ \A a \in Nat : IsFree(D.free, a) <=> IsFree(G.free, a) /\ ~In(a, Place(D, k))
      /\ Rest(D.free, m + MaxN + 1)
  BY <1>1, <1>2, <1>3, DynAllocFacts
<1> HIDE DEF D
<1>5. /\ AllocType(H) /\ H.free = D.free /\ H.max_size = D.max_size
      /\ \A s \in Tensors : s # k => H.hash[s] = D.hash[s]
      /\ H.hash[k].allocated /\ H.hash[k].offset = D.hash[k].offset
      /\ H.hash[k].n_children = D.hash[k].n_children /\ H.hash[k].n_views = D.hash[k].n_views
  <2>1. H = [D EXCEPT !.hash[k] = [D.hash[k] EXCEPT !.allocated = TRUE]]
    OBVIOUS
  <2>2. D.hash[k] \in HashType
    BY <1>1, <1>4, AllocFacts
  <2> DEFINE h == [D.hash[k] EXCEPT !.allocated = TRUE]
  <2>3. /\ h \in HashType /\ h.allocated /\ h.offset = D.hash[k].offset
        /\ h.n_children = D.hash[k].n_children /\ h.n_views = D.hash[k].n_views
    BY <2>2, HashFields
  <2> HIDE DEF H, h
  <2>4. H = [D EXCEPT !.hash[k] = h]
    BY <2>1 DEF h
  <2>5. /\ AllocType(H) /\ H.free = D.free /\ H.max_size = D.max_size
        /\ H.hash[k] = h /\ \A s \in Tensors : s # k => H.hash[s] = D.hash[s]
    BY <1>1, <1>4, <2>3, <2>4, EntrySet
  <2> QED BY <2>3, <2>5
<1>6. \A t \in Tensors :
        /\ t # k => H.hash[t] = G.hash[t]
        /\ H.hash[t].n_children = G.hash[t].n_children /\ H.hash[t].n_views = G.hash[t].n_views
        /\ H.hash[k].allocated /\ H.hash[k].offset = D.hash[k].offset
  <2> DEFINE o == D.hash[k].offset
  <2>1. DOMAIN G.hash = Tensors /\ G.hash[k] \in HashType /\ D.hash = [G.hash EXCEPT ![k].offset = o]
    BY <1>1, <1>3, <1>4, AllocFacts
  <2> HIDE DEF o
  <2>2. D.hash[k] = [G.hash[k] EXCEPT !.offset = o] /\ \A t \in Tensors : t # k => D.hash[t] = G.hash[t]
    BY <1>1, <2>1
  <2>3. \A h \in HashType : /\ [h EXCEPT !.offset = o].n_children = h.n_children
                            /\ [h EXCEPT !.offset = o].n_views = h.n_views
    BY DEF HashType
  <2> QED BY <1>1, <1>5, <2>1, <2>2, <2>3
<1> HIDE DEF H
<1>7. AllocType(H)
  BY <1>5
<1>8. Place(H, k) = Place(D, k) /\ \A t \in Tensors : t # k => Place(H, t) = Place(G, t)
  BY <1>1, <1>6 DEF Place
<1>9. Counts(H, From(k))
  BY <1>3, <1>6 DEF Counts
<1>10. Owned(H, k + 1)
  <2>1. \A t : Past(From(k), t) => Past(From(k + 1), t)
    BY <1>1, PastNext
  <2>2. ASSUME NEW t \in Tensors, H.hash[t].allocated PROVE t \in Owning /\ t < k + 1
    <3>1. CASE t = k
      BY <1>1, <3>1
    <3>2. CASE t # k
      <4>1. G.hash[t].allocated
        BY <1>6, <2>2, <3>2
      <4> QED BY <1>1, <1>3, <4>1 DEF Owned
    <3> QED BY <3>1, <3>2
  <2>3. ASSUME NEW t \in Owning, t < k + 1 PROVE H.hash[t].allocated \/ Past(From(k + 1), t)
    <3>1. CASE t = k
      BY <1>1, <1>6, <3>1
    <3>2. CASE t # k
      <4>1. t < k /\ t \in Tensors
        BY <1>1, <2>3, <3>2
      <4> QED BY <1>3, <1>6, <2>1, <3>2, <4>1 DEF Owned
    <3> QED BY <3>1, <3>2
  <2> QED BY <2>2, <2>3 DEF Owned
<1>11. Divided(H)
  <2>1. ASSUME NEW a \in 0 .. Room - 1
        PROVE  IsFree(H.free, a) \/ \E t \in Tensors : H.hash[t].allocated /\ In(a, Place(H, t))
    <3>1. a \in Nat
      BY RoomFacts
    <3>2. CASE IsFree(G.free, a)
      BY <1>1, <1>4, <1>5, <1>6, <1>8, <3>1, <3>2
    <3>3. CASE ~IsFree(G.free, a)
      <4>1. PICK t \in Tensors : G.hash[t].allocated /\ In(a, Place(G, t))
        BY <1>3, <3>3 DEF Divided
      <4>2. t # k
        BY <1>1, <1>3, <4>1 DEF Owned
      <4> QED BY <1>6, <1>8, <4>1, <4>2
    <3> QED BY <3>2, <3>3
  <2>2. \A s \in Tensors : \A a \in Nat : G.hash[s].allocated /\ In(a, Place(G, s)) => ~IsFree(G.free, a)
    BY <1>3 DEF Divided, Disjoint, IsFree
  <2>3. ASSUME NEW t \in Tensors, H.hash[t].allocated, NEW i \in DOMAIN H.free
        PROVE  Disjoint(Place(H, t), H.free[i])
    <3>1. \A a \in Nat : In(a, H.free[i]) => IsFree(D.free, a)
      BY <1>5 DEF IsFree
    <3>2. CASE t = k
      BY <1>4, <1>8, <3>1, <3>2 DEF Disjoint
    <3>3. CASE t # k
      BY <1>4, <1>6, <1>8, <2>2, <2>3, <3>1, <3>3 DEF Disjoint
    <3> QED BY <3>2, <3>3
  <2>4. ASSUME NEW t \in Tensors, H.hash[t].allocated, NEW s \in Tensors, H.hash[s].allocated, s # t
        PROVE  Disjoint(Place(H, t), Place(H, s))
    <3>1. CASE t = k
      BY <1>4, <1>6, <1>8, <2>2, <2>4, <3>1 DEF Disjoint
    <3>2. CASE s = k
      BY <1>4, <1>6, <1>8, <2>2, <2>4, <3>2 DEF Disjoint
    <3>3. CASE t # k /\ s # k
      BY <1>3, <1>6, <1>8, <2>4, <3>3 DEF Divided
    <3> QED BY <3>1, <3>2, <3>3
  <2> QED BY <2>1, <2>3, <2>4 DEF Divided
<1>12. Placed(H, k + 1)
  <2>1. H.max_size = D.max_size /\ G.max_size \in Nat /\ D.max_size \in Nat
    BY <1>3, <1>4, <1>5, AllocFacts
  <2>2. \A t \in Owning : t \in Int /\ (t < k + 1 /\ t # k => t < k) /\ ~(k < k)
    BY <1>1
  <2>3. ASSUME NEW t \in Owning, t < k + 1 PROVE End(Place(H, t)) <= H.max_size
    <3>1. CASE t = k
      BY <1>4, <1>8, <2>1, <3>1
    <3>2. CASE t # k
      <4>1. End(Place(G, t)) <= G.max_size
        BY <1>3, <2>2, <2>3, <3>2 DEF Placed
      <4>2. Place(G, t).offset \in Nat /\ Place(G, t).size \in Nat
        BY <1>1, <1>3, AllocFacts, SizeFacts DEF Place
      <4> QED BY SMTT(40), <1>1, <1>4, <1>8, <2>1, <3>2, <4>1, <4>2 DEF End
    <3> QED BY <3>1, <3>2
  <2>4. ASSUME NEW s \in Owning, NEW t \in Owning, s < t, t < k + 1
        PROVE  Compatible(s, Place(H, s), t, Place(H, t))
    <3>1. s < k /\ s # k /\ s \in Tensors /\ t \in Tensors
      BY <1>1, <2>4
    <3>2. CASE t = k
      <4>1. CASE G.hash[s].allocated
        <5>1. \A a \in Nat : In(a, Place(G, s)) => ~IsFree(G.free, a)
          BY <1>3, <3>1, <4>1 DEF Divided, Disjoint, IsFree
        <5>2. Disjoint(Place(H, s), Place(H, t))
          BY <1>4, <1>8, <3>1, <3>2, <5>1 DEF Disjoint
        <5> QED BY <5>2 DEF Compatible
      <4>2. CASE ~G.hash[s].allocated
        BY <1>3, <3>1, <3>2, <4>2 DEF Owned, Compatible
      <4> QED BY <4>1, <4>2
    <3>3. CASE t # k
      BY <1>3, <1>8, <2>2, <2>4, <3>1, <3>3 DEF Placed
    <3> QED BY <3>2, <3>3
  <2> QED BY <2>3, <2>4 DEF Placed
<1>13. RoomLeft(H, k + 1)
  <2>1. Rest(H.free, k * (MaxN + 1))
    BY <1>2, <1>4, <1>5
  <2> QED BY <1>1, <1>7, <2>1, RoomSteps
<1>14. Walk(H, From(k), k + 1)
  BY <1>7, <1>9, <1>10, <1>11, <1>12, <1>13, WalkParts
<1> QED BY <1>14 DEF H, D

\* There is no less room when a tensor more is placed.
LEMMA RoomGrows ==
  ASSUME NEW k \in 1 .. NLeafs + NNodes, NEW G, AllocType(G), RoomLeft(G, k), NEW H, H.free = G.free
  PROVE  RoomLeft(H, k + 1)
<1>1. k * (MaxN + 1) <= (k + 1) * (MaxN + 1) /\ k * (MaxN + 1) \in Nat /\ (k + 1) * (MaxN + 1) \in Nat /\ MaxN \in Nat
  <2>1. k \in Nat /\ MaxN \in Nat
    BY RoomFacts
  <2>2. (k + 1) * (MaxN + 1) = k * (MaxN + 1) + (MaxN + 1) /\ k * (MaxN + 1) \in Nat
    BY <2>1
  <2> QED BY <2>1, <2>2
<1>2. PICK i \in DOMAIN G.free : End(G.free[i]) = Room /\ G.free[i].offset + MaxN + 1 <= k * (MaxN + 1)
  BY DEF RoomLeft
<1>3. G.free[i].offset \in Nat
  BY AllocFacts, ListFacts
<1>4. G.free[i].offset + MaxN + 1 <= (k + 1) * (MaxN + 1)
  BY <1>1, <1>2, <1>3
<1> QED BY <1>2, <1>4 DEF RoomLeft

\* The only use that is left of a parent is by its only child.
LEMMA OnlyUse ==
  ASSUME GraphInv, NEW k \in Tensors, NEW i \in DOMAIN src(k),
         Cardinality(UsesIn(From(k), src(k)[i])) = 1
  PROVE  UsesIn(From(k), src(k)[i]) = {<<k, i>>} /\ UsesIn(From(k + 1), src(k)[i]) = {}
<1> DEFINE p == src(k)[i]
           U == UsesIn(From(k), p)
<1>1. /\ k \in 0 .. Len(graph) + 1 /\ k \in Int /\ p \in Tensors
  BY GraphFacts
<1>2. From(k) \subseteq Sites /\ From(k + 1) \subseteq From(k)
  BY <1>1, FromFacts
<1>3. IsFiniteSet(U)
  BY <1>1, <1>2, UsesFacts
<1>4. PICK x : U = {x}
  BY <1>3, FS_Singleton
<1>5. <<k, i>> \in U
  BY ParentUsed
<1>6. U = {<<k, i>>}
  <2> HIDE DEF U
  <2> QED BY <1>4, <1>5
<1>7. UsesIn(From(k + 1), p) \subseteq U
  BY <1>2, PastMonotone
<1>8. <<k, i>> \notin From(k + 1)
  <2>1. <<k, i>>[1] = k /\ ~(k >= k + 1)
    BY <1>1
  <2> QED BY <2>1 DEF From
<1>9. <<k, i>> \notin UsesIn(From(k + 1), p)
  BY <1>8 DEF UsesIn
<1> QED BY <1>6, <1>7, <1>9

\* "Take over": an operation in place gets the block of a parent that it is the last to use.
LEMMA TakenOver ==
  ASSUME GraphInv, n \in 0 .. MaxN, NEW k \in Owning, NEW G, Walk(G, From(k), k),
         NEW i \in DOMAIN src(k), graph[k].op = "inplace", MayTakeOver(G, k, src(k)[i])
  PROVE  Walk([G EXCEPT !.hash[k].allocated = TRUE, !.hash[k].offset = G.hash[src(k)[i]].offset,
                        !.hash[src(k)[i]].allocated = FALSE], From(k), k + 1)
<1> DEFINE p == src(k)[i]
           hk == [[G.hash[k] EXCEPT !.allocated = TRUE] EXCEPT !.offset = G.hash[p].offset]
           hp == [G.hash[p] EXCEPT !.allocated = FALSE]
           K == [G EXCEPT !.hash[k] = hk]
           H == [G EXCEPT !.hash[k].allocated = TRUE, !.hash[k].offset = G.hash[p].offset,
                          !.hash[p].allocated = FALSE]
<1>1. /\ k \in Tensors /\ k \in 1 .. Len(graph) /\ k \in 0 .. Len(graph) + 1 /\ k \in 1 .. NLeafs + NNodes
      /\ k \in Int /\ p \in Tensors /\ p < k /\ p # k
      /\ \A t \in Tensors : t \in Int
      /\ \A t \in Owning : t \in Tensors
  BY GraphFacts, GraphAssumption DEF Owning
<1>2. AllocType(G) /\ Counts(G, From(k)) /\ Owned(G, k) /\ Divided(G) /\ Placed(G, k) /\ RoomLeft(G, k)
  BY DEF Walk
<1>3. /\ G.hash[p].allocated /\ p \in Owning /\ p \notin outputs /\ Size(k) = Size(p)
      /\ G.hash[p].n_children = 1 /\ G.hash[p].n_views = 0
  BY <1>1, <1>2 DEF MayTakeOver, Owned
<1>4. /\ UsesIn(From(k), p) # {} /\ UsesIn(From(k + 1), p) = {} /\ ViewsIn(From(k), p) = {}
      /\ UsesIn(Sites, p) # {}
  <2>1. Cardinality(UsesIn(From(k), p)) = 1 /\ Cardinality(ViewsIn(From(k), p)) = 0
    BY <1>1, <1>2, <1>3 DEF Counts
  <2>2. UsesIn(From(k), p) = {<<k, i>>} /\ UsesIn(From(k + 1), p) = {}
    BY <1>1, <2>1, OnlyUse
  <2>3. ViewsIn(From(k), p) = {}
    BY <1>1, <2>1, FromFacts, UsesFacts
  <2>4. UsesIn(From(k), p) \subseteq UsesIn(Sites, p)
    BY <1>1, PastNext
  <2> QED BY <2>2, <2>3, <2>4
<1>5. \A t : Past(From(k), t) => Past(From(k + 1), t)
  BY <1>1, PastNext
<1>6. Past(From(k + 1), p)
  <2>1. ViewsIn(From(k + 1), p) \subseteq ViewsIn(From(k), p)
    BY <1>1, PastNext
  <2> QED BY <1>3, <1>4, <2>1 DEF Past
<1>7. /\ AllocType(H) /\ H.free = G.free /\ H.max_size = G.max_size
      /\ \A t \in Tensors : t # k /\ t # p => H.hash[t] = G.hash[t]
      /\ H.hash[k].allocated /\ H.hash[k].offset = G.hash[p].offset
      /\ ~H.hash[p].allocated /\ H.hash[p].offset = G.hash[p].offset
      /\ \A t \in Tensors : /\ H.hash[t].n_children = G.hash[t].n_children
                            /\ H.hash[t].n_views = G.hash[t].n_views
  <2> HIDE DEF p
  <2>1. DOMAIN G.hash = Tensors /\ G.hash[k] \in HashType /\ G.hash[p] \in HashType /\ G.hash[p].offset \in Nat
    BY <1>1, <1>2, AllocFacts
  <2>2. [G.hash[k] EXCEPT !.allocated = TRUE] \in HashType
    BY <2>1, HashFields
  <2>3. /\ hk \in HashType /\ hk.allocated /\ hk.offset = G.hash[p].offset
        /\ hk.n_children = G.hash[k].n_children /\ hk.n_views = G.hash[k].n_views
    <3> DEFINE ha == [G.hash[k] EXCEPT !.allocated = TRUE]
    <3>1. ha \in HashType /\ ha.allocated /\ ha.n_children = G.hash[k].n_children /\ ha.n_views = G.hash[k].n_views
      BY <2>1, HashFields
    <3> HIDE DEF ha
    <3> DEFINE o == G.hash[p].offset
               g == [ha EXCEPT !.offset = o]
    <3>3. hk = g
      BY DEF ha
    <3>a. ha \in HashType /\ o \in Nat
      BY <2>1, <3>1
    <3> HIDE DEF hk, o
    <3>2. /\ g \in HashType /\ g.allocated = ha.allocated /\ g.offset = o
          /\ g.n_children = ha.n_children /\ g.n_views = ha.n_views
      BY ZenonT(60), <3>a, HashFields
    <3> HIDE DEF g
    <3> QED BY <3>1, <3>2, <3>3 DEF o
  <2>4. /\ hp \in HashType /\ ~hp.allocated /\ hp.offset = G.hash[p].offset
        /\ hp.n_children = G.hash[p].n_children /\ hp.n_views = G.hash[p].n_views
    BY <2>1, HashFields
  <2>5. H = [K EXCEPT !.hash[p] = hp]
    <3> DEFINE fk == [G.hash EXCEPT ![k] = hk]
               fp == [fk EXCEPT ![p] = hp]
    <3>1. H = [G EXCEPT !.hash = fp]
      <4>1. fk[p] = G.hash[p]
        BY <1>1, <2>1
      <4>2. H = [G EXCEPT !.hash = [[[@ EXCEPT ![k].allocated = TRUE] EXCEPT ![k].offset = G.hash[p].offset]
                                      EXCEPT ![p].allocated = FALSE]]
        OBVIOUS
      <4>3. [[G.hash EXCEPT ![k].allocated = TRUE] EXCEPT ![k].offset = G.hash[p].offset] = fk
        BY <1>1, <2>1
      <4>4. [fk EXCEPT ![p].allocated = FALSE] = fp
        BY <4>1
      <4> HIDE DEF H, fp, fk
      <4> QED BY <4>2, <4>3, <4>4
    <3>2. G = [hash |-> G.hash, free |-> G.free, max_size |-> G.max_size]
      BY <1>2, AllocFacts
    <3>3. K = [hash |-> fk, free |-> G.free, max_size |-> G.max_size]
      <4>1. K = [G EXCEPT !.hash = fk]
        OBVIOUS
      <4> HIDE DEF K, fk
      <4> QED BY <3>2, <4>1
    <3>4. [K EXCEPT !.hash[p] = hp] = [hash |-> fp, free |-> G.free, max_size |-> G.max_size]
      <4>1. [K EXCEPT !.hash[p] = hp] = [K EXCEPT !.hash = [K.hash EXCEPT ![p] = hp]]
        OBVIOUS
      <4> HIDE DEF K, fk, hp
      <4> QED BY <3>3, <4>1
    <3> HIDE DEF H, K, fk, fp, hp
    <3> QED BY <3>1, <3>2, <3>4
  <2> HIDE DEF hk, hp, H
  <2>6. /\ AllocType(K) /\ K.free = G.free /\ K.max_size = G.max_size
        /\ K.hash[k] = hk /\ \A t \in Tensors : t # k => K.hash[t] = G.hash[t]
    BY <1>1, <1>2, <2>3, EntrySet
  <2> HIDE DEF K
  <2>7. /\ AllocType(H) /\ H.free = K.free /\ H.max_size = K.max_size
        /\ H.hash[p] = hp /\ \A t \in Tensors : t # p => H.hash[t] = K.hash[t]
    BY <1>1, <2>4, <2>5, <2>6, EntrySet
  <2> QED BY <1>1, <2>3, <2>4, <2>6, <2>7
<1> HIDE DEF H
<1>8. /\ Place(H, k) = Place(G, p) /\ \A t \in Tensors : t # k => Place(H, t) = Place(G, t)
  BY <1>1, <1>3, <1>7 DEF Place
<1> HIDE DEF p
<1>9. Counts(H, From(k))
  BY <1>2, <1>7 DEF Counts
<1>10. Owned(H, k + 1)
  <2>1. ASSUME NEW t \in Tensors, H.hash[t].allocated PROVE t \in Owning /\ t < k + 1
    <3>1. CASE t = k
      BY <1>1, <3>1
    <3>2. CASE t # k
      <4>1. G.hash[t].allocated
        BY <1>7, <2>1, <3>2
      <4> QED BY <1>1, <1>2, <4>1 DEF Owned
    <3> QED BY <3>1, <3>2
  <2>2. ASSUME NEW t \in Owning, t < k + 1 PROVE H.hash[t].allocated \/ Past(From(k + 1), t)
    <3>1. CASE t = k
      BY <1>7, <3>1
    <3>2. CASE t = p
      BY <1>6, <3>2
    <3>3. CASE t # k /\ t # p
      <4>1. t < k /\ t \in Tensors
        BY <1>1, <2>2, <3>3
      <4> QED BY <1>2, <1>5, <1>7, <3>3, <4>1 DEF Owned
    <3> QED BY <3>1, <3>2, <3>3
  <2> QED BY <2>1, <2>2 DEF Owned
<1>11. Divided(H)
  <2>0. ~G.hash[k].allocated
    BY <1>1, <1>2 DEF Owned
  <2>1. ASSUME NEW a \in 0 .. Room - 1
        PROVE  IsFree(H.free, a) \/ \E t \in Tensors : H.hash[t].allocated /\ In(a, Place(H, t))
    <3>1. CASE IsFree(G.free, a)
      BY <1>7, <3>1
    <3>2. CASE ~IsFree(G.free, a)
      <4>1. PICK t \in Tensors : G.hash[t].allocated /\ In(a, Place(G, t))
        BY <1>2, <3>2 DEF Divided
      <4>2. CASE t = p
        BY <1>1, <1>7, <1>8, <4>1, <4>2
      <4>3. CASE t # p
        BY <1>7, <1>8, <2>0, <4>1, <4>3
      <4> QED BY <4>2, <4>3
    <3> QED BY <3>1, <3>2
  <2>2. ASSUME NEW t \in Tensors, H.hash[t].allocated
        PROVE  \E s \in Tensors : /\ G.hash[s].allocated /\ Place(H, t) = Place(G, s)
                                  /\ (t = k => s = p) /\ (t # k => s = t /\ s # p)
    <3>1. CASE t = k
      BY <1>1, <1>3, <1>8, <3>1
    <3>2. CASE t # k
      <4>1. t # p
        BY <1>7, <2>2
      <4> QED BY <1>7, <1>8, <2>2, <3>2, <4>1
    <3> QED BY <3>1, <3>2
  <2>3. ASSUME NEW t \in Tensors, H.hash[t].allocated, NEW j \in DOMAIN H.free
        PROVE  Disjoint(Place(H, t), H.free[j])
    BY <1>2, <1>7, <2>2, <2>3 DEF Divided
  <2>4. ASSUME NEW t \in Tensors, H.hash[t].allocated, NEW s \in Tensors, H.hash[s].allocated, s # t
        PROVE  Disjoint(Place(H, t), Place(H, s))
    BY <1>2, <2>2, <2>4 DEF Divided
  <2> QED BY <2>1, <2>3, <2>4 DEF Divided
<1>12. Placed(H, k + 1)
  <2>1. ASSUME NEW t \in Owning, t < k + 1 PROVE End(Place(H, t)) <= H.max_size
    <3>1. CASE t = k
      BY <1>1, <1>2, <1>3, <1>7, <1>8, <3>1 DEF Placed
    <3>2. CASE t # k
      <4>0. t \in Tensors /\ t \in Int
        BY <1>1
      <4>1. t < k
        BY <1>1, <2>1, <3>2, <4>0
      <4> QED BY <1>2, <4>0, <1>7, <1>8, <3>2, <4>1 DEF Placed
    <3> QED BY <3>1, <3>2
  <2>2. ASSUME NEW s \in Owning, NEW t \in Owning, s < t, t < k + 1
        PROVE  Compatible(s, Place(H, s), t, Place(H, t))
    <3>1. s < k /\ s # k /\ s \in Tensors /\ t \in Tensors
      BY <1>1, <2>2
    <3>2. CASE t = k /\ s = p
      BY <1>4, <1>6, <1>8, <3>1, <3>2 DEF Compatible
    <3>3. CASE t = k /\ s # p
      <4>1. CASE G.hash[s].allocated
        BY <1>1, <1>2, <1>3, <1>8, <3>1, <3>3, <4>1 DEF Divided, Compatible
      <4>2. CASE ~G.hash[s].allocated
        BY <1>2, <3>1, <3>3, <4>2 DEF Owned, Compatible
      <4> QED BY <4>1, <4>2
    <3>4. CASE t # k
      <4>1. t < k
        BY <1>1, <2>2, <3>1, <3>4
      <4> QED BY <1>2, <1>8, <2>2, <3>1, <3>4, <4>1 DEF Placed
    <3> QED BY <3>2, <3>3, <3>4
  <2> QED BY <2>1, <2>2 DEF Placed
<1>13. RoomLeft(H, k + 1)
  BY <1>1, <1>2, <1>7, RoomGrows
<1>14. Walk(H, From(k), k + 1)
  BY <1>7, <1>9, <1>10, <1>11, <1>12, <1>13, WalkParts
<1> QED BY <1>14 DEF H, p

\* ggml_gallocr_allocate_node: the next tensor of the walk gets its memory.
LEMMA NodeAllocated ==
  ASSUME GraphInv, n \in 0 .. MaxN, NEW k \in Tensors, NEW G, Walk(G, From(k), k)
  PROVE  Walk(allocate_node(G, k), From(k), k + 1)
<1> DEFINE taken == {i \in DOMAIN src(k) : graph[k].op = "inplace" /\ MayTakeOver(G, k, src(k)[i])}
<1>1. ~G.hash[k].allocated
  <2>1. k \in Int
    BY GraphFacts
  <2> QED BY <2>1 DEF Walk, Owned
<1>2. CASE is_view(k)
  <2>1. allocate_node(G, k) = G
    BY <1>2 DEF allocate_node
  <2> QED BY <1>2, <2>1, ViewPassed
<1>3. CASE ~is_view(k) /\ taken # {}
  <2> DEFINE i == Min(taken)
  <2>1. taken \in SUBSET Nat
    BY SMTT(40), GraphFacts
  <2>2. i \in taken
    BY SMTT(40), <1>3, <2>1, MinFacts
  <2>3. allocate_node(G, k) = [G EXCEPT !.hash[k].allocated = TRUE, !.hash[k].offset = G.hash[src(k)[i]].offset,
                                        !.hash[src(k)[i]].allocated = FALSE]
    BY <1>1, <1>3 DEF allocate_node
  <2> HIDE DEF i
  <2>4. k \in Owning
    BY <1>3 DEF Owning
  <2>5. i \in DOMAIN src(k) /\ graph[k].op = "inplace" /\ MayTakeOver(G, k, src(k)[i])
    BY <2>2
  <2> HIDE DEF taken
  <2>6. Walk([G EXCEPT !.hash[k].allocated = TRUE, !.hash[k].offset = G.hash[src(k)[i]].offset,
                       !.hash[src(k)[i]].allocated = FALSE], From(k), k + 1)
    BY ZenonT(40), <2>4, <2>5, TakenOver
  <2> QED BY SMTT(40), <2>3, <2>6
<1>4. CASE ~is_view(k) /\ taken = {}
  <2>1. allocate_node(G, k) = [dyn_alloc(G, k) EXCEPT !.hash[k].allocated = TRUE]
    BY <1>1, <1>4 DEF allocate_node
  <2>2. k \in Owning
    BY <1>4 DEF Owning
  <2> QED BY SMTT(40), <2>1, <2>2, BlockTaken
<1> QED BY <1>2, <1>3, <1>4

\* ggml_gallocr_free_node: the memory of a tensor that is past becomes free.
LEMMA NodeFreed ==
  ASSUME GraphInv, n \in 0 .. MaxN, NEW k \in Tensors, NEW G, NEW U, Walk(G, U, k + 1),
         NEW t \in Tensors, G.hash[t].allocated, t \notin outputs => Past(From(k + 1), t)
  PROVE  Walk(free_node(G, t), U, k + 1)
<1> DEFINE b == Place(G, t)
           h == [G.hash[t] EXCEPT !.allocated = FALSE]
           H == [G EXCEPT !.free = dyn_free(@, b), !.hash[t].allocated = FALSE]
<1>1. /\ k \in 1 .. NLeafs + NNodes /\ k \in Int
      /\ \A s \in Tensors : s \in Int
      /\ \A s \in Owning : s \in Tensors
  BY GraphFacts, GraphAssumption DEF Owning
<1>2. /\ AllocType(G) /\ Counts(G, U) /\ Owned(G, k + 1) /\ Divided(G) /\ Placed(G, k + 1) /\ RoomLeft(G, k + 1)
  BY DEF Walk
<1>3. t \in Owning /\ t < k + 1
  BY <1>2 DEF Owned
<1>4. b \in Block /\ End(b) <= Room
  <2>1. G.hash[t].offset \in Nat /\ Size(t) \in Nat /\ G.max_size \in Nat /\ G.max_size <= Room /\ Room \in Nat
    BY <1>2, AllocFacts, SizeFacts
  <2>2. End(b) <= G.max_size
    BY <1>2, <1>3 DEF Placed
  <2>3. b \in Block /\ End(b) \in Nat
    BY <2>1 DEF Place, Block, End
  <2> HIDE DEF b
  <2> QED BY <2>1, <2>2, <2>3
<1>5. \A a \in Nat : In(a, b) => ~IsFree(G.free, a)
  BY <1>2 DEF Divided, Disjoint, IsFree
<1>6. FreeList(G.free)
  BY <1>2, AllocFacts
<1>7. Freed(G.free, dyn_free(G.free, b), b)
  <2> HIDE DEF b
  <2> QED BY <1>4, <1>5, <1>6, FreeFacts
<1>8. CASE t \in outputs
  BY <1>8 DEF free_node
<1>9. CASE t \notin outputs
  <2>1. free_node(G, t) = H
    BY <1>9 DEF free_node, Place
  <2> HIDE DEF b
  <2>2. /\ AllocType(H) /\ H.free = dyn_free(G.free, b) /\ H.max_size = G.max_size
        /\ \A s \in Tensors : s # t => H.hash[s] = G.hash[s]
        /\ ~H.hash[t].allocated /\ H.hash[t].offset = G.hash[t].offset
        /\ \A s \in Tensors : /\ H.hash[s].n_children = G.hash[s].n_children
                              /\ H.hash[s].n_views = G.hash[s].n_views
    <3> DEFINE K == [G EXCEPT !.free = dyn_free(G.free, b)]
    <3>1. /\ h \in HashType /\ ~h.allocated /\ h.offset = G.hash[t].offset
          /\ h.n_children = G.hash[t].n_children /\ h.n_views = G.hash[t].n_views
      BY <1>2, AllocFacts, HashFields
    <3>2. K = [hash |-> G.hash, free |-> dyn_free(G.free, b), max_size |-> G.max_size]
      <4>1. G = [hash |-> G.hash, free |-> G.free, max_size |-> G.max_size]
        BY <1>2, AllocFacts
      <4> QED BY <4>1
    <3>3. H = [K EXCEPT !.hash[t] = h]
      <4>1. H = [K EXCEPT !.hash[t].allocated = FALSE]
        OBVIOUS
      <4>2. K.hash = G.hash
        BY <3>2
      <4>3. [K EXCEPT !.hash[t].allocated = FALSE] = [K EXCEPT !.hash = [K.hash EXCEPT ![t].allocated = FALSE]]
        OBVIOUS
      <4>4. [K EXCEPT !.hash[t] = h] = [K EXCEPT !.hash = [K.hash EXCEPT ![t] = h]]
        OBVIOUS
      <4>5. [K.hash EXCEPT ![t].allocated = FALSE] = [K.hash EXCEPT ![t] = h]
        <5> HIDE DEF K
        <5> QED BY <4>2
      <4> HIDE DEF H, K, h
      <4> QED BY <4>1, <4>3, <4>4, <4>5
    <3> HIDE DEF K, H, h
    <3>4. AllocType(K)
      BY <1>2, <1>7, <3>2 DEF AllocType, Freed
    <3>5. /\ AllocType(H) /\ H.free = K.free /\ H.max_size = K.max_size
          /\ H.hash[t] = h /\ \A s \in Tensors : s # t => H.hash[s] = K.hash[s]
      BY <3>1, <3>3, <3>4, EntrySet
    <3> QED BY <3>1, <3>2, <3>5
  <2> HIDE DEF H
  <2>3. \A s \in Tensors : Place(H, s) = Place(G, s)
    BY <2>2 DEF Place
  <2>4. Counts(H, U)
    BY <1>2, <2>2 DEF Counts
  <2>5. \A s \in Tensors : H.hash[s].allocated => G.hash[s].allocated /\ s # t
    BY <2>2
  <2>6. Owned(H, k + 1)
    BY <1>1, <1>2, <1>9, <2>2, <2>5 DEF Owned
  <2>7. Divided(H)
    <3>1. ASSUME NEW a \in 0 .. Room - 1
          PROVE  IsFree(H.free, a) \/ \E s \in Tensors : H.hash[s].allocated /\ In(a, Place(H, s))
      <4>0. a \in Nat
        BY RoomFacts
      <4>1. CASE IsFree(G.free, a)
        BY <1>7, <2>2, <4>0, <4>1 DEF Freed
      <4>2. CASE ~IsFree(G.free, a)
        <5>1. PICK s \in Tensors : G.hash[s].allocated /\ In(a, Place(G, s))
          BY <1>2, <4>2 DEF Divided
        <5>2. CASE s = t
          BY <1>7, <2>2, <4>0, <5>1, <5>2 DEF Freed, b
        <5>3. CASE s # t
          BY <2>2, <2>3, <5>1, <5>3
        <5> QED BY <5>2, <5>3
      <4> QED BY <4>1, <4>2
    <3>2. ASSUME NEW s \in Tensors, H.hash[s].allocated, NEW i \in DOMAIN H.free
          PROVE  Disjoint(Place(H, s), H.free[i])
      <4>1. \A a \in Nat : In(a, H.free[i]) => IsFree(G.free, a) \/ In(a, b)
        BY <1>7, <2>2 DEF Freed, IsFree
      <4>2. \A a \in Nat : In(a, Place(G, s)) => ~IsFree(G.free, a)
        BY <1>2, <2>5, <3>2 DEF Divided, Disjoint, IsFree
      <4>3. Disjoint(Place(G, s), b)
        BY <1>2, <2>5, <3>2 DEF Divided, b
      <4> QED BY <2>3, <4>1, <4>2, <4>3 DEF Disjoint
    <3>3. ASSUME NEW s \in Tensors, H.hash[s].allocated, NEW r \in Tensors, H.hash[r].allocated, r # s
          PROVE  Disjoint(Place(H, s), Place(H, r))
      BY <1>2, <2>3, <2>5, <3>3 DEF Divided
    <3> QED BY <3>1, <3>2, <3>3 DEF Divided
  <2>8. Placed(H, k + 1)
    BY <1>1, <1>2, <2>2, <2>3 DEF Placed
  <2>9. RoomLeft(H, k + 1)
    <3>1. Rest(G.free, k * (MaxN + 1)) /\ k * (MaxN + 1) \in Nat
      <4>1. k * (MaxN + 1) \in Nat
        BY <1>1, RoomFacts
      <4> QED BY <1>1, <1>2, <4>1, RoomSteps
    <3>2. Rest(H.free, k * (MaxN + 1))
      BY <1>7, <2>2, <3>1 DEF Freed
    <3> QED BY <1>1, <2>2, <3>2, RoomSteps
  <2>10. Walk(H, U, k + 1)
    BY <2>2, <2>4, <2>6, <2>7, <2>8, <2>9, WalkParts
  <2> QED BY <2>1, <2>10
<1> QED BY <1>8, <1>9

\* A use that is done with is one less for the parent, and when it was the last the parent
\* is one view less of what it shows.
LEMMA UseDone ==
  ASSUME GraphInv, NEW U \in SUBSET Sites, NEW x \in U
  PROVE  LET p == src(x[1])[x[2]]
             W == U \ {x}
             last == UsesIn(W, p) = {} /\ is_view(p)
         IN /\ p \in Tensors
            /\ \A t \in Tensors :
                 /\ t # p => Cardinality(UsesIn(W, t)) = Cardinality(UsesIn(U, t))
                 /\ ~(last /\ t = Root(p)) => Cardinality(ViewsIn(W, t)) = Cardinality(ViewsIn(U, t))
            /\ Cardinality(UsesIn(W, p)) = Cardinality(UsesIn(U, p)) - 1
            /\ last => Cardinality(ViewsIn(W, Root(p))) = Cardinality(ViewsIn(U, Root(p))) - 1
            /\ is_view(p) => ViewsIn(U, p) = {}
<1> DEFINE p == src(x[1])[x[2]]
           W == U \ {x}
           last == UsesIn(W, p) = {} /\ is_view(p)
<1>1. p \in Tensors /\ x \in UsesIn(U, p) /\ UsesIn(Sites, p) # {} /\ W \in SUBSET Sites /\ x \in Sites
  <2>1. x[1] \in Tensors /\ x[2] \in DOMAIN src(x[1])
    BY GraphFacts DEF Sites
  <2> QED BY <2>1, GraphFacts DEF UsesIn
<1>2. \A t : t # p => UsesIn(W, t) = UsesIn(U, t)
  BY DEF UsesIn
<1>3. UsesIn(W, p) = UsesIn(U, p) \ {x}
  BY DEF UsesIn
<1>4. Cardinality(UsesIn(W, p)) = Cardinality(UsesIn(U, p)) - 1
  <2>1. IsFiniteSet(UsesIn(U, p))
    BY <1>1, UsesFacts
  <2> DEFINE S == UsesIn(U, p)
  <2>2. x \in S /\ IsFiniteSet(S) /\ UsesIn(W, p) = S \ {x}
    BY <1>1, <1>3, <2>1
  <2> HIDE DEF p, W, S
  <2>3. Cardinality(S \ {x}) = Cardinality(S) - 1
    BY <2>2, FS_RemoveElement
  <2> QED BY <2>2, <2>3 DEF S
<1>5. ASSUME NEW t \in Tensors, ~(last /\ t = Root(p)) PROVE ViewsIn(W, t) = ViewsIn(U, t)
  <2>1. ASSUME NEW v \in Nodes, graph[v].view_src = t
        PROVE  UsesIn(W, v) # {} \/ UsesIn(Sites, v) = {} <=> UsesIn(U, v) # {} \/ UsesIn(Sites, v) = {}
    <3>1. CASE v # p
      BY <1>2, <3>1
    <3>2. CASE v = p
      <4>1. is_view(p) /\ Root(p) = t
        BY <1>1, <2>1, <3>2, GraphFacts
      <4>2. UsesIn(W, p) # {}
        BY <1>5, <4>1
      <4> QED BY <1>1, <3>2, <4>2
    <3> QED BY <3>1, <3>2
  <2> QED BY <2>1 DEF ViewsIn
<1>6. ASSUME last
      PROVE  Cardinality(ViewsIn(W, Root(p))) = Cardinality(ViewsIn(U, Root(p))) - 1
  <2>1. p \in Nodes /\ graph[p].view_src = Root(p) /\ Root(p) \in Tensors
    BY SMTT(40), <1>1, <1>6, GraphFacts
  <2>2. p \in ViewsIn(U, Root(p))
    BY <1>1, <2>1 DEF ViewsIn
  <2>3. ViewsIn(W, Root(p)) = ViewsIn(U, Root(p)) \ {p}
    <3>1. ASSUME NEW v \in Nodes, v # p
          PROVE  UsesIn(W, v) # {} \/ UsesIn(Sites, v) = {} <=> UsesIn(U, v) # {} \/ UsesIn(Sites, v) = {}
      BY <1>2, <3>1
    <3>2. ~(UsesIn(W, p) # {} \/ UsesIn(Sites, p) = {})
      BY <1>1, <1>6
    <3> QED BY <3>1, <3>2 DEF ViewsIn
  <2>4. IsFiniteSet(ViewsIn(U, Root(p)))
    BY <2>1, UsesFacts
  <2> DEFINE S == ViewsIn(U, Root(p))
  <2>5. p \in S /\ IsFiniteSet(S) /\ ViewsIn(W, Root(p)) = S \ {p}
    BY <2>2, <2>3, <2>4
  <2> HIDE DEF p, W, S
  <2>6. Cardinality(S \ {p}) = Cardinality(S) - 1
    BY <2>5, FS_RemoveElement
  <2> QED BY <2>5, <2>6 DEF S
<1>7. ASSUME is_view(p) PROVE ViewsIn(U, p) = {}
  <2>1. ASSUME NEW v \in Nodes PROVE graph[v].view_src # p
    <3>1. p \notin Owning
      BY <1>1, <1>7 DEF Owning
    <3>2. is_view(v) => graph[v].view_src \in Owning
      BY GraphFacts
    <3> QED BY <1>1, <3>1, <3>2, GraphFacts
  <2> QED BY <2>1 DEF ViewsIn
<1>8. \A t \in Tensors : /\ t # p => Cardinality(UsesIn(W, t)) = Cardinality(UsesIn(U, t))
                         /\ ~(last /\ t = Root(p)) => Cardinality(ViewsIn(W, t)) = Cardinality(ViewsIn(U, t))
  <2> HIDE DEF p, W
  <2> QED BY <1>2, <1>5
<1> QED BY <1>1, <1>4, <1>6, <1>7, <1>8

\* Other counts, of other uses to come, do not touch the rest of the invariant of the walk.
LEMMA Recounted ==
  ASSUME NEW G, NEW H, NEW U, NEW W, NEW k, Walk(G, U, k), AllocType(H), Counts(H, W),
         H.free = G.free, H.max_size = G.max_size,
         \A t \in Tensors : H.hash[t].allocated = G.hash[t].allocated /\ H.hash[t].offset = G.hash[t].offset
  PROVE  Walk(H, W, k)
<1>1. AllocType(G) /\ Owned(G, k) /\ Divided(G) /\ Placed(G, k) /\ RoomLeft(G, k)
  BY DEF Walk
<1>2. \A t \in Tensors : Place(H, t) = Place(G, t)
  BY DEF Place
<1>3. \A t \in Owning : t \in Tensors
  BY DEF Owning
<1>4. Owned(H, k)
  BY <1>1, <1>3 DEF Owned
<1>5. Divided(H)
  BY <1>1, <1>2 DEF Divided
<1>6. Placed(H, k)
  BY <1>1, <1>2, <1>3 DEF Placed
<1>7. RoomLeft(H, k)
  BY <1>1 DEF RoomLeft
<1> QED BY <1>4, <1>5, <1>6, <1>7, WalkParts

\* After a child of p was computed: what is past, and may be freed.
LEMMA ChildDone ==
  ASSUME GraphInv, n \in 0 .. MaxN, NEW k \in Tensors, NEW U \in SUBSET Sites, NEW x \in U,
         From(k + 1) \subseteq U \ {x}, NEW G, Walk(G, U, k + 1)
  PROVE  Walk(Release(G, src(x[1])[x[2]]), U \ {x}, k + 1)
<1> DEFINE p == src(x[1])[x[2]]
           W == U \ {x}
           last == UsesIn(W, p) = {} /\ is_view(p)
           D == [G EXCEPT !.hash[p].n_children = @ - 1]
           V == [D EXCEPT !.hash[Root(p)].n_views = @ - 1]
           over == D.hash[p].n_children = 0 /\ D.hash[p].n_views = 0
           h == V.hash[Root(p)]
<1>1. /\ p \in Tensors /\ Root(p) \in Tensors /\ W \in SUBSET Sites /\ U \in SUBSET Sites
      /\ \A t \in Tensors :
           /\ t # p => Cardinality(UsesIn(W, t)) = Cardinality(UsesIn(U, t))
           /\ ~(last /\ t = Root(p)) => Cardinality(ViewsIn(W, t)) = Cardinality(ViewsIn(U, t))
      /\ Cardinality(UsesIn(W, p)) = Cardinality(UsesIn(U, p)) - 1
      /\ last => Cardinality(ViewsIn(W, Root(p))) = Cardinality(ViewsIn(U, Root(p))) - 1
      /\ is_view(p) => ViewsIn(U, p) = {}
  <2>1. /\ p \in Tensors
        /\ \A t \in Tensors :
             /\ t # p => Cardinality(UsesIn(W, t)) = Cardinality(UsesIn(U, t))
             /\ ~(last /\ t = Root(p)) => Cardinality(ViewsIn(W, t)) = Cardinality(ViewsIn(U, t))
        /\ Cardinality(UsesIn(W, p)) = Cardinality(UsesIn(U, p)) - 1
        /\ last => Cardinality(ViewsIn(W, Root(p))) = Cardinality(ViewsIn(U, Root(p))) - 1
        /\ is_view(p) => ViewsIn(U, p) = {}
    BY UseDone
  <2> HIDE DEF last
  <2>2. Root(p) \in Tensors
    BY <2>1, GraphFacts DEF Owning
  <2> QED BY <2>1, <2>2
<1>2. Release(G, p) = CASE ~over -> D
                        [] over /\ is_view(p)  -> IF h.n_views = 0 /\ h.n_children = 0 /\ h.allocated
                                                  THEN free_node(V, Root(p)) ELSE V
                        [] over /\ ~is_view(p) -> IF D.hash[p].allocated THEN free_node(D, p) ELSE D
  BY DEF Release
<1>3. UsesIn(Sites, p) # {}
  <2>1. x \in UsesIn(Sites, p)
    BY DEF UsesIn
  <2> QED BY <2>1
<1> HIDE DEF p
<1>4. AllocType(G) /\ Counts(G, U)
  BY DEF Walk
<1>5. /\ AllocType(D) /\ D.free = G.free /\ D.max_size = G.max_size
      /\ \A t \in Tensors : /\ D.hash[t].allocated = G.hash[t].allocated /\ D.hash[t].offset = G.hash[t].offset
                            /\ D.hash[t].n_views = G.hash[t].n_views
                            /\ t # p => D.hash[t].n_children = G.hash[t].n_children
      /\ D.hash[p].n_children = G.hash[p].n_children - 1
  <2> DEFINE c == G.hash[p]
             i == c.n_children - 1
             e == [c EXCEPT !.n_children = i]
  <2>1. c \in HashType /\ i \in Int
    <3>1. c \in HashType /\ c.n_children \in Int
      BY <1>1, <1>4, AllocFacts
    <3> QED BY <3>1
  <2>2. D = [G EXCEPT !.hash[p] = e]
    OBVIOUS
  <2> HIDE DEF D, i, c
  <2>3. /\ e \in HashType /\ e.allocated = c.allocated /\ e.offset = c.offset
        /\ e.n_children = i /\ e.n_views = c.n_views
    BY <2>1 DEF HashType
  <2> HIDE DEF e
  <2>4. /\ AllocType(D) /\ D.free = G.free /\ D.max_size = G.max_size
        /\ D.hash[p] = e /\ \A s \in Tensors : s # p => D.hash[s] = G.hash[s]
    BY <1>1, <1>4, <2>2, <2>3, EntrySet
  <2> QED BY <1>1, <2>3, <2>4 DEF i, c
<1> HIDE DEF D
<1>6. /\ AllocType(V) /\ V.free = G.free /\ V.max_size = G.max_size
      /\ \A t \in Tensors : /\ V.hash[t].allocated = G.hash[t].allocated /\ V.hash[t].offset = G.hash[t].offset
                            /\ V.hash[t].n_children = D.hash[t].n_children
                            /\ t # Root(p) => V.hash[t].n_views = D.hash[t].n_views
      /\ V.hash[Root(p)].n_views = D.hash[Root(p)].n_views - 1
  <2> DEFINE r == Root(p)
             c == D.hash[r]
             i == c.n_views - 1
             e == [c EXCEPT !.n_views = i]
  <2>1. c \in HashType /\ i \in Int /\ r \in Tensors
    <3>1. c \in HashType /\ c.n_views \in Int /\ r \in Tensors
      BY <1>1, <1>5, AllocFacts
    <3> QED BY <3>1
  <2>2. V = [D EXCEPT !.hash[r] = e]
    OBVIOUS
  <2> HIDE DEF V, i, r, c
  <2>3. /\ e \in HashType /\ e.allocated = c.allocated /\ e.offset = c.offset
        /\ e.n_views = i /\ e.n_children = c.n_children
    BY <2>1 DEF HashType
  <2> HIDE DEF e
  <2>4. /\ AllocType(V) /\ V.free = D.free /\ V.max_size = D.max_size
        /\ V.hash[r] = e /\ \A s \in Tensors : s # r => V.hash[s] = D.hash[s]
    BY <1>5, <2>1, <2>2, <2>3, EntrySet
  <2> QED BY <1>5, <2>1, <2>3, <2>4 DEF i, r, c
<1> HIDE DEF V
<1>7. \A t \in Tensors : D.hash[t].n_children = Cardinality(UsesIn(W, t))
  BY <1>1, <1>4, <1>5 DEF Counts
<1>8. \A t \in Tensors : D.hash[t].n_views = Cardinality(ViewsIn(U, t))
  BY <1>4, <1>5 DEF Counts
<1>9. /\ UsesIn(W, p) = {} <=> D.hash[p].n_children = 0
      /\ D.hash[p].n_views = 0 <=> ViewsIn(U, p) = {}
      /\ \A t \in Tensors : /\ Cardinality(UsesIn(W, t)) = 0 => UsesIn(W, t) = {}
                            /\ Cardinality(ViewsIn(W, t)) = 0 => ViewsIn(W, t) = {}
  BY <1>1, <1>7, <1>8, UsesFacts
<1>10. last <=> over /\ is_view(p)
  BY <1>1, <1>9
<1> HIDE DEF W
<1>11. ASSUME ~last PROVE Walk(D, W, k + 1)
  <2>1. Counts(D, W)
    BY <1>1, <1>7, <1>8, <1>11 DEF Counts
  <2> QED BY <1>5, <2>1, Recounted
<1>12. ASSUME last PROVE Walk(V, W, k + 1)
  <2>1. Counts(V, W)
    BY <1>1, <1>6, <1>7, <1>8, <1>12 DEF Counts
  <2> QED BY <1>6, <2>1, Recounted
<1>13. \A t : Past(W, t) => Past(From(k + 1), t)
  BY PastMonotone DEF W
<1>14. CASE ~over
  <2>1. ~last /\ Release(G, p) = D
    BY <1>2, <1>10, <1>14
  <2> QED BY <1>11, <2>1 DEF W, p
<1>15. CASE over /\ is_view(p)
  <2> DEFINE r == Root(p)
  <2>1. Walk(V, W, k + 1)
    BY <1>10, <1>12, <1>15
  <2>2. CASE h.n_views = 0 /\ h.n_children = 0 /\ h.allocated
    <3>1. UsesIn(Sites, r) # {} /\ r \in Tensors
      BY <1>1, <1>15, GraphFacts
    <3>2. Cardinality(UsesIn(W, r)) = 0 /\ Cardinality(ViewsIn(W, r)) = 0
      BY <2>1, <2>2, <3>1 DEF Walk, Counts
    <3>3. r \notin outputs => Past(From(k + 1), r)
      BY <1>9, <1>13, <3>1, <3>2 DEF Past
    <3>4. V.hash[r].allocated
      BY <2>2
    <3>5. Release(G, p) = free_node(V, r)
      BY <1>2, <1>15, <2>2
    <3> HIDE DEF r
    <3> QED BY <2>1, <3>1, <3>3, <3>4, <3>5, NodeFreed DEF W, p
  <2>3. CASE ~(h.n_views = 0 /\ h.n_children = 0 /\ h.allocated)
    <3>1. Release(G, p) = V
      BY <1>2, <1>15, <2>3
    <3> QED BY <2>1, <3>1 DEF W, p
  <2> QED BY <2>2, <2>3
<1>16. CASE over /\ ~is_view(p)
  <2>1. Walk(D, W, k + 1)
    BY <1>11, <1>16
  <2>2. CASE D.hash[p].allocated
    <3>1. UsesIn(W, p) = {} /\ ViewsIn(W, p) = {}
      <4>1. Cardinality(UsesIn(W, p)) = 0 /\ Cardinality(ViewsIn(W, p)) = 0
        BY <1>1, <1>16, <2>1 DEF Walk, Counts
      <4> QED BY <1>1, <1>9, <4>1
    <3>2. p \notin outputs => Past(From(k + 1), p)
      BY <1>3, <1>13, <3>1 DEF Past
    <3>3. Release(G, p) = free_node(D, p)
      BY <1>2, <1>16, <2>2
    <3>4. Walk(free_node(D, p), W, k + 1)
      BY <1>1, <2>1, <2>2, <3>2, NodeFreed
    <3> QED BY <3>3, <3>4 DEF W, p
  <2>3. CASE ~D.hash[p].allocated
    <3>1. Release(G, p) = D
      BY <1>2, <1>16, <2>3
    <3> QED BY <2>1, <3>1 DEF W, p
  <2> QED BY <2>2, <2>3
<1> QED BY <1>14, <1>15, <1>16

\* The parents of node k were used once more.
LEMMA ParentsReleased ==
  ASSUME GraphInv, n \in 0 .. MaxN, NEW k \in Tensors, NEW G, Walk(G, From(k), k + 1)
  PROVE  Walk(ForParents(Release, G, k), From(k + 1), k + 1)
<1>1. /\ k \in 0 .. Len(graph) + 1 /\ k \in Int /\ Len(src(k)) \in 0 .. 2 /\ DOMAIN src(k) = 1 .. Len(src(k))
  BY GraphFacts
<1>2. /\ From(k) \in SUBSET Sites /\ From(k + 1) \subseteq From(k)
      /\ From(k) \ From(k + 1) = {x \in Sites : x[1] = k}
  BY <1>1, FromFacts
<1>3. {x \in Sites : x[1] = k} = {<<k, i>> : i \in DOMAIN src(k)}
  <2>1. ASSUME NEW x \in Sites, x[1] = k PROVE x \in {<<k, i>> : i \in DOMAIN src(k)}
    <3>1. x = <<k, x[2]>> /\ x[2] \in DOMAIN src(k)
      BY <2>1 DEF Sites
    <3> QED BY <3>1
  <2>2. ASSUME NEW i \in DOMAIN src(k) PROVE <<k, i>> \in Sites /\ <<k, i>>[1] = k
    BY ParentUsed
  <2> QED BY <2>1, <2>2
<1>4. CASE Len(src(k)) = 0
  <2>0. DOMAIN src(k) = {}
    BY <1>1, <1>4
  <2>a. From(k) \ From(k + 1) = {}
    BY <1>2, <1>3, <2>0
  <2>1. From(k + 1) = From(k)
    BY <1>2, <2>a
  <2>2. ForParents(Release, G, k) = G
    BY <1>4 DEF ForParents
  <2> QED BY <2>1, <2>2
<1>5. CASE Len(src(k)) = 1
  <2> DEFINE x == <<k, 1>>
  <2>1. x \in From(k) /\ From(k) \ {x} = From(k + 1)
    BY <1>1, <1>2, <1>3, <1>5
  <2>2. Walk(Release(G, src(x[1])[x[2]]), From(k) \ {x}, k + 1)
    BY <1>2, <2>1, ChildDone
  <2>3. ForParents(Release, G, k) = Release(G, src(x[1])[x[2]])
    BY <1>5 DEF ForParents
  <2> QED BY <2>1, <2>2, <2>3
<1>6. CASE Len(src(k)) = 2
  <2> DEFINE x == <<k, 1>>
             y == <<k, 2>>
             U == From(k) \ {x}
             H == Release(G, src(x[1])[x[2]])
  <2>1. x \in From(k) /\ y \in U /\ U \ {y} = From(k + 1) /\ U \in SUBSET Sites
    BY <1>1, <1>2, <1>3, <1>6
  <2>2. Walk(H, U, k + 1)
    BY <1>2, <2>1, ChildDone
  <2>3. ForParents(Release, G, k) = Release(H, src(y[1])[y[2]])
    BY <1>6 DEF ForParents
  <2> HIDE DEF H, U
  <2>4. Walk(Release(H, src(y[1])[y[2]]), U \ {y}, k + 1)
    BY <2>1, <2>2, ChildDone
  <2> QED BY <2>1, <2>3, <2>4
<1> QED BY <1>1, <1>4, <1>5, <1>6

\* One round of the walk.
LEMMA RoundDone ==
  ASSUME GraphInv, n \in 0 .. MaxN, NEW k \in Tensors, NEW G, Walk(G, From(k), k)
  PROVE  Walk(ForParents(Release, allocate_node(ForParents(allocate_node, G, k), k), k), From(k + 1), k + 1)
<1>1. ForParents(allocate_node, G, k) = G
  BY ParentsAllocated
<1> DEFINE H == allocate_node(G, k)
<1>2. Walk(H, From(k), k + 1)
  BY NodeAllocated
<1> HIDE DEF H
<1>3. Walk(ForParents(Release, H, k), From(k + 1), k + 1)
  BY <1>2, ParentsReleased
<1> QED BY <1>1, <1>3 DEF H
-----------------------------------------------------------------------------
(***************************************************************************)
(* The steps of the program.                                               *)
(***************************************************************************)
\* What depends on the graph, its outputs and the number of tokens only.
LEMMA SameGraph ==
  ASSUME graph' = graph, outputs' = outputs
  PROVE  /\ Tensors' = Tensors /\ Nodes' = Nodes /\ Sites' = Sites /\ Owning' = Owning
         /\ \A t : src(t)' = src(t) /\ is_view(t)' = is_view(t) /\ Root(t)' = Root(t)
         /\ \A k : From(k)' = From(k)
         /\ \A U, t : UsesIn(U, t)' = UsesIn(U, t) /\ ViewsIn(U, t)' = ViewsIn(U, t)
         /\ \A U, t : Past(U, t)' <=> Past(U, t)
         /\ \A s, b, t, c : Compatible(s, b, t, c)' <=> Compatible(s, b, t, c)
         /\ \A t : Parent(t)' <=> Parent(t)
<1>1. Tensors' = Tensors /\ Nodes' = Nodes
  BY DEF Tensors, Nodes
<1>2. \A t : src(t)' = src(t) /\ is_view(t)' = is_view(t)
  BY DEF src, is_view
<1>3. \A t : Root(t)' = Root(t)
  BY <1>2 DEF Root
<1>4. Sites' = Sites /\ Owning' = Owning
  BY <1>1, <1>2 DEF Sites, Owning
<1>5. \A k : From(k)' = From(k)
  BY <1>4 DEF From
<1>6. \A U, t : UsesIn(U, t)' = UsesIn(U, t)
  BY <1>2 DEF UsesIn
<1>7. \A U, t : ViewsIn(U, t)' = ViewsIn(U, t)
  BY <1>1, <1>4, <1>6 DEF ViewsIn
<1>8. \A U, t : Past(U, t)' <=> Past(U, t)
  BY <1>4, <1>6, <1>7 DEF Past
<1>9. \A s, b, t, c : Compatible(s, b, t, c)' <=> Compatible(s, b, t, c)
  BY <1>5, <1>7, <1>8 DEF Compatible
<1>10. \A t : Parent(t)' <=> Parent(t)
  BY <1>2, <1>4, <1>6 DEF Parent
<1> QED BY <1>1, <1>2, <1>3, <1>4, <1>5, <1>6, <1>7, <1>8, <1>9, <1>10

\* What depends on the sizes too: the invariant of the walk.
LEMMA SameWalk ==
  ASSUME graph' = graph, outputs' = outputs, n' = n
  PROVE  /\ \A t : Size(t)' = Size(t)
         /\ \A G, U, k : Walk(G, U, k)' <=> Walk(G, U, k)
<1>1. \A t : Size(t)' = Size(t)
  BY DEF Size
<1>2. \A G, t : Place(G, t)' = Place(G, t)
  BY <1>1 DEF Place
<1>3. \A G : AllocType(G)' <=> AllocType(G)
  BY SameGraph DEF AllocType
<1>4. \A G, U : Counts(G, U)' <=> Counts(G, U)
  BY SameGraph DEF Counts
<1>5. \A G, k : Owned(G, k)' <=> Owned(G, k)
  BY SameGraph DEF Owned
<1>6. \A G : Divided(G)' <=> Divided(G)
  BY <1>2, SameGraph DEF Divided
<1>7. \A G, k : Placed(G, k)' <=> Placed(G, k)
  BY <1>2, SameGraph DEF Placed
<1> QED BY <1>1, <1>3, <1>4, <1>5, <1>6, <1>7 DEF Walk

\* A graph stays well formed.
LEMMA GraphKept ==
  ASSUME GraphInv, graph' = graph, outputs' = outputs, phase' = "build" => outputs' = {}
  PROVE  GraphInv'
<1>1. /\ Tensors' = Tensors /\ Nodes' = Nodes /\ Sites' = Sites
      /\ \A t : src(t)' = src(t) /\ is_view(t)' = is_view(t) /\ (Parent(t)' <=> Parent(t))
      /\ \A U, t : UsesIn(U, t)' = UsesIn(U, t)
  BY SameGraph
<1> QED BY <1>1 DEF GraphInv

\* A layout fits the graph it was measured for, whatever the number of tokens.
LEMMA LayoutKept ==
  ASSUME graph' = graph, outputs' = outputs, allocs' = allocs, buffer' = buffer, Layout
  PROVE  Layout'
<1>1. \A t : Kept(t)' = Kept(t)
  BY DEF Kept
<1>2. /\ Tensors' = Tensors /\ Owning' = Owning
      /\ \A s, b, t, c : Compatible(s, b, t, c)' <=> Compatible(s, b, t, c)
  BY SameGraph
<1> QED BY <1>1, <1>2 DEF Layout

\* At the start there are the inputs only.
LEMMA StartInv == Init => AllocInv
<1> SUFFICES ASSUME Init PROVE AllocInv
  OBVIOUS
<1> USE RoomFacts DEF Init
<1>1. /\ graph \in Seq(TensorType) /\ Len(graph) = NLeafs /\ DOMAIN graph = 1 .. NLeafs
      /\ \A t \in 1 .. NLeafs : src(t) = <<>> /\ ~is_view(t)
  <2>1. [op |-> "none", src |-> <<>>, view_src |-> 0, shape |-> "tokens"] \in TensorType
    BY DEF TensorType
  <2>2. graph \in [1 .. NLeafs -> TensorType]
    BY <2>1
  <2>3. graph \in Seq(TensorType) /\ Len(graph) = NLeafs
    BY <2>2
  <2> QED BY <2>3 DEF src, is_view
<1>2. Nodes = {}
  BY <1>1 DEF Nodes, Tensors
<1>3. GraphInv
  BY <1>1, <1>2 DEF GraphInv
<1>4. buffer \in 0 .. Room /\ mem \in [0 .. Room - 1 -> Nat]
  OBVIOUS
<1> QED BY <1>1, <1>3, <1>4 DEF AllocInv

\* A tensor more, with parents among those there are.
LEMMA GraphGrown ==
  ASSUME AllocInv, NEW op \in {"inplace", "view", "other"}, NEW shape \in {"tokens", "one"},
         NEW parents \in {<<p>> : p \in Tensors} \union Tensors \X Tensors, Add(op, parents, shape)
  PROVE  GraphInv'
<1>a. PICK l : l = Len(graph) + 1
  OBVIOUS
<1>b. PICK r : r = Root(parents[1])
  OBVIOUS
<1> DEFINE e == [op |-> op, src |-> parents, shape |-> shape,
                 view_src |-> IF op = "view" THEN r ELSE 0]
<1>1. GraphInv /\ phase = "build" /\ outputs = {}
  BY DEF AllocInv, Add, GraphInv
<1>2. graph' = Append(graph, e) /\ outputs' = {} /\ graph \in Seq(TensorType) /\ Len(graph) \in Nat
      /\ Tensors = 1 .. Len(graph) /\ l = Len(graph) + 1
  BY <1>1, <1>a, <1>b, GraphFacts DEF Add, GraphInv
<1>3. /\ parents \in Seq(Nat) /\ Len(parents) \in {1, 2} /\ DOMAIN parents = 1 .. Len(parents)
      /\ \A k \in DOMAIN parents : parents[k] \in Tensors /\ parents[k] \in 1 .. l - 1
      /\ 1 \in DOMAIN parents
  <2>0. \A p \in Tensors : p \in Nat /\ p \in 1 .. l - 1
    BY <1>2
  <2>1. ASSUME NEW p \in Tensors, parents = <<p>>
        PROVE  /\ parents \in Seq(Nat) /\ Len(parents) = 1 /\ DOMAIN parents = 1 .. 1
               /\ parents[1] \in Tensors
    BY <2>0, <2>1
  <2>2. ASSUME NEW p \in Tensors, NEW q \in Tensors, parents = <<p, q>>
        PROVE  /\ parents \in Seq(Nat) /\ Len(parents) = 2 /\ DOMAIN parents = 1 .. 2
               /\ parents[1] \in Tensors /\ parents[2] \in Tensors
    BY <2>0, <2>2
  <2>3. CASE \E p \in Tensors : parents = <<p>>
    BY <2>0, <2>1, <2>3
  <2>4. CASE \E p, q \in Tensors : parents = <<p, q>>
    BY <2>0, <2>2, <2>4
  <2>5. parents \in Tensors \X Tensors => \E p, q \in Tensors : parents = <<p, q>>
    OBVIOUS
  <2> QED BY <2>3, <2>4, <2>5
<1>4. r \in Owning /\ r \in Tensors /\ r \in 1 .. l - 1
  BY <1>1, <1>2, <1>3, <1>b, GraphFacts
<1>5. e \in TensorType /\ e.src = parents /\ e.view_src = IF op = "view" THEN r ELSE 0
  <2> DEFINE v == IF op = "view" THEN r ELSE 0
  <2>1. v \in Nat
    BY <1>2, <1>4
  <2> HIDE DEF v
  <2>2. [op |-> op, src |-> parents, shape |-> shape, view_src |-> v] \in TensorType
    BY <1>3, <2>1 DEF TensorType
  <2> QED BY <2>2 DEF v
<1> HIDE DEF e
<1>6. /\ graph' \in Seq(TensorType) /\ Len(graph') = l /\ DOMAIN graph' = 1 .. l
      /\ graph'[l] = e /\ \A t \in 1 .. Len(graph) : graph'[t] = graph[t]
  BY <1>2, <1>5
<1>7. NLeafs \in Nat \ {0} /\ NNodes \in Nat /\ Len(graph) >= NLeafs /\ Nodes = NLeafs + 1 .. Len(graph)
  BY <1>1, GraphFacts, GraphAssumption DEF GraphInv
<1>8. Len(graph') \in NLeafs .. NLeafs + NNodes
  <2>1. Cardinality(NLeafs + 1 .. Len(graph)) = Len(graph) - NLeafs
    <3>1. NLeafs + 1 \in Int /\ Len(graph) \in Int
      BY <1>2, <1>7
    <3>2. \A i, j \in Int : Cardinality(i .. j) = IF i > j THEN 0 ELSE j - i + 1
      BY FS_Interval
    <3>3. Cardinality(NLeafs + 1 .. Len(graph)) =
            IF NLeafs + 1 > Len(graph) THEN 0 ELSE Len(graph) - (NLeafs + 1) + 1
      BY <3>1, <3>2
    <3> QED BY <1>2, <1>7, <3>3
  <2>2. Cardinality(Nodes) < NNodes
    BY DEF Add
  <2> QED BY <1>2, <1>6, <1>7, <2>1, <2>2
<1>9. Tensors' = 1 .. l /\ Nodes' = NLeafs + 1 .. l
  BY <1>2, <1>6, <1>7 DEF Tensors, Nodes
<1>10. \A t \in Tensors : src(t)' = src(t) /\ is_view(t)' = is_view(t) /\ graph'[t].view_src = graph[t].view_src
  BY <1>2, <1>6 DEF src, is_view
<1>11. src(l)' = parents /\ (is_view(l)' => op = "view" /\ graph'[l].view_src = r)
  <2>1. src(l)' = parents
    BY <1>5, <1>6 DEF src
  <2>2. graph'[l].view_src = IF op = "view" THEN r ELSE 0
    BY <1>5, <1>6
  <2>3. is_view(l)' => graph'[l].view_src # 0
    BY <1>2 DEF is_view
  <2> QED BY <2>1, <2>2, <2>3
<1>12. \A x \in Sites : x \in Sites' /\ x[1] \in Tensors /\ src(x[1])' = src(x[1])
  BY <1>2, <1>7, <1>9, <1>10 DEF Sites
<1>13. \A t : UsesIn(Sites, t) # {} => UsesIn(Sites, t)' # {}
  BY <1>12 DEF UsesIn
<1>14. \A t \in 1 .. NLeafs : src(t)' = <<>> /\ ~is_view(t)'
  BY <1>1, <1>2, <1>7, <1>10 DEF GraphInv
<1>15. ASSUME NEW t \in Nodes' PROVE Parent(t)'
  <2>1. CASE t \in Nodes
    <3>1. Parent(t) /\ t \in Tensors /\ t - 1 \in Int /\ t - 1 <= Len(graph)
      BY <1>1, <1>2, <1>7, <2>1, GraphFacts DEF GraphInv
    <3>2. is_view(t) => graph[t].view_src \in Tensors
      BY <1>2, <3>1 DEF Parent
    <3> QED BY <1>10, <1>13, <3>1, <3>2 DEF Parent
  <2>2. CASE t = l
    <3>1. <<l, 1>> \in Sites'
      <4>1. l \in Nodes' /\ 1 \in 1 .. 2 /\ <<l, 1>>[1] = l /\ <<l, 1>>[2] = 1
        BY <1>2, <1>7, <1>9
      <4>2. 1 \in DOMAIN src(l)'
        BY <1>3, <1>11
      <4> QED BY <4>1, <4>2 DEF Sites
    <3>2. <<l, 1>> \in UsesIn(Sites, parents[1])'
      <4>1. src(<<l, 1>>[1])'[<<l, 1>>[2]] = parents[1]
        BY <1>11
      <4> QED BY <3>1, <4>1 DEF UsesIn
    <3>3. UsesIn(Sites, r) # {} \/ r = parents[1]
      <4>1. CASE is_view(parents[1])
        BY <1>1, <1>3, <1>b, <4>1, GraphFacts
      <4>2. CASE ~is_view(parents[1])
        BY <1>b, <4>2 DEF Root
      <4> QED BY <4>1, <4>2
    <3>4. UsesIn(Sites, r)' # {}
      BY <1>13, <3>2, <3>3
    <3>5. ~is_view(r)'
      BY <1>4, <1>10 DEF Owning
    <3> QED BY <1>3, <1>4, <1>11, <2>2, <3>4, <3>5 DEF Parent
  <2>3. t \in Nodes \/ t = l
    <3>1. t \in NLeafs + 1 .. l
      BY <1>9
    <3> QED BY <1>2, <1>7, <3>1
  <2> QED BY <2>1, <2>2, <2>3
<1> QED BY <1>2, <1>6, <1>8, <1>14, <1>15 DEF GraphInv

\* Until a graph is built nothing is laid out.
LEMMA AddStep ==
  ASSUME AllocInv, NEW op \in {"inplace", "view", "other"}, NEW shape \in {"tokens", "one"},
         NEW parents \in {<<p>> : p \in Tensors} \union Tensors \X Tensors, Add(op, parents, shape)
  PROVE  AllocInv'
<1>1. GraphInv'
  BY GraphGrown
<1>2. Len(graph') = Len(graph) + 1 /\ Len(graph) \in Nat
  <2>1. graph \in Seq(TensorType)
    BY DEF AllocInv, GraphInv
  <2> QED BY <2>1 DEF Add
<1>3. /\ phase = "build" /\ phase' = "build" /\ next' = next /\ n' = n /\ buffer' = buffer /\ mem' = mem
      /\ allocs' = allocs /\ galloc' = galloc
  BY DEF Add
<1>4. next' \in 0 .. Len(graph') + 1
  BY <1>2, <1>3 DEF AllocInv
<1> QED BY <1>1, <1>3, <1>4 DEF AllocInv

\* The graph is complete, and gets its outputs.
LEMMA BuiltStep ==
  ASSUME AllocInv, NEW O \in SUBSET Nodes, Built(O)
  PROVE  AllocInv'
<1>1. /\ phase = "build" /\ phase' = "built" /\ outputs' = O /\ graph' = graph /\ n' = n /\ next' = next
      /\ galloc' = galloc /\ allocs' = allocs /\ buffer' = buffer /\ mem' = mem
      /\ \A t \in O : is_view(t) => ~Used(t)
  BY DEF Built
<1>2. ASSUME NEW t \in O, is_view(t) PROVE UsesIn(Sites, t) = {}
  <2>1. ASSUME NEW x \in Sites, src(x[1])[x[2]] = t PROVE FALSE
    <3>1. x[1] \in Nodes /\ t \in Range(src(x[1]))
      BY <2>1 DEF Sites, Range
    <3>2. \E u \in Nodes : t \in Range(src(u))
      BY <3>1
    <3>3. Used(t)
      BY <3>2 DEF Used
    <3> QED BY <1>1, <1>2, <3>3
  <2> QED BY <2>1 DEF UsesIn
<1>3. /\ Tensors' = Tensors /\ Nodes' = Nodes /\ Sites' = Sites
      /\ \A t : src(t)' = src(t) /\ is_view(t)' = is_view(t)
  BY <1>1 DEF Tensors, Nodes, Sites, src, is_view
<1>4. \A U, t : UsesIn(U, t)' = UsesIn(U, t)
  BY <1>3 DEF UsesIn
<1>5. \A t : Parent(t)' <=> Parent(t)
  BY <1>1, <1>3, <1>4 DEF Parent
<1>6. GraphInv'
  BY <1>1, <1>2, <1>3, <1>4, <1>5 DEF GraphInv, AllocInv
<1> QED BY <1>1, <1>6 DEF AllocInv

\* The same graph for another number of tokens.
LEMMA RebuildStep ==
  ASSUME AllocInv, NEW k \in 0 .. MaxN, Rebuild(k)
  PROVE  AllocInv'
<1>1. /\ phase \in {"built", "compute"} /\ phase' = "built" /\ next' = 0 /\ n' = k
      /\ graph' = graph /\ outputs' = outputs /\ galloc' = galloc /\ allocs' = allocs /\ buffer' = buffer
      /\ mem' = [a \in 0 .. Room - 1 |-> 0]
  BY DEF Rebuild
<1>2. GraphInv' /\ Len(graph) \in Nat
  BY <1>1, GraphKept, GraphFacts DEF AllocInv
<1>3. Layout => Layout'
  BY <1>1, LayoutKept
<1>4. mem' \in [0 .. Room - 1 -> Nat]
  BY <1>1
<1> QED BY <1>1, <1>2, <1>3, <1>4 DEF AllocInv

\* Before the walk all uses and views are to come, and all the memory is free.
LEMMA WalkStart ==
  ASSUME GraphInv
  PROVE  Walk([Reset EXCEPT !.hash = Counted], From(1), 1)
<1> DEFINE b == [offset |-> 0, size |-> Room]
           G == [Reset EXCEPT !.hash = Counted]
<1>1. G = [hash |-> Counted, free |-> <<b>>, max_size |-> 0]
  BY DEF Reset
<1>2. G.hash = Counted /\ G.free = <<b>> /\ G.max_size = 0
  BY <1>1
<1>3. From(1) = Sites
  <2>1. 1 \in 0 .. Len(graph) + 1
    BY GraphFacts
  <2> QED BY <2>1, FromFacts
<1>4. \A t \in Tensors :
        /\ Counted[t] = [n_children |-> Cardinality(UsesIn(Sites, t)), n_views |-> Cardinality(ViewsIn(Sites, t)),
                         offset |-> 0, allocated |-> FALSE]
  <2> TAKE t \in Tensors
  <2>1. {x \in Nodes \X (1 .. 2) : x[2] \in DOMAIN src(x[1]) /\ src(x[1])[x[2]] = t} = UsesIn(Sites, t)
    BY DEF Sites, UsesIn
  <2>2. {v \in Nodes : graph[v].view_src = t} = ViewsIn(Sites, t)
    BY DEF ViewsIn
  <2> QED BY <2>1, <2>2, Zenon DEF Counted
<1>5. \A t \in Tensors :
        /\ Counted[t] \in HashType /\ Counted[t].offset = 0 /\ ~Counted[t].allocated
        /\ Counted[t].n_children = Cardinality(UsesIn(Sites, t))
        /\ Counted[t].n_views = Cardinality(ViewsIn(Sites, t))
  <2> TAKE t \in Tensors
  <2>1. Cardinality(UsesIn(Sites, t)) \in Int /\ Cardinality(ViewsIn(Sites, t)) \in Int
    BY UsesFacts
  <2> DEFINE i == Cardinality(UsesIn(Sites, t))
             j == Cardinality(ViewsIn(Sites, t))
             c == [n_children |-> i, n_views |-> j, offset |-> 0, allocated |-> FALSE]
  <2>2. Counted[t] = c
    BY <1>4
  <2>3. i \in Int /\ j \in Int
    BY <2>1
  <2> HIDE DEF i, j
  <2>4. c \in HashType /\ c.offset = 0 /\ ~c.allocated /\ c.n_children = i /\ c.n_views = j
    BY <2>3 DEF HashType
  <2> QED BY <2>2, <2>4 DEF i, j
<1>6. FreeList(<<b>>)
  <2>1. b \in Block /\ End(b) = Room
    BY RoomFacts DEF Block, End
  <2> HIDE DEF b
  <2>2. <<b>> \in Seq(Block) /\ DOMAIN <<b>> = {1} /\ <<b>>[1] = b
    BY <2>1
  <2> QED BY <2>1, <2>2, RoomFacts DEF FreeList, Separate
<1>7. AllocType(G)
  <2>1. Counted \in [Tensors -> HashType]
    <3>1. Counted = [t \in Tensors |-> Counted[t]]
      BY DEF Counted
    <3> QED BY <1>5, <3>1
  <2> HIDE DEF b, G
  <2> QED BY <1>1, <1>6, <2>1, RoomFacts DEF AllocType
<1> HIDE DEF G
<1>8. Counts(G, From(1))
  BY <1>2, <1>3, <1>5 DEF Counts
<1>9. \A t \in Owning : t \in Tensors /\ ~(t < 1)
  BY GraphFacts, RoomFacts
<1>10. Owned(G, 1)
  BY <1>2, <1>5, <1>9 DEF Owned
<1>11. Placed(G, 1)
  BY <1>9 DEF Placed
<1>12. Divided(G)
  <2>1. \A a \in 0 .. Room - 1 : In(a, b)
    BY RoomFacts DEF In
  <2>2. DOMAIN G.free = {1} /\ G.free[1] = b
    BY <1>2
  <2> HIDE DEF b
  <2> QED BY <1>2, <1>5, <2>1, <2>2 DEF Divided, IsFree
<1>13. RoomLeft(G, 1)
  <2>1. 1 \in DOMAIN G.free /\ G.free[1].offset = 0 /\ End(G.free[1]) = Room
    BY <1>2, RoomFacts DEF End
  <2>2. 0 + MaxN + 1 <= 1 * (MaxN + 1)
    BY RoomFacts
  <2> QED BY <2>1, <2>2 DEF RoomLeft
<1>14. Walk(G, From(1), 1)
  BY <1>7, <1>8, <1>10, <1>11, <1>12, <1>13, WalkParts
<1> QED BY <1>14 DEF G

\* The walk starts.
LEMMA ReserveStep == ASSUME AllocInv, Reserve PROVE AllocInv'
<1>1. /\ phase = "built" /\ phase' = "measure" /\ next' = 1 /\ galloc' = [Reset EXCEPT !.hash = Counted]
      /\ graph' = graph /\ outputs' = outputs /\ n' = n /\ allocs' = allocs /\ buffer' = buffer /\ mem' = mem
  BY DEF Reserve
<1>2. GraphInv' /\ GraphInv /\ Len(graph) \in Nat
  BY <1>1, GraphKept, GraphFacts DEF AllocInv
<1>3. Layout => Layout'
  BY <1>1, LayoutKept
<1>4. Walk(galloc', From(next'), next')
  BY <1>1, <1>2, WalkStart
<1>5. Walk(galloc, From(next), next)'
  BY <1>1, <1>4, SameWalk, SameGraph
<1>6. next' \in 0 .. Len(graph') + 1 /\ next' >= 1
  BY <1>1, <1>2
<1> QED BY <1>1, <1>2, <1>3, <1>5, <1>6 DEF AllocInv

\* The walk goes on.
LEMMA MeasureStep == ASSUME AllocInv, Measure PROVE AllocInv'
<1>1. /\ phase = "measure" /\ phase' = "measure" /\ next <= Len(graph) /\ next' = next + 1
      /\ graph' = graph /\ outputs' = outputs /\ n' = n /\ allocs' = allocs /\ buffer' = buffer /\ mem' = mem
      /\ galloc' = ForParents(Release, allocate_node(ForParents(allocate_node, galloc, next), next), next)
  BY DEF Measure
<1>2. /\ GraphInv' /\ GraphInv /\ Len(graph) \in Nat /\ n \in 0 .. MaxN
      /\ next \in Tensors /\ next \in Nat /\ next >= 1 /\ Walk(galloc, From(next), next)
  BY <1>1, GraphKept, GraphFacts DEF AllocInv
<1>3. Layout => Layout'
  BY <1>1, LayoutKept
<1>4. Walk(galloc', From(next'), next')
  BY <1>1, <1>2, RoundDone
<1>5. Walk(galloc, From(next), next)'
  BY <1>1, <1>4, SameWalk, SameGraph
<1>6. next' \in 0 .. Len(graph') + 1 /\ next' >= 1
  BY <1>1, <1>2
<1> QED BY <1>1, <1>2, <1>3, <1>5, <1>6 DEF AllocInv

\* What was placed is kept, and the buffer is large enough for it.
LEMMA ReservedStep == ASSUME AllocInv, Reserved PROVE AllocInv'
<1>1. /\ phase = "measure" /\ phase' = "built" /\ next > Len(graph) /\ next' = 0 /\ galloc' = Reset
      /\ graph' = graph /\ outputs' = outputs /\ n' = n /\ mem' = mem
      /\ buffer' = Max({buffer, galloc.max_size})
      /\ allocs' = [t \in Tensors |-> IF is_view(t) THEN [offset |-> -1, size_max |-> 0]
                                      ELSE [offset |-> galloc.hash[t].offset, size_max |-> Size(t)]]
  BY DEF Reserved
<1>2. /\ GraphInv' /\ GraphInv /\ Len(graph) \in Nat /\ n \in 0 .. MaxN
      /\ Walk(galloc, From(next), next) /\ next \in Nat
      /\ \A t \in Owning : t \in Tensors /\ t < next
  <2>1. /\ GraphInv' /\ GraphInv /\ n \in 0 .. MaxN /\ next \in 0 .. Len(graph) + 1 /\ Walk(galloc, From(next), next)
    BY <1>1, GraphKept DEF AllocInv
  <2>2. Len(graph) \in Nat /\ Tensors = 1 .. Len(graph) /\ \A t \in Owning : t \in Tensors
    BY <2>1, GraphFacts
  <2> QED BY <1>1, <2>1, <2>2
<1>3. AllocType(galloc) /\ Placed(galloc, next)
  BY <1>2 DEF Walk
<1>4. buffer \in 0 .. Room /\ Room \in Nat /\ galloc.max_size \in 0 .. Room
  BY <1>3, AllocFacts DEF AllocInv
<1>5. buffer' \in 0 .. Room /\ galloc.max_size <= buffer'
  <2>1. {buffer, galloc.max_size} \in SUBSET (0 .. Room)
    BY <1>4
  <2>2. buffer' \in {buffer, galloc.max_size} /\ buffer' >= galloc.max_size
    BY <1>1, <1>4, <2>1, MaxFacts
  <2> QED BY <1>4, <2>2
<1>6. ASSUME NEW t \in Owning
      PROVE  /\ Kept(t)' = Place(galloc, t)
             /\ Place(galloc, t) \in Block /\ End(Place(galloc, t)) <= galloc.max_size
             /\ allocs'[t].size_max = Size(t)
  <2>1. t \in Tensors /\ ~is_view(t)
    BY DEF Owning
  <2>2. allocs'[t] = [offset |-> galloc.hash[t].offset, size_max |-> Size(t)]
    BY <1>1, <2>1
  <2>3. Kept(t)' = Place(galloc, t) /\ allocs'[t].size_max = Size(t)
    BY <2>2 DEF Kept, Place
  <2>4. Place(galloc, t) \in Block
    <3>1. galloc.hash[t].offset \in Nat /\ Size(t) \in Nat
      BY <1>2, <1>3, <2>1, AllocFacts, SizeFacts
    <3> QED BY <3>1 DEF Place, Block
  <2> QED BY <1>2, <1>3, <2>3, <2>4 DEF Placed
<1>7. ASSUME NEW t \in Owning PROVE End(Place(galloc, t)) <= buffer'
  <2>1. End(Place(galloc, t)) \in Nat
    BY <1>6 DEF Block, End
  <2> QED BY <1>4, <1>5, <1>6, <2>1
<1>8. \A s, t \in Owning : s < t => Compatible(s, Place(galloc, s), t, Place(galloc, t))
  BY <1>2, <1>3 DEF Placed
<1>9. Layout'
  <2>1. DOMAIN allocs' = Tensors
    BY <1>1
  <2>2. /\ Tensors' = Tensors /\ Owning' = Owning
        /\ \A s, b, t, c : Compatible(s, b, t, c)' <=> Compatible(s, b, t, c)
    BY <1>1, SameGraph
  <2>3. \A t \in Owning : Kept(t)' \in Block /\ End(Kept(t)') <= buffer'
    BY <1>6, <1>7
  <2>4. \A t \in Owning : graph'[t].shape = "one" => allocs'[t].size_max = 1
    BY <1>1, <1>6 DEF Size
  <2>5. \A s, t \in Owning : s < t => Compatible(s, Kept(s)', t, Kept(t)')
    BY <1>6, <1>8
  <2>6. \A s, t \in Owning : s < t => Compatible(s, Kept(s), t, Kept(t))'
    BY <2>2, <2>5
  <2> QED BY <2>1, <2>2, <2>3, <2>4, <2>6 DEF Layout, End
<1> QED BY <1>1, <1>2, <1>5, <1>9 DEF AllocInv

\* If no node and no source has grown, nothing has.
LEMMA NothingGrown ==
  ASSUME AllocInv, LeafInv, phase = "built", ~needs_realloc, NEW t \in Owning
  PROVE  Size(t) <= allocs[t].size_max
<1>1. /\ GraphInv /\ Tensors = 1 .. Len(graph) /\ Len(graph) \in Nat /\ NLeafs \in Nat \ {0}
      /\ t \in Tensors /\ ~is_view(t) /\ allocs # NoAllocs /\ Layout
  BY GraphFacts, RoomFacts DEF AllocInv, Owning, needs_realloc
<1>2. \A s \in Owning : Size(s) \in Nat /\ allocs[s].size_max \in Nat
  <2> TAKE s \in Owning
  <2>1. Kept(s) \in Block
    BY <1>1 DEF Layout
  <2> QED BY <2>1, SizeFacts DEF AllocInv, Owning, Kept, Block
<1>3. CASE t \in Nodes
  BY <1>1, <1>2, <1>3 DEF needs_realloc
<1>4. CASE t \notin Nodes
  <2> DEFINE m == NLeafs + 1
  <2>1. m \in Nodes /\ t \in 1 .. NLeafs
    <3>1. PICK k \in Nodes : TRUE
      BY DEF LeafInv
    <3> QED BY <1>1, <1>4, <3>1 DEF Nodes
  <2>2. 1 \in DOMAIN src(m) /\ src(m)[1] \in 1 .. NLeafs
    <3>1. Len(src(m)) \in {1, 2} /\ \A k \in DOMAIN src(m) : src(m)[k] \in 1 .. m - 1
      BY <1>1, <2>1 DEF GraphInv, Parent
    <3>2. src(m) \in Seq(Nat)
      <4>1. graph \in Seq(TensorType) /\ m \in DOMAIN graph
        BY <1>1, <2>1 DEF GraphInv, Nodes, Tensors
      <4>2. graph[m] \in TensorType
        BY <4>1
      <4> QED BY <4>2 DEF src, TensorType
    <3>3. 1 \in DOMAIN src(m)
      BY <3>1, <3>2
    <3>4. m - 1 = NLeafs
      BY <1>1
    <3> QED BY <3>1, <3>3, <3>4
  <2> DEFINE l == src(m)[1]
  <2> HIDE DEF m
  <2>3. l \in Range(src(m))
    BY <2>2 DEF Range
  <2> HIDE DEF l
  <2>4. l \in UNION {Range(src(u)) : u \in Nodes} /\ l \in Tensors /\ ~is_view(l)
    <3>1. l \in 1 .. NLeafs
      BY <2>2 DEF l
    <3> QED BY <1>1, <2>1, <2>3, <3>1 DEF GraphInv
  <2>5. Size(l) <= allocs[l].size_max
    BY <1>2, <2>4 DEF needs_realloc, Owning
  <2>6. Size(l) = n /\ Size(t) = n /\ allocs[l].size_max = allocs[t].size_max
    <3>1. l \in 1 .. NLeafs
      BY <2>2 DEF l
    <3> QED BY <1>1, <2>1, <3>1 DEF LeafInv, Size
  <2> QED BY <2>5, <2>6
<1> QED BY <1>3, <1>4

\* The offsets that were measured are used if no tensor has grown.
LEMMA AllocGraphStep == ASSUME AllocInv, LeafInv, AllocGraph PROVE AllocInv'
<1>1. /\ phase = "built" /\ phase' = "compute" /\ next' = 1 /\ ~needs_realloc
      /\ graph' = graph /\ outputs' = outputs /\ n' = n /\ galloc' = galloc /\ allocs' = allocs
      /\ buffer' = buffer /\ mem' = mem
  BY DEF AllocGraph
<1>2. GraphInv' /\ GraphInv /\ Len(graph) \in Nat
  BY <1>1, GraphKept, GraphFacts DEF AllocInv
<1>3. allocs # NoAllocs /\ Layout /\ Layout'
  BY <1>1, LayoutKept DEF AllocInv, needs_realloc
<1>4. \A t \in Owning : Size(t) <= allocs[t].size_max
  BY <1>1, NothingGrown
<1>5. \A t \in Owning : t \in Nat /\ t >= 1
  BY <1>2, GraphFacts
<1>6. Computing'
  <2>1. Owning' = Owning /\ \A t : Size(t)' = Size(t)
    BY <1>1, SameGraph, SameWalk
  <2> QED BY <1>1, <1>4, <1>5, <2>1 DEF Computing
<1>7. next' \in 0 .. Len(graph') + 1
  BY <1>1, <1>2
<1> QED BY <1>1, <1>2, <1>3, <1>6, <1>7 DEF AllocInv

\* Where the tensors are while a graph is computed.
LEMMA CellFacts ==
  ASSUME AllocInv, phase = "compute", NEW t \in Owning
  PROVE  /\ t \in Tensors /\ Root(t) = t /\ Addr(t) = allocs[t].offset
         /\ Addr(t) \in Nat /\ Size(t) \in Nat /\ allocs[t].size_max \in Nat
         /\ Size(t) <= allocs[t].size_max /\ Addr(t) + allocs[t].size_max <= buffer /\ buffer \in 0 .. Room
         /\ Cells(t) = Addr(t) .. Addr(t) + Size(t) - 1
         /\ Cells(t) \subseteq 0 .. buffer - 1 /\ Cells(t) \subseteq DOMAIN mem
         /\ \A a \in Cells(t) : a \in Nat /\ In(a, Kept(t))
<1>1. GraphInv /\ n \in 0 .. MaxN /\ Layout /\ Computing /\ buffer \in 0 .. Room /\ DOMAIN mem = 0 .. Room - 1
  BY DEF AllocInv
<1>2. t \in Tensors /\ Root(t) = t
  BY <1>1, GraphFacts
<1>3. Addr(t) = allocs[t].offset
  BY <1>2 DEF Addr
<1>4. Kept(t) \in Block /\ End(Kept(t)) <= buffer
  BY <1>1 DEF Layout
<1>5. allocs[t].offset \in Nat /\ allocs[t].size_max \in Nat /\ allocs[t].offset + allocs[t].size_max <= buffer
  BY <1>4 DEF Kept, Block, End
<1>6. Size(t) \in Nat /\ Size(t) <= allocs[t].size_max
  BY <1>1, SizeFacts DEF Computing
<1>7. Cells(t) = Addr(t) .. Addr(t) + Size(t) - 1
  BY <1>2 DEF Cells
<1>8. Room \in Nat
  BY RoomFacts
<1>9. \A a \in Cells(t) : a \in Nat /\ In(a, Kept(t)) /\ a \in 0 .. buffer - 1 /\ a \in 0 .. Room - 1
  BY SMTT(40), <1>1, <1>3, <1>5, <1>6, <1>7, <1>8 DEF In, Kept
<1> QED BY <1>1, <1>2, <1>3, <1>5, <1>6, <1>7, <1>9

\* What a node overwrites is past when it was computed.
LEMMA ComputeStep == ASSUME AllocInv, Compute PROVE AllocInv'
<1>1. /\ phase = "compute" /\ phase' = "compute" /\ next <= Len(graph) /\ next' = next + 1
      /\ graph' = graph /\ outputs' = outputs /\ n' = n /\ galloc' = galloc /\ allocs' = allocs
      /\ buffer' = buffer /\ mem' = IF is_view(next) THEN mem ELSE Write(mem, next)
  BY DEF Compute
<1>2. /\ GraphInv' /\ GraphInv /\ Len(graph) \in Nat /\ n \in 0 .. MaxN
      /\ next \in Tensors /\ next \in Nat /\ next >= 1 /\ allocs # NoAllocs /\ Layout /\ Computing
      /\ next \in 0 .. Len(graph) + 1
      /\ \A t \in Owning : t \in Nat /\ t \in Tensors
  BY <1>1, GraphKept, GraphFacts DEF AllocInv
<1>3. Layout'
  BY <1>1, <1>2, LayoutKept
<1>4. mem' = [a \in DOMAIN mem |-> IF ~is_view(next) /\ a \in Cells(next) THEN next ELSE mem[a]]
  BY <1>1 DEF Write, AllocInv
<1>5. mem' \in [0 .. Room - 1 -> Nat]
  BY <1>2, <1>4 DEF AllocInv
<1>6. ASSUME NEW t \in Owning, t < next + 1
      PROVE  Past(From(next + 1), t) \/ \A a \in Cells(t) : mem'[a] = t
  <2>0. /\ Root(t) = t /\ Cells(t) \subseteq DOMAIN mem
        /\ \A a \in Cells(t) : a \in Nat /\ In(a, Kept(t))
    BY <1>1, CellFacts
  <2>1. CASE t = next
    BY <1>4, <2>0, <2>1 DEF Owning
  <2>2. CASE t # next
    <3>1. t < next
      BY <1>2, <1>6, <2>2
    <3>2. Past(From(next), t) => Past(From(next + 1), t)
      BY <1>2, PastNext
    <3>3. CASE Past(From(next), t)
      BY <3>2, <3>3
    <3>4. CASE ~Past(From(next), t)
      <4>1. \A a \in Cells(t) : mem[a] = t
        BY <1>2, <2>0, <3>1, <3>4 DEF Computing, Holds
      <4>2. CASE is_view(next)
        BY <1>4, <2>0, <4>1, <4>2
      <4>3. CASE ~is_view(next)
        <5>1. next \in Owning
          BY <1>2, <4>3 DEF Owning
        <5>2. Compatible(t, Kept(t), next, Kept(next))
          BY <1>2, <3>1, <5>1 DEF Layout
        <5>3. CASE Disjoint(Kept(t), Kept(next))
          <6>1. \A a \in Cells(next) : a \in Nat /\ In(a, Kept(next))
            BY <1>1, <5>1, CellFacts
          <6>2. \A a \in Cells(t) : a \notin Cells(next)
            BY <2>0, <5>3, <6>1 DEF Disjoint
          <6> QED BY <1>4, <2>0, <4>1, <6>2
        <5>4. CASE Past(From(next + 1), t)
          BY <5>4
        <5> QED BY <3>4, <5>2, <5>3, <5>4 DEF Compatible
      <4> QED BY <4>2, <4>3
    <3> QED BY <3>3, <3>4
  <2> QED BY <2>1, <2>2
<1>7. Computing'
  <2>1. /\ Owning' = Owning /\ \A t : Size(t)' = Size(t) /\ Root(t)' = Root(t)
        /\ \A U, t : Past(U, t)' <=> Past(U, t)
        /\ \A k : From(k)' = From(k)
    BY <1>1, SameGraph, SameWalk
  <2>2. \A t : Cells(t)' = Cells(t)
    BY <1>1, <2>1 DEF Cells, Addr
  <2>3. \A t \in Owning : Root(t) = t
    BY <1>2, GraphFacts
  <2>4. \A t \in Owning : t < next + 1 => Past(From(next + 1), t) \/ Holds(t)'
    BY <1>6, <2>1, <2>2, <2>3 DEF Holds
  <2>5. \A t \in Owning : t < next' => Past(From(next'), t) \/ Holds(t)'
    BY <1>1, <2>4
  <2>6. \A t \in Owning : Size(t) <= allocs'[t].size_max
    BY <1>1, <1>2 DEF Computing
  <2> QED BY <2>1, <2>5, <2>6 DEF Computing
<1>8. next' \in 0 .. Len(graph') + 1 /\ next' >= 1
  BY <1>1, <1>2
<1> QED BY <1>1, <1>2, <1>3, <1>5, <1>7, <1>8 DEF AllocInv

\* Every step of the program keeps the invariant.
LEMMA StepInv == AllocInv /\ LeafInv /\ [Next]_vars => AllocInv'
<1> SUFFICES ASSUME AllocInv, LeafInv, [Next]_vars PROVE AllocInv'
  OBVIOUS
<1>1. ASSUME NEW op \in {"inplace", "view", "other"}, NEW shape \in {"tokens", "one"},
             NEW parents \in {<<p>> : p \in Tensors} \union Tensors \X Tensors, Add(op, parents, shape)
      PROVE  AllocInv'
  BY <1>1, AddStep
<1>2. ASSUME NEW O \in SUBSET Nodes, Built(O) PROVE AllocInv'
  BY <1>2, BuiltStep
<1>3. ASSUME NEW k \in 0 .. MaxN, Rebuild(k) PROVE AllocInv'
  BY <1>3, RebuildStep
<1>4. CASE Reserve
  BY <1>4, ReserveStep
<1>5. CASE Measure
  BY <1>5, MeasureStep
<1>6. CASE Reserved
  BY <1>6, ReservedStep
<1>7. CASE AllocGraph
  BY <1>7, AllocGraphStep
<1>8. CASE Compute
  BY <1>8, ComputeStep
<1>9. CASE UNCHANGED vars
  <2>1. /\ graph' = graph /\ outputs' = outputs /\ n' = n /\ phase' = phase /\ next' = next /\ galloc' = galloc
        /\ allocs' = allocs /\ buffer' = buffer /\ mem' = mem
    BY <1>9 DEF vars
  <2>2. GraphInv'
    BY <2>1, GraphKept DEF AllocInv, GraphInv
  <2>3. Layout => Layout'
    BY <2>1, LayoutKept
  <2>4. phase = "measure" => Walk(galloc, From(next), next)'
    BY <2>1, SameGraph, SameWalk DEF AllocInv
  <2>5. Computing => Computing'
    <3>1. /\ Owning' = Owning /\ \A t : Size(t)' = Size(t) /\ Root(t)' = Root(t)
          /\ \A U, t : Past(U, t)' <=> Past(U, t)
          /\ \A k : From(k)' = From(k)
      BY <2>1, SameGraph, SameWalk
    <3>2. \A t : Cells(t)' = Cells(t)
      BY <2>1, <3>1 DEF Cells, Addr
    <3>3. \A t : Holds(t)' <=> Holds(t)
      BY <2>1, <3>1, <3>2 DEF Holds
    <3> QED BY <2>1, <3>1, <3>3 DEF Computing
  <2> QED BY <2>1, <2>2, <2>3, <2>4, <2>5 DEF AllocInv
<1> QED BY <1>1, <1>2, <1>3, <1>4, <1>5, <1>6, <1>7, <1>8, <1>9 DEF Next

\* The inputs stay alike.
LEMMA LeafStep == AllocInv /\ LeafInv /\ [Next]_vars => LeafInv'
<1> SUFFICES ASSUME AllocInv, LeafInv, [Next]_vars PROVE LeafInv'
  OBVIOUS
<1>0. /\ graph \in Seq(TensorType) /\ Len(graph) \in Nat /\ NLeafs <= Len(graph) /\ NLeafs \in Nat
      /\ Tensors = 1 .. Len(graph) /\ \A l \in 1 .. NLeafs : ~is_view(l) /\ l \in Tensors
  BY GraphFacts, RoomFacts DEF AllocInv, GraphInv
<1>1. ASSUME NEW op \in {"inplace", "view", "other"}, NEW shape \in {"tokens", "one"},
             NEW parents \in {<<p>> : p \in Tensors} \union Tensors \X Tensors, Add(op, parents, shape)
      PROVE  LeafInv'
  <2>1. PICK e : graph' = Append(graph, e)
    BY <1>1 DEF Add
  <2>2. \A l \in 1 .. NLeafs : graph'[l] = graph[l]
    BY <1>0, <2>1
  <2>3. phase' = "build" /\ allocs' = NoAllocs
    BY <1>1 DEF Add, AllocInv
  <2> QED BY <2>2, <2>3 DEF LeafInv
<1>2. ASSUME UNCHANGED <<graph, allocs>>, phase' # "build" => phase # "build" \/ Nodes # {} PROVE LeafInv'
  <2>1. Nodes' = Nodes
    BY <1>2 DEF Nodes, Tensors
  <2> QED BY <1>2, <2>1 DEF LeafInv
<1>3. CASE Reserved
  <2>1. /\ graph' = graph /\ phase = "measure"
        /\ allocs' = [t \in Tensors |-> IF is_view(t) THEN [offset |-> -1, size_max |-> 0]
                                        ELSE [offset |-> galloc.hash[t].offset, size_max |-> Size(t)]]
    BY <1>3 DEF Reserved
  <2>2. \A l \in 1 .. NLeafs : allocs'[l].size_max = n
    <3> TAKE l \in 1 .. NLeafs
    <3>1. allocs'[l] = [offset |-> galloc.hash[l].offset, size_max |-> Size(l)]
      BY <1>0, <2>1
    <3>2. Size(l) = n
      BY DEF Size, LeafInv
    <3> QED BY <3>1, <3>2
  <2>3. Nodes' = Nodes
    BY <2>1 DEF Nodes, Tensors
  <2> QED BY <2>1, <2>2, <2>3 DEF LeafInv
<1>4. ASSUME NEW O \in SUBSET Nodes, Built(O) PROVE LeafInv'
  BY <1>2, <1>4 DEF Built
<1>5. ASSUME NEW k \in 0 .. MaxN, Rebuild(k) PROVE LeafInv'
  BY <1>2, <1>5 DEF Rebuild
<1>6. CASE Reserve \/ Measure \/ AllocGraph \/ Compute \/ UNCHANGED vars
  BY <1>2, <1>6 DEF Reserve, Measure, AllocGraph, Compute, vars
<1> QED BY <1>1, <1>3, <1>4, <1>5, <1>6 DEF Next

\* At the start there are the inputs.
LEMMA LeafStart == Init => LeafInv
BY DEF Init, LeafInv
-----------------------------------------------------------------------------
(***************************************************************************)
(* What the invariant is for.                                              *)
(***************************************************************************)
\* The type invariant: blocks within the buffer, and counts that never go below zero.
LEMMA InvTypes == AllocInv => TypeOK
<1> SUFFICES ASSUME AllocInv PROVE TypeOK
  OBVIOUS
<1>1. GraphInv /\ Room \in Nat
  BY RoomFacts DEF AllocInv
<1>2. (phase = "measure" => AllocType(galloc) /\ Counts(galloc, From(next))) /\ (phase # "measure" => galloc = Reset)
  <2>1. phase = "measure" => Walk(galloc, From(next), next)
    BY DEF AllocInv
  <2>2. phase # "measure" => galloc = Reset
    BY DEF AllocInv
  <2> QED BY <2>1, <2>2 DEF Walk
<1>3. galloc.free \in Seq([offset : Offsets, size : Offsets])
  <2>1. CASE AllocType(galloc)
    <3>1. /\ galloc.free \in Seq(Block) /\ Len(galloc.free) \in Nat
          /\ \A i \in 1 .. Len(galloc.free) :
               /\ galloc.free[i].offset \in Nat /\ galloc.free[i].size \in Nat
               /\ galloc.free[i].offset + galloc.free[i].size <= Room
               /\ galloc.free[i] = [offset |-> galloc.free[i].offset, size |-> galloc.free[i].size]
      BY <2>1, AllocFacts, BlockFacts DEF FreeList, End
    <3>2. \A i \in 1 .. Len(galloc.free) : galloc.free[i] \in [offset : Offsets, size : Offsets]
      <4> TAKE i \in 1 .. Len(galloc.free)
      <4> DEFINE o == galloc.free[i].offset
                 z == galloc.free[i].size
      <4>1. galloc.free[i] = [offset |-> o, size |-> z] /\ o \in Nat /\ z \in Nat /\ o + z <= Room
        BY <3>1
      <4> HIDE DEF o, z
      <4>2. o \in Offsets /\ z \in Offsets
        BY <1>1, <4>1 DEF Offsets
      <4> QED BY <4>1, <4>2
    <3> DEFINE f == galloc.free
               S == [offset : Offsets, size : Offsets]
    <3>3. f \in Seq(Block) /\ \A i \in 1 .. Len(f) : f[i] \in S
      BY <3>1, <3>2
    <3> HIDE DEF f, S
    <3>4. f \in Seq(S)
      BY <3>3
    <3> QED BY <3>4 DEF f, S
  <2>2. CASE galloc = Reset
    <3>1. [offset |-> 0, size |-> Room] \in [offset : Offsets, size : Offsets]
      BY <1>1 DEF Offsets
    <3>2. galloc.free = <<[offset |-> 0, size |-> Room]>>
      BY <2>2 DEF Reset
    <3> QED BY <3>1, <3>2
  <2> QED BY <1>2, <2>1, <2>2
<1>4. phase = "measure" => \A t \in Tensors : galloc.hash[t].n_children >= 0 /\ galloc.hash[t].n_views >= 0
  <2>1. From(next) \in SUBSET Sites
    BY <1>1, FromFacts DEF AllocInv
  <2>2. \A t \in Tensors : /\ Cardinality(UsesIn(From(next), t)) \in Nat
                            /\ Cardinality(ViewsIn(From(next), t)) \in Nat
    BY <1>1, <2>1, UsesFacts
  <2>3. phase = "measure" =>
          \A t \in Tensors : /\ galloc.hash[t].n_children = Cardinality(UsesIn(From(next), t))
                             /\ galloc.hash[t].n_views = Cardinality(ViewsIn(From(next), t))
    BY <1>2 DEF Counts
  <2> QED BY <2>2, <2>3
<1> QED BY <1>3, <1>4 DEF AllocInv, TypeOK, GraphInv, Offsets

\* The free blocks and the allocated tensors divide the buffer.
LEMMA InvDivides == AllocInv => BlocksExact
<1> SUFFICES ASSUME AllocInv, phase = "measure", NEW a \in 0 .. Room - 1
             PROVE  Cardinality(Owners(a)) + Cardinality(Blocks(a)) = 1
  BY DEF BlocksExact
<1>1. GraphInv /\ AllocType(galloc) /\ Divided(galloc) /\ FreeList(galloc.free) /\ a \in Nat
  BY RoomFacts, AllocFacts DEF AllocInv, Walk
<1>2. Owners(a) = {t \in Tensors : galloc.hash[t].allocated /\ In(a, Place(galloc, t))}
  BY DEF Owners, In, Place
<1>3. Blocks(a) = {i \in DOMAIN galloc.free : In(a, galloc.free[i])}
  BY DEF Blocks, In, End
<1>4. Cardinality({}) = 0 /\ \A x : Cardinality({x}) = 1
  BY FS_EmptySet, FS_Singleton
<1>5. CASE IsFree(galloc.free, a)
  <2>1. PICK i \in DOMAIN galloc.free : In(a, galloc.free[i])
    BY <1>5 DEF IsFree
  <2>2. Blocks(a) = {i}
    BY <1>1, <1>3, <2>1 DEF FreeList, Separate, Disjoint
  <2>3. Owners(a) = {}
    BY <1>1, <1>2, <2>1 DEF Divided, Disjoint
  <2>4. Cardinality(Owners(a)) = 0 /\ Cardinality(Blocks(a)) = 1
    BY <1>4, <2>2, <2>3
  <2> QED BY <2>4
<1>6. CASE ~IsFree(galloc.free, a)
  <2>1. PICK t \in Tensors : galloc.hash[t].allocated /\ In(a, Place(galloc, t))
    BY <1>1, <1>6 DEF Divided
  <2>2. Owners(a) = {t}
    BY <1>1, <1>2, <2>1 DEF Divided, Disjoint
  <2>3. Blocks(a) = {}
    BY <1>3, <1>6 DEF IsFree
  <2>4. Cardinality(Owners(a)) = 1 /\ Cardinality(Blocks(a)) = 0
    BY <1>4, <2>2, <2>3
  <2> QED BY <2>4
<1> QED BY <1>5, <1>6

\* A tensor that a node has still to read, or that nothing reads, or an output, is not past,
\* nor is what it is a view of.
LEMMA NotPast ==
  ASSUME GraphInv, NEW U \in SUBSET Sites, NEW s \in Tensors,
         UsesIn(U, s) # {} \/ s \in outputs \/ UsesIn(Sites, s) = {}
  PROVE  ~Past(U, Root(s)) /\ (is_view(s) => ViewsIn(U, Root(s)) # {})
<1>1. CASE is_view(s)
  <2>1. s \in Nodes /\ graph[s].view_src = Root(s)
    BY <1>1, GraphFacts
  <2>2. UsesIn(U, s) # {} \/ UsesIn(Sites, s) = {}
    BY <1>1 DEF GraphInv
  <2>3. s \in ViewsIn(U, Root(s))
    BY <2>1, <2>2 DEF ViewsIn
  <2> QED BY <2>3 DEF Past
<1>2. CASE ~is_view(s)
  BY <1>2 DEF Root, Past
<1> QED BY <1>1, <1>2

\* A tensor that was computed and is not past holds its value.
LEMMA StillHeld ==
  ASSUME AllocInv, phase = "compute", NEW s \in Tensors, s < next, ~Past(From(next), Root(s))
  PROVE  Holds(s)
<1>1. GraphInv /\ Computing /\ next \in Nat
  BY GraphFacts DEF AllocInv
<1>2. Root(s) \in Owning /\ Root(s) <= s /\ Root(s) \in Tensors /\ Root(Root(s)) = Root(s) /\ s \in Int /\ Root(s) \in Int
  BY <1>1, GraphFacts
<1>3. Root(s) < next
  BY <1>1, <1>2
<1>4. Holds(Root(s))
  BY <1>1, <1>2, <1>3 DEF Computing
<1>5. Cells(s) = Cells(Root(s))
  BY <1>2 DEF Cells, Addr
<1> QED BY <1>2, <1>4, <1>5 DEF Holds

\* The next node and a parent of it share no memory, or have the same.
LEMMA NodeApart ==
  ASSUME AllocInv, phase = "compute", next \in Owning, NEW s \in Tensors, s < next,
         UsesIn(From(next), s) # {}
  PROVE  Apart(next, s)
<1> DEFINE r == Root(s)
<1>1. GraphInv /\ Layout /\ n \in 0 .. MaxN /\ From(next) \in SUBSET Sites /\ next \in Int
  BY FromFacts, GraphFacts DEF AllocInv
<1>2. r \in Owning /\ r \in Tensors /\ r < next /\ (~is_view(s) => r = s)
  <2>a. r \in Owning /\ r <= s
    BY <1>1, GraphFacts
  <2>b. \A t \in Tensors : t \in Int
    BY <1>1, GraphFacts
  <2>1. r \in Owning /\ r <= s /\ r \in Int /\ s \in Int /\ r \in Tensors
    BY <2>a, <2>b DEF Owning
  <2> QED BY <1>1, <2>1 DEF Root
<1>3. ~Past(From(next), r) /\ (is_view(s) => ViewsIn(From(next), r) # {})
  BY <1>1, NotPast
<1>4. Root(r) = r /\ Cells(s) = Cells(r)
  <2>1. Root(r) = r
    BY <1>1, <1>2, GraphFacts
  <2> QED BY <2>1 DEF Cells, Addr
<1> HIDE DEF r
<1>5. Compatible(r, Kept(r), next, Kept(next))
  BY <1>1, <1>2 DEF Layout
<1>6. CASE Disjoint(Kept(r), Kept(next))
  <2>1. \A a \in Cells(next) : a \in Nat /\ In(a, Kept(next))
    BY CellFacts
  <2>2. \A a \in Cells(r) : a \in Nat /\ In(a, Kept(r))
    BY <1>2, CellFacts
  <2>3. Cells(next) \intersect Cells(s) = {}
    BY <1>4, <1>6, <2>1, <2>2 DEF Disjoint
  <2> QED BY <2>3 DEF Apart
<1>7. CASE graph[next].op = "inplace" /\ Kept(r) = Kept(next)
  <2>1. allocs[r].offset = allocs[next].offset /\ allocs[r].size_max = allocs[next].size_max
    BY <1>7 DEF Kept
  <2>2. /\ Cells(r) = allocs[r].offset .. allocs[r].offset + Size(r) - 1 /\ Size(r) \in Nat
        /\ Size(r) <= allocs[r].size_max /\ allocs[r].offset \in Nat /\ allocs[r].size_max \in Nat
    BY <1>2, CellFacts
  <2>3. /\ Cells(next) = allocs[next].offset .. allocs[next].offset + Size(next) - 1 /\ Size(next) \in Nat
        /\ Size(next) <= allocs[next].size_max
    BY CellFacts
  <2>4. CASE Size(r) = Size(next)
    <3>1. Cells(next) = Cells(s)
      BY <1>4, <2>1, <2>2, <2>3, <2>4
    <3> QED BY <1>7, <3>1 DEF Apart
  <2>5. CASE Size(r) # Size(next)
    <3>1. graph[r].shape = "one" \/ graph[next].shape = "one"
      BY <1>1, <1>2, <2>5, GraphFacts DEF Size
    <3>2. allocs[r].size_max = 1
      BY <1>1, <1>2, <2>1, <3>1 DEF Layout
    <3>3. Size(r) = 0 \/ Size(next) = 0
      BY <2>1, <2>2, <2>3, <2>5, <3>2
    <3>4. Cells(r) = {} \/ Cells(next) = {}
      BY <2>1, <2>2, <2>3, <3>3
    <3> QED BY <1>4, <3>4 DEF Apart
  <2> QED BY <2>4, <2>5
<1> QED BY <1>3, <1>5, <1>6, <1>7 DEF Compatible

\* Values are kept until they were read, results for good.
LEMMA InvKeeps == AllocInv => ValuesKept
<1> SUFFICES ASSUME AllocInv, phase = "compute"
             PROVE  /\ next \in Tensors => \A s \in Range(src(next)) : Holds(s) /\ (is_view(next) \/ Apart(next, s))
                    /\ next > Len(graph) => \A t \in outputs \union {t \in Nodes : ~Used(t)} : Holds(t)
                    /\ \A t \in Tensors : Cells(t) \subseteq 0 .. buffer - 1
  BY DEF ValuesKept
<1>1. GraphInv /\ next \in 0 .. Len(graph) + 1 /\ Len(graph) \in Nat /\ From(next) \in SUBSET Sites
  BY FromFacts, GraphFacts DEF AllocInv
<1>2. ASSUME next \in Tensors, NEW s \in Range(src(next)) PROVE Holds(s) /\ (is_view(next) \/ Apart(next, s))
  <2>1. PICK i \in DOMAIN src(next) : s = src(next)[i]
    BY <1>2 DEF Range
  <2>2. s \in Tensors /\ s < next /\ UsesIn(From(next), s) # {}
    BY <1>1, <1>2, <2>1, GraphFacts, ParentUsed
  <2>3. Holds(s)
    BY <1>1, <2>2, NotPast, StillHeld
  <2>4. ~is_view(next) => Apart(next, s)
    BY <1>2, <2>2, NodeApart DEF Owning
  <2> QED BY <2>3, <2>4
<1>3. ASSUME next > Len(graph), NEW t \in outputs \union {t \in Nodes : ~Used(t)} PROVE Holds(t)
  <2>1. t \in Tensors /\ t < next
    <3>1. t \in Tensors /\ t \in 1 .. Len(graph)
      BY <1>1, <1>3, GraphFacts DEF GraphInv
    <3> QED BY <1>1, <1>3, <3>1
  <2>2. t \in outputs \/ UsesIn(Sites, t) = {}
    <3>1. ASSUME NEW x \in Sites, src(x[1])[x[2]] = t PROVE Used(t)
      <4>1. x[1] \in Nodes /\ t \in Range(src(x[1]))
        BY <3>1 DEF Sites, Range
      <4>2. \E u \in Nodes : t \in Range(src(u))
        BY <4>1
      <4> QED BY <4>2 DEF Used
    <3> QED BY <1>3, <3>1 DEF UsesIn
  <2> QED BY <1>1, <2>1, <2>2, NotPast, StillHeld
<1>4. ASSUME NEW t \in Tensors PROVE Cells(t) \subseteq 0 .. buffer - 1
  <2>1. Root(t) \in Owning /\ Root(Root(t)) = Root(t)
    BY <1>1, GraphFacts
  <2>2. Cells(t) = Cells(Root(t))
    BY <2>1 DEF Cells, Addr
  <2> QED BY <2>1, <2>2, CellFacts
<1> QED BY <1>2, <1>3, <1>4
-----------------------------------------------------------------------------
(***************************************************************************)
(* The theorems.                                                           *)
(***************************************************************************)
\* The invariant holds for graphs with any number of inputs and nodes, whatever their
\* edges, views and outputs, and for any number of tokens.
THEOREM AllocInvariant == Spec => []AllocInv
<1>1. Init => AllocInv /\ LeafInv
  BY StartInv, LeafStart
<1>2. AllocInv /\ LeafInv /\ [Next]_vars => (AllocInv /\ LeafInv)'
  BY StepInv, LeafStep
<1> QED BY <1>1, <1>2, PTL DEF Spec

\* The type invariant: blocks within the buffer, and counts of children and views that
\* ggml_gallocr_alloc_graph_impl never takes below zero.
THEOREM AllocTypes == Spec => []TypeOK
BY AllocInvariant, InvTypes, PTL

\* ggml_dyn_tallocr gives no address to two tensors, and loses none: at each step of the
\* walk every address belongs to one tensor or to one free block.
THEOREM BlocksDivided == Spec => []BlocksExact
BY AllocInvariant, InvDivides, PTL

\* No node overwrites what is still to be read, unless it takes the place of a parent
\* element by element; outputs and results survive; all is within the buffer.
THEOREM ValuesSurvive == Spec => []ValuesKept
BY AllocInvariant, InvKeeps, PTL
=============================================================================
