------------------------------ MODULE GraphAlloc ------------------------------
(***************************************************************************)
(* ggml_gallocr (src/ggml/src/ggml-alloc.c) with one buffer: a graph is    *)
(* measured, by a walk over its nodes in the order of their computation    *)
(* that gives each tensor a block, takes the block back after the last     *)
(* use, and lets an operation that can work in place take over the block   *)
(* of a parent.  Graphs of the same topology with other sizes then get the *)
(* offsets that were measured, as long as no tensor has grown.             *)
(*                                                                         *)
(* The weights of a model are allocated elsewhere and left out.  What a    *)
(* computation leaves in the buffer is abstracted to the tensor that was   *)
(* last written to each address.  Sizes count units of the alignment.      *)
(***************************************************************************)
EXTENDS Integers, Sequences, FiniteSets, SequencesExt

CONSTANTS
  NLeafs,   \* inputs, the first tensors of a graph
  NNodes,   \* bound on its nodes
  MaxN      \* bound on the number of tokens

ASSUME GraphAssumption == NLeafs \in Nat \ {0} /\ NNodes \in Nat /\ MaxN \in Nat

VARIABLES
  graph,    \* the tensors: [op, src, view_src, shape]
  outputs,  \* those flagged as outputs
  n,        \* number of tokens of the current graph, sizes depend on it
  phase,    \* "build", "built", "measure" or "compute"
  next,     \* the next node of the walk or of the computation
  galloc,   \* [hash, free, max_size] while a graph is measured
  allocs,   \* node_allocs and leaf_allocs: per tensor [offset, size_max] of the last measure
  buffer,   \* size of the buffer
  mem       \* for each address, the tensor that was last written there

vars == <<graph, outputs, n, phase, next, galloc, allocs, buffer, mem>>

Tensors     == DOMAIN graph
Nodes       == Tensors \ (1 .. NLeafs)
src(t)      == graph[t].src
is_view(t)  == graph[t].view_src # 0
Root(t)     == IF is_view(t) THEN graph[t].view_src ELSE t
Size(t)     == IF graph[t].shape = "tokens" THEN n ELSE 1
Used(t)     == \E u \in Nodes : t \in Range(src(u))

\* Stands for SIZE_MAX/2, all tensors fit.
Room == (NLeafs + NNodes) * (MaxN + 1) + 1
NoAllocs == <<>>

\* ggml_dyn_tallocr_reset
Reset == [hash |-> <<>>, free |-> <<[offset |-> 0, size |-> Room]>>, max_size |-> 0]

Init ==
  /\ graph = [t \in 1 .. NLeafs |-> [op |-> "none", src |-> <<>>, view_src |-> 0, shape |-> "tokens"]]
  /\ outputs = {}
  /\ n \in 0 .. MaxN
  /\ phase = "build" /\ next = 0
  /\ galloc = Reset
  /\ allocs = NoAllocs /\ buffer = 0 /\ mem = [a \in 0 .. Room - 1 |-> 0]
-----------------------------------------------------------------------------
(***************************************************************************)
(* The program builds a graph.  A view shows all of a tensor, or of what   *)
(* that is a view of.  An operation that can work in place has the shape   *)
(* of its first parent, and broadcasts the second one.                     *)
(***************************************************************************)
Shaped(op, parents, shape) ==
  CASE op = "view"    -> Len(parents) = 1 /\ shape = graph[parents[1]].shape
    [] op = "inplace" -> /\ shape = graph[parents[1]].shape
                         /\ Len(parents) = 2 => graph[parents[2]].shape \in {shape, "one"}
    [] op = "other"   -> \A k \in 2 .. Len(parents) : parents[k - 1] < parents[k]

Add(op, parents, shape) ==
  /\ phase = "build" /\ Cardinality(Nodes) < NNodes
  /\ Shaped(op, parents, shape)
  /\ graph' = Append(graph, [op |-> op, src |-> parents, shape |-> shape,
                             view_src |-> IF op = "view" THEN Root(parents[1]) ELSE 0])
  /\ UNCHANGED <<outputs, n, phase, next, galloc, allocs, buffer, mem>>

\* An output that is a view is not used any further: the flag does not protect what the
\* view shows.
Built(O) ==
  /\ phase = "build" /\ Nodes # {}
  /\ \A t \in O : is_view(t) => ~Used(t)
  /\ phase' = "built"
  /\ outputs' = O
  /\ UNCHANGED <<graph, n, next, galloc, allocs, buffer, mem>>

\* The graph is built again, for a batch of another size.
Rebuild(k) ==
  /\ \/ phase = "built" /\ allocs # NoAllocs
     \/ phase = "compute" /\ next > Len(graph)
  /\ n' = k
  /\ phase' = "built"
  /\ next' = 0
  /\ mem' = [a \in 0 .. Room - 1 |-> 0]
  /\ UNCHANGED <<graph, outputs, galloc, allocs, buffer>>
-----------------------------------------------------------------------------
(***************************************************************************)
(* ggml_dyn_tallocr: the free blocks, in the order of their offsets.       *)
(***************************************************************************)
End(b) == b.offset + b.size

\* The best fitting block (the last of several) besides the last block, which is the
\* last resort.
BestFit(free, size) ==
  LET fits == {i \in 1 .. Len(free) - 1 : free[i].size >= size}
      best == {i \in fits : \A j \in fits : free[i].size <= free[j].size}
  IN IF fits = {} THEN Len(free) ELSE Max(best)

dyn_alloc(G, t) ==
  LET size == Size(t)
      i    == BestFit(G.free, size)
      b    == G.free[i]
      left == [offset |-> b.offset + size, size |-> b.size - size]
  IN [G EXCEPT !.free = IF left.size = 0 THEN RemoveAt(@, i) ELSE [@ EXCEPT ![i] = left],
               !.max_size = Max({@, b.offset + size}),
               !.hash[t].offset = b.offset]

\* Faulty: a block that was merged with the one before it stays in the list.
MergedTwice(free, i) ==
  IF i < Len(free) /\ End(free[i]) = free[i + 1].offset
  THEN [free EXCEPT ![i].size = @ + free[i + 1].size] ELSE free

\* The block i together with the next one, if they touch.
Merged(free, i) ==
  IF i < Len(free) /\ End(free[i]) = free[i + 1].offset
  THEN RemoveAt([free EXCEPT ![i].size = @ + free[i + 1].size], i + 1) ELSE free

\* Merged with the first block it touches, or inserted where it belongs.
dyn_free(free, b) ==
  LET touching == {i \in DOMAIN free : End(free[i]) = b.offset \/ End(b) = free[i].offset}
      i        == Min(touching)
  IN IF touching = {}
     THEN InsertAt(free, 1 + Cardinality({j \in DOMAIN free : free[j].offset < b.offset}), b)
     ELSE IF End(free[i]) = b.offset
     THEN Merged([free EXCEPT ![i].size = @ + b.size], i)
     ELSE LET grown == [free EXCEPT ![i] = [offset |-> b.offset, size |-> @.size + b.size]]
          IN IF i > 1 THEN Merged(grown, i - 1) ELSE grown
-----------------------------------------------------------------------------
(***************************************************************************)
(* ggml_gallocr_reserve: the walk over the graph.                          *)
(***************************************************************************)
\* Faulty: the views of the parent are not asked for.
MayTakeOverViewed(G, t, p) ==
  /\ G.hash[p].allocated
  /\ {p, Root(p)} \intersect outputs = {}
  /\ Size(t) = Size(p)
  /\ G.hash[p].n_children = 1

\* The memory of p can be reused by t, its only child.  (Views do not own memory: the
\* branch of the code for parents that are views is never taken.)
MayTakeOver(G, t, p) ==
  /\ G.hash[p].allocated
  /\ {p, Root(p)} \intersect outputs = {}
  /\ Size(t) = Size(p)
  /\ G.hash[p].n_children = 1 /\ G.hash[p].n_views = 0

allocate_node(G, t) ==
  LET taken == {k \in DOMAIN src(t) : graph[t].op = "inplace" /\ MayTakeOver(G, t, src(t)[k])}
      p     == src(t)[Min(taken)]
  IN IF G.hash[t].allocated \/ is_view(t) THEN G
     ELSE IF taken # {}
     THEN [G EXCEPT !.hash[t].allocated = TRUE, !.hash[t].offset = G.hash[p].offset,
                    !.hash[p].allocated = FALSE]
     ELSE [dyn_alloc(G, t) EXCEPT !.hash[t].allocated = TRUE]

\* "Graph outputs are never freed."
free_node(G, t) ==
  IF t \in outputs THEN G
  ELSE [G EXCEPT !.free = dyn_free(@, [offset |-> G.hash[t].offset, size |-> Size(t)]),
                 !.hash[t].allocated = FALSE]

\* A child of p was computed.
Release(G, p) ==
  LET D    == [G EXCEPT !.hash[p].n_children = @ - 1]
      V    == [D EXCEPT !.hash[Root(p)].n_views = @ - 1]
      over == D.hash[p].n_children = 0 /\ D.hash[p].n_views = 0
      h    == V.hash[Root(p)]
  IN CASE ~over       -> D
       [] over /\ is_view(p)  -> IF h.n_views = 0 /\ h.n_children = 0 /\ h.allocated
                                 THEN free_node(V, Root(p)) ELSE V
       [] over /\ ~is_view(p) -> IF D.hash[p].allocated THEN free_node(D, p) ELSE D

\* Faulty: a tensor that is both parents of a node counts once.
CountedOnce == [t \in Tensors |->
  [n_children |-> Cardinality({v \in Nodes : t \in Range(src(v))}),
   n_views    |-> Cardinality({v \in Nodes : graph[v].view_src = t}),
   offset     |-> 0,
   allocated  |-> FALSE]]

\* Each use as a parent counts.
Counted == [t \in Tensors |->
  [n_children |-> Cardinality({x \in Nodes \X (1 .. 2) : x[2] \in DOMAIN src(x[1]) /\ src(x[1])[x[2]] = t}),
   n_views    |-> Cardinality({v \in Nodes : graph[v].view_src = t}),
   offset     |-> 0,
   allocated  |-> FALSE]]

\* Count children and views.  (The code allocates the inputs before it counts: inputs have
\* no parents and look at no counts, here they are the first rounds of Measure.)
Reserve ==
  /\ phase = "built"
  /\ phase' = "measure"
  /\ next' = 1
  /\ galloc' = [Reset EXCEPT !.hash = Counted]
  /\ UNCHANGED <<graph, outputs, n, allocs, buffer, mem>>

\* A step for each parent of t, in their order.
ForParents(Step(_, _), G, t) ==
  CASE Len(src(t)) = 0 -> G
    [] Len(src(t)) = 1 -> Step(G, src(t)[1])
    [] Len(src(t)) = 2 -> Step(Step(G, src(t)[1]), src(t)[2])

\* One round of the loops over the inputs, which have no parents, and the nodes:
\* parents, the node, and the parents it was the last child of.
Measure ==
  /\ phase = "measure" /\ next <= Len(graph)
  /\ galloc' = ForParents(Release, allocate_node(ForParents(allocate_node, galloc, next), next), next)
  /\ next' = next + 1
  /\ UNCHANGED <<graph, outputs, n, phase, allocs, buffer, mem>>

\* Keep the offsets, and allocate a larger buffer if there is not enough.
Reserved ==
  /\ phase = "measure" /\ next > Len(graph)
  /\ allocs' = [t \in Tensors |-> IF is_view(t) THEN [offset |-> -1, size_max |-> 0]
                                  ELSE [offset |-> galloc.hash[t].offset, size_max |-> Size(t)]]
  /\ buffer' = Max({buffer, galloc.max_size})
  /\ galloc' = Reset
  /\ phase' = "built"
  /\ next' = 0
  /\ UNCHANGED <<graph, outputs, n, mem>>
-----------------------------------------------------------------------------
(***************************************************************************)
(* ggml_gallocr_alloc_graph and the computation.                           *)
(***************************************************************************)
\* A node or a source of one has grown.
needs_realloc ==
  \/ allocs = NoAllocs
  \/ \E t \in Nodes \union UNION {Range(src(u)) : u \in Nodes} :
       ~is_view(t) /\ Size(t) > allocs[t].size_max

Addr(t)  == allocs[Root(t)].offset
Cells(t) == Addr(t) .. Addr(t) + Size(Root(t)) - 1
Write(m, t) == [a \in DOMAIN m |-> IF a \in Cells(t) THEN t ELSE m[a]]

\* With a graph that needs more, the code reserves first.
AllocGraph ==
  /\ phase = "built" /\ ~needs_realloc
  /\ phase' = "compute"
  /\ next' = 1
  /\ UNCHANGED <<graph, outputs, n, galloc, allocs, buffer, mem>>

\* The program sets the inputs, and the nodes are computed.  A view is not.
Compute ==
  /\ phase = "compute" /\ next <= Len(graph)
  /\ mem' = IF is_view(next) THEN mem ELSE Write(mem, next)
  /\ next' = next + 1
  /\ UNCHANGED <<graph, outputs, n, phase, galloc, allocs, buffer>>

Next ==
  \/ \E op \in {"inplace", "view", "other"}, shape \in {"tokens", "one"} :
       \E parents \in {<<p>> : p \in Tensors} \union Tensors \X Tensors : Add(op, parents, shape)
  \/ \E O \in SUBSET Nodes : Cardinality(O) <= 1 /\ Built(O)
  \/ \E k \in 0 .. MaxN : Rebuild(k)
  \/ Reserve \/ Measure \/ Reserved \/ AllocGraph \/ Compute

Spec == Init /\ [][Next]_vars
-----------------------------------------------------------------------------
(***************************************************************************)
(* Properties.                                                             *)
(***************************************************************************)
Offsets == 0 .. Room
\* The type invariant.
TypeOK ==
  /\ outputs \subseteq Nodes
  /\ n \in 0 .. MaxN
  /\ phase \in {"build", "built", "measure", "compute"}
  /\ next \in 0 .. Len(graph) + 1
  /\ galloc.free \in Seq([offset : Offsets, size : Offsets])
  /\ phase = "measure" => \A t \in Tensors : galloc.hash[t].n_children >= 0 /\ galloc.hash[t].n_views >= 0
  /\ buffer \in Offsets

\* Every address belongs to one tensor or to one free block, whatever was merged, split,
\* taken over or freed: no block is given out twice and none is lost.
Owners(a) == {t \in Tensors : LET h == galloc.hash[t]
                              IN h.allocated /\ h.offset <= a /\ a < h.offset + Size(t)}
Blocks(a) == {i \in DOMAIN galloc.free : galloc.free[i].offset <= a /\ a < End(galloc.free[i])}
BlocksExact ==
  phase = "measure" => \A a \in 0 .. Room - 1 : Cardinality(Owners(a)) + Cardinality(Blocks(a)) = 1

\* When a node is computed its parents hold what was written to them, and it does not
\* overwrite them, but for a parent whose place it takes element by element; results are
\* never overwritten, and everything is within the buffer.
Holds(t)    == \A a \in Cells(t) : mem[a] = Root(t)
Apart(t, s) == \/ Cells(t) \intersect Cells(s) = {}
               \/ graph[t].op = "inplace" /\ Cells(t) = Cells(s)
ValuesKept ==
  phase = "compute" =>
    /\ next \in Tensors => \A s \in Range(src(next)) : Holds(s) /\ (is_view(next) \/ Apart(next, s))
    /\ next > Len(graph) => \A t \in outputs \union {t \in Nodes : ~Used(t)} : Holds(t)
    /\ \A t \in Tensors : Cells(t) \subseteq 0 .. buffer - 1
=============================================================================
