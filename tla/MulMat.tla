------------------------------- MODULE MulMat -------------------------------
(***************************************************************************)
(* The matrix products of a graph, computed by the threads of the pool:    *)
(* ggml_compute_forward_mul_mat, the LUT path of iFairy that it falls back *)
(* from, the wide linear operation with and without LUT, and the linear    *)
(* operation of row4.  All have the same shape: every thread prepares a    *)
(* share of the inputs in the work buffer (quantised activations, then     *)
(* tables for the LUT), waits for the others at a barrier, and multiplies  *)
(* a share of the outputs.  The shares of mul_mat are chunks that the      *)
(* threads claim from a counter of the pool, those of row4 may be jobs     *)
(* that they claim from a counter in the work buffer.                      *)
(*                                                                         *)
(* Numbers are replaced by where they come from: an input holds the tag    *)
(* <<node, way>> of the product it was prepared for.  ggml_barrier is      *)
(* modelled by what it does (see Threadpool): it counts who arrives,       *)
(* wherever in the code that is.                                           *)
(***************************************************************************)
EXTENDS Integers, Sequences, FiniteSets, Bags

CONSTANTS
  NThreads,
  Products,     \* the nodes of the graph: a sequence of
                \* [op, lut, f32, wild, nr0, ne1, planes, nb], see ProductType
  ChunkSize,    \* 16 in the code
  VectorChunk,  \* 64, the chunk size if there is one row or column
  Tile,         \* 16, rows of a LUT tile
  DotRows,      \* rows and columns a dot kernel multiplies at once, 1 or 2
  RowGroup,     \* 4, rows of a row4 job that multiplies a pair of tokens
  PanelTokens,  \* 8, tokens a row4 panel is filled up to a multiple of
  Numa,         \* ggml_is_numa()
  OneQuantizes, \* GGML_IFAIRY_VEC_DOT_ACT_TENSOR: thread 0 quantises for all
  Racing        \* may another context pack the weights of a node that is computed?

Row4 == {"scalar", "dotprod", "i8mm"}  \* the paths of ggml_row4_cpu_compute

ProductType ==
  [op     : {"mul_mat", "wide"} \cup Row4,
   lut    : BOOLEAN,      \* may the LUT be used (type, shape and environment)?
   f32    : BOOLEAN,      \* the activations are floats, not quantised already
   wild   : SUBSET Nat,   \* columns with quantised values the LUT cannot hold
   nr0    : Nat, ne1 : Nat, planes : Nat,  \* output rows, columns per plane, planes
   nb     : Nat]          \* blocks per column

ASSUME ThreadsAssumption  == NThreads \in Nat \ {0}
ASSUME SizesAssumption    ==
  /\ {ChunkSize, VectorChunk, Tile, RowGroup, PanelTokens} \subseteq Nat \ {0}
  /\ DotRows \in {1, 2}
  /\ Tile % RowGroup = 0
ASSUME OptionsAssumption  == {Numa, OneQuantizes, Racing} \subseteq BOOLEAN
ASSUME ProductsAssumption ==
  /\ Products \in Seq(ProductType)
  /\ \A k \in DOMAIN Products :
    /\ Products[k].op # "mul_mat" => Products[k].f32
    /\ Products[k].op \in Row4 => ~Products[k].lut /\ Products[k].nr0 % Tile = 0
    /\ \A n \in {Products[k].nr0, Products[k].ne1, Products[k].planes, Products[k].nb} : n > 0

Threads == 0 .. NThreads - 1
CeilDiv(a, b) == (a + b - 1) \div b
Smaller(a, b) == IF a < b THEN a ELSE b

NCols(p)  == p.ne1 * p.planes
Cols(p)   == 0 .. NCols(p) - 1
Blocks(p) == 0 .. p.nb - 1
\* Columns that are prepared: a row4 panel is filled up with zeros.
uses_panel(p) == p.op = "i8mm" /\ NCols(p) >= PanelTokens
Padding(p)  == IF uses_panel(p) THEN NCols(p) .. PanelTokens * CeilDiv(NCols(p), PanelTokens) - 1 ELSE {}
Prepared(p) == (Cols(p) \cup Padding(p)) \X Blocks(p)
Inputs      == UNION {Prepared(Products[k]) : k \in DOMAIN Products}

VARIABLES
  pc, next,      \* per thread: where it is, and goes after the barrier it waits at
  node,          \* per thread: the node it computes
  way,           \* per thread: how it computes it
  mine,          \* per thread: the chunk it has claimed
  current_chunk, \* threadpool->current_chunk
  next_job,      \* the counter of row4 in the work buffer
  packed,        \* per node: have the weights a LUT pack?
  quantised,     \* the work buffer: per input what it was quantised for,
  tables, scales, \* and what its LUT table and scales were made from
  out            \* per node: bag of computed outputs [row, col, plane]

threadVars == <<pc, next, node, way>>
bufferVars == <<quantised, tables, scales>>
jobVars == <<mine, current_chunk, next_job>>
vars == <<threadVars, jobVars, packed, bufferVars, out>>

None  == <<0, "none">>
P(t)  == Products[node[t]]
Tag(t) == <<node[t], way[t]>>
-----------------------------------------------------------------------------
(***************************************************************************)
(* How the work is cut up.                                                 *)
(***************************************************************************)
RowWays      == {"scalar", "dotprod", "pairs", "panel"}
Cut(n, t)    == (n * t) \div NThreads
Share(n, t)  == Cut(n, t) .. Cut(n, t + 1) - 1
Strided(S, t) == {i \in S : i % NThreads = t}

\* The inputs a thread quantises.
QuantiseShare(p, w, t) ==
  CASE w = "direct" /\ OneQuantizes  -> IF t = 0 THEN Cols(p) \X Blocks(p) ELSE {}
    [] w = "direct" /\ ~OneQuantizes -> Cols(p) \X Share(p.nb, t)
    [] w \in {"lut", "wide"}         -> Strided(Cols(p), t) \X Blocks(p)
    [] w = "wide_lut"                -> IF NCols(p) >= NThreads
                                        THEN Strided(Cols(p), t) \X Blocks(p)
                                        ELSE Cols(p) \X Strided(Blocks(p), t)
    [] w \in RowWays -> (Share(NCols(p), t) \cup IF t = 0 THEN Padding(p) ELSE {}) \X Blocks(p)

\* The inputs it makes tables for: by column if there are enough of them.
TableShare(p, t) ==
  IF NCols(p) >= NThreads THEN Strided(Cols(p), t) \X Blocks(p)
                                      ELSE Cols(p) \X Strided(Blocks(p), t)
ScaleShare(p, w, t) ==
  IF w = "wide_lut" \/ NCols(p) >= NThreads THEN TableShare(p, t)
  ELSE IF t = 0 THEN Cols(p) \X Blocks(p) ELSE {}

\* The rows of its tiles.
TileRows(p, t) ==
  LET tiles == CeilDiv(p.nr0, Tile)
  IN Tile * Cut(tiles, t) .. Smaller(Tile * Cut(tiles, t + 1), p.nr0) - 1

\* An output, computed with the weights of its own plane.
Cell(p, r, c) == [row |-> r, col |-> c, plane |-> c \div p.ne1]

\* All outputs of node k.
Outs(k) == {Cell(Products[k], r, c) : r \in 0 .. Products[k].nr0 - 1, c \in Cols(Products[k])}

\* The jobs of row4: a tile of rows for one token, a group of rows for two, or a
\* tile for all of them.
Jobs(p, w) == CASE w = "dotprod" -> NCols(p) * (p.nr0 \div Tile)
                [] w = "pairs"   -> CeilDiv(NCols(p), 2) * (p.nr0 \div RowGroup)
                [] w = "panel"   -> p.nr0 \div Tile
Job(p, w, j) ==
  LET size  == IF w = "pairs" THEN RowGroup ELSE Tile
      i     == j % (p.nr0 \div size)
      token == j \div (p.nr0 \div size)
      cols  == CASE w = "dotprod" -> {token}
                 [] w = "pairs"   -> {2 * token, 2 * token + 1} \intersect Cols(p)
                 [] w = "panel"   -> Cols(p)
  IN {Cell(p, r, c) : r \in size * i .. size * i + size - 1, c \in cols}

\* Are they claimed?  Otherwise every thread takes each nth of them.
uses_dynamic_jobs(p, w) == w = "panel" \/ (w = "dotprod" /\ NCols(p) = 1)

Outputs(p, w, t) ==
  CASE w \in {"wide", "scalar"}  -> {Cell(p, i % p.nr0, i \div p.nr0) : i \in Share(p.nr0 * NCols(p), t)}
    [] w \in {"lut", "wide_lut"} -> {Cell(p, r, c) : r \in TileRows(p, t), c \in Cols(p)}
    [] w \in {"dotprod", "pairs"} -> UNION {Job(p, w, j) : j \in Strided(0 .. Jobs(p, w) - 1, t)}

\* mul_mat: numbers of chunks over the rows and over the columns, by thread if
\* there are few.
NChunks(p) ==
  LET nr1 == NCols(p)
      c   == IF p.nr0 = 1 \/ nr1 = 1 THEN VectorChunk ELSE ChunkSize
      n0  == CeilDiv(p.nr0, c)
      n1  == CeilDiv(nr1, c)
  IN IF n0 * n1 >= NThreads * 4 /\ ~Numa THEN <<n0, n1>>
     ELSE IF p.nr0 > nr1 THEN <<NThreads, 1>> ELSE <<1, NThreads>>

\* [from, to) of part i of n equal parts of size rows or columns.
Part(size, n, i) == LET d == CeilDiv(size, n) IN <<d * i, Smaller(d * i + d, size)>>
Even(n) == n % 2 = 0

\* Faulty: the kernel is always used at full size.
StepAlways(p, r, c) == DotRows

\* Kernels for two rows and columns need even sizes, "to avoid crossing dim1
\* boundaries".
Step(p, r, c) == IF Even(p.nr0) /\ Even(p.ne1) /\ Even(r[2] - r[1]) /\ Even(c[2] - c[1])
                 THEN DotRows ELSE 1

\* What a chunk computes: a kernel reads the weights of the plane of its first
\* column for all of its columns.
Chunk(p, k) ==
  LET n == NChunks(p)
      r == Part(p.nr0, n[1], k % n[1])
      c == Part(NCols(p), n[2], k \div n[1])
      s == Step(p, r, c)
  IN UNION {{[row |-> row, col |-> c1 + i, plane |-> c1 \div p.ne1] :
               row \in r[1] .. r[2] - 1, i \in 0 .. s - 1} :
            c1 \in {c1 \in c[1] .. c[2] - 1 : (c1 - c[1]) % s = 0}}
-----------------------------------------------------------------------------
Init ==
  /\ pc = [t \in Threads |-> "node"]
  /\ next = [t \in Threads |-> "node"]
  /\ node = [t \in Threads |-> 1]
  /\ way = [t \in Threads |-> "none"]
  /\ mine = [t \in Threads |-> 0]
  /\ current_chunk = 0
  /\ next_job = 0
  /\ packed \in [DOMAIN Products -> BOOLEAN]
  /\ \A k \in DOMAIN Products : packed[k] => Products[k].lut
  /\ quantised = [u \in Inputs |-> None]
  /\ tables = [u \in Inputs |-> None]
  /\ scales = [u \in Inputs |-> None]
  /\ out = [k \in DOMAIN Products |-> EmptyBag]

Goto(t, l) == pc' = [pc EXCEPT ![t] = l] /\ UNCHANGED next

\* ggml_barrier: the last to arrive lets everybody go on.
Barrier(t, l) ==
  IF \A u \in Threads \ {t} : pc[u] = "wait"
  THEN pc' = [[u \in Threads |-> next[u]] EXCEPT ![t] = l] /\ UNCHANGED next
  ELSE pc' = [pc EXCEPT ![t] = "wait"] /\ next' = [next EXCEPT ![t] = l]

\* Faulty: a thread looks at the columns it is going to prepare.
WildOwn(p, t) == p.wild \intersect Strided(Cols(p), t) # {}

\* "External Q16 tensors may use the full int8 range": every thread looks at
\* every column.
Wild(p, t) == p.wild # {}

\* The decision for the LUT.  Every thread makes it for itself, from the weights'
\* extra and the activations.
Way(t) ==
  LET p == P(t)
  IN CASE p.op = "mul_mat" ->
            IF packed[node[t]] /\ (p.f32 \/ ~Wild(p, t)) THEN "lut" ELSE "direct"
       [] p.op = "wide" -> IF packed[node[t]] THEN "wide_lut" ELSE "wide"
       [] p.op \in Row4 -> IF p.op = "i8mm" THEN IF uses_panel(p) THEN "panel" ELSE "pairs" ELSE p.op

Begin(t) ==
  /\ pc[t] = "node" /\ node[t] <= Len(Products)
  /\ way' = [way EXCEPT ![t] = Way(t)]
  /\ Goto(t, IF P(t).f32 THEN "quantise" ELSE IF Way(t) = "lut" THEN "tables" ELSE "counter")
  /\ UNCHANGED <<node, jobVars, packed, bufferVars, out>>

Put(buffer, S, val(_)) == [u \in Inputs |-> IF u \in S THEN val(u) ELSE buffer[u]]

\* Faulty: the tables are made before everybody has quantised.
QuantiseOn(t) ==
  /\ pc[t] = "quantise" /\ way[t] = "lut"
  /\ quantised' = Put(quantised, QuantiseShare(P(t), way[t], t), LAMBDA u : Tag(t))
  /\ Goto(t, "tables")
  /\ UNCHANGED <<node, way, jobVars, packed, tables, scales, out>>

\* compute_mul_mat: then the tables, when all of the activations are quantised.
QuantiseLut(t) ==
  /\ pc[t] = "quantise" /\ way[t] = "lut"
  /\ quantised' = Put(quantised, QuantiseShare(P(t), way[t], t), LAMBDA u : Tag(t))
  /\ Barrier(t, "tables")
  /\ UNCHANGED <<node, way, jobVars, packed, tables, scales, out>>

QuantiseDirect(t) ==
  /\ pc[t] = "quantise" /\ way[t] = "direct"
  /\ quantised' = Put(quantised, QuantiseShare(P(t), way[t], t), LAMBDA u : Tag(t))
  /\ Goto(t, "counter")
  /\ UNCHANGED <<node, way, jobVars, packed, tables, scales, out>>

QuantiseWide(t) ==
  /\ pc[t] = "quantise" /\ way[t] = "wide"
  /\ quantised' = Put(quantised, QuantiseShare(P(t), way[t], t), LAMBDA u : Tag(t))
  /\ Barrier(t, "multiply")
  /\ UNCHANGED <<node, way, jobVars, packed, tables, scales, out>>

\* The wide linear operation quantises and makes tables without a barrier in
\* between: a thread makes the tables of what it has quantised.
QuantiseWideLut(t) ==
  /\ pc[t] = "quantise" /\ way[t] = "wide_lut"
  /\ quantised' = Put(quantised, QuantiseShare(P(t), way[t], t), LAMBDA u : Tag(t))
  /\ tables' = Put(tables, TableShare(P(t), t), LAMBDA u : quantised'[u])
  /\ scales' = Put(scales, ScaleShare(P(t), way[t], t), LAMBDA u : quantised'[u])
  /\ Barrier(t, "multiply")
  /\ UNCHANGED <<node, way, jobVars, packed, out>>

\* ggml_row4_cpu_compute: thread 0 makes the counter, in a part of the buffer that
\* held something else before.
QuantiseRow4(t) ==
  /\ pc[t] = "quantise" /\ way[t] \in RowWays
  /\ next_job' = IF t = 0 /\ uses_dynamic_jobs(P(t), way[t]) THEN 0 ELSE next_job
  /\ quantised' = Put(quantised, QuantiseShare(P(t), way[t], t), LAMBDA u : Tag(t))
  /\ Barrier(t, "multiply")
  /\ UNCHANGED <<node, way, mine, current_chunk, packed, tables, scales, out>>

\* preprocess: activations that come quantised are read where they are.
Tables(t) ==
  /\ pc[t] = "tables"
  /\ LET source(u) == IF P(t).f32 THEN quantised[u] ELSE Tag(t)
     IN /\ tables' = Put(tables, TableShare(P(t), t), source)
        /\ scales' = Put(scales, ScaleShare(P(t), way[t], t), source)
  /\ Barrier(t, "multiply")
  /\ UNCHANGED <<node, way, jobVars, packed, quantised, out>>

\* Faulty: the counter starts at the first chunk.
FirstZero == 0

\* "Every thread starts at ith, so the first unprocessed chunk is nth."
FirstFree == NThreads

Counter(t) ==
  /\ pc[t] = "counter"
  /\ current_chunk' = IF t = 0 THEN FirstFree ELSE current_chunk
  /\ mine' = [mine EXCEPT ![t] = t]
  /\ Barrier(t, "multiply")
  /\ UNCHANGED <<node, way, next_job, packed, bufferVars, out>>

\* The node is done; ggml_graph_compute_thread waits for the others.
EndNode(t) ==
  /\ node' = [node EXCEPT ![t] = @ + 1]
  /\ Barrier(t, IF node[t] = Len(Products) THEN "done" ELSE "node")

\* Tiles, a range of outputs or jobs that are not claimed.
Multiply(t) ==
  /\ pc[t] = "multiply" /\ way[t] # "direct" /\ ~uses_dynamic_jobs(P(t), way[t])
  /\ out' = [out EXCEPT ![node[t]] = @ (+) SetToBag(Outputs(P(t), way[t], t))]
  /\ EndNode(t)
  /\ UNCHANGED <<way, jobVars, packed, bufferVars>>

Total(p) == NChunks(p)[1] * NChunks(p)[2]

\* A chunk, and a claim of another one unless every thread had one for itself.
MultiplyChunk(t) ==
  /\ pc[t] = "multiply" /\ way[t] = "direct" /\ mine[t] < Total(P(t))
  /\ out' = [out EXCEPT ![node[t]] = @ (+) SetToBag(Chunk(P(t), mine[t]))]
  /\ IF NThreads >= Total(P(t))
     THEN EndNode(t) /\ UNCHANGED <<mine, current_chunk>>
     ELSE /\ mine' = [mine EXCEPT ![t] = current_chunk]
          /\ current_chunk' = current_chunk + 1
          /\ UNCHANGED <<pc, next, node>>
  /\ UNCHANGED <<way, next_job, packed, bufferVars>>

NoChunkLeft(t) ==
  /\ pc[t] = "multiply" /\ way[t] = "direct" /\ mine[t] >= Total(P(t))
  /\ EndNode(t)
  /\ UNCHANGED <<way, jobVars, packed, bufferVars, out>>

\* A claim, and the job if there is one left.
MultiplyJob(t) ==
  /\ pc[t] = "multiply" /\ uses_dynamic_jobs(P(t), way[t])
  /\ next_job' = next_job + 1
  /\ IF next_job < Jobs(P(t), way[t])
     THEN /\ out' = [out EXCEPT ![node[t]] = @ (+) SetToBag(Job(P(t), way[t], next_job))]
          /\ UNCHANGED <<pc, next, node>>
     ELSE EndNode(t) /\ UNCHANGED out
  /\ UNCHANGED <<way, mine, current_chunk, packed, bufferVars>>

\* Another context that uses the model packs weights this one could not pack.
Publish(k) ==
  /\ Products[k].lut /\ ~packed[k]
  /\ Racing \/ (\A t \in Threads : node[t] < k) \/ (\A t \in Threads : node[t] > k)
  /\ packed' = [packed EXCEPT ![k] = TRUE]
  /\ UNCHANGED <<threadVars, jobVars, bufferVars, out>>

Done == (\A t \in Threads : pc[t] = "done") /\ UNCHANGED vars

Thread(t) ==
  \/ Begin(t) \/ QuantiseLut(t) \/ QuantiseDirect(t) \/ QuantiseWide(t) \/ QuantiseWideLut(t)
  \/ QuantiseRow4(t) \/ MultiplyJob(t)
  \/ Tables(t) \/ Counter(t) \/ Multiply(t) \/ MultiplyChunk(t) \/ NoChunkLeft(t)

Next == Done \/ (\E t \in Threads : Thread(t)) \/ (\E k \in DOMAIN Products : Publish(k))

Spec == Init /\ [][Next]_vars
-----------------------------------------------------------------------------
(***************************************************************************)
(* Properties.                                                             *)
(***************************************************************************)
Ways == {"none", "lut", "direct", "wide", "wide_lut"} \cup RowWays
Tags == (0 .. Len(Products)) \X Ways
\* The type invariant.
TypeOK ==
  /\ pc \in [Threads -> {"node", "quantise", "tables", "counter", "multiply", "wait", "done"}]
  /\ next \in [Threads -> {"node", "tables", "multiply", "done"}]
  /\ node \in [Threads -> 1 .. Len(Products) + 1]
  /\ way \in [Threads -> Ways]
  /\ mine \in [Threads -> Nat]
  /\ {current_chunk, next_job} \subseteq Nat
  /\ packed \in [DOMAIN Products -> BOOLEAN]
  /\ {quantised, tables, scales} \subseteq [Inputs -> Tags]
  /\ DOMAIN out = DOMAIN Products
  /\ \A k \in DOMAIN Products : \A c \in BagToSet(out[k]) :
       /\ c.row \in 0 .. Products[k].nr0 - 1
       /\ c.col \in Cols(Products[k])

\* A thread that multiplies finds all inputs of the product prepared, for this
\* product and for the way it multiplies: no thread has still to write its share,
\* and none has begun to overwrite the work buffer for the next node.
InputReady ==
  \A t \in Threads : pc[t] = "multiply" =>
    \A u \in Prepared(P(t)) :
      IF way[t] \in {"lut", "wide_lut"} THEN tables[u] = Tag(t) /\ scales[u] = Tag(t)
      ELSE P(t).f32 => quantised[u] = Tag(t)

\* When all threads are past a node, each of its outputs was computed exactly
\* once, with the weights of its own plane: the shares and the chunks leave
\* nothing out and do not overlap, whoever claims them.
ComputedOnce ==
  \A k \in DOMAIN Products : (\A t \in Threads : node[t] > k) => out[k] = SetToBag(Outs(k))

\* One of two threads decided before another context had packed the weights of
\* their node, and the other one after that.
PackedMeanwhile(t, u) ==
  /\ Racing /\ packed[node[t]]
  /\ \/ {way[t], way[u]} = {"wide", "wide_lut"}
     \/ {way[t], way[u]} = {"direct", "lut"} /\ (P(t).f32 \/ P(t).wild = {})

\* "All workers make the same decision before any barrier": they can differ only
\* over a pack that another context published between their decisions, never over
\* the activations or what another thread has done.
SameWay ==
  \A t, u \in Threads :
    node[t] = node[u] /\ {pc[t], pc[u]} \intersect {"node", "wait", "done"} = {} =>
      way[t] = way[u] \/ PackedMeanwhile(t, u)
=============================================================================
