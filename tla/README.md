# A verification of the inference core of ifairy.cpp

This directory holds TLA+ models of the parts of ifairy.cpp (a fork of
llama.cpp and ggml, reduced to CPU inference of iFairy models) in which
concurrency, ordering and bookkeeping make the code hard to test, together with
the TLC runs that check them on small instances and the TLAPS proofs that lift
the most important results to every instance. `PROJECT.json` is the index:
components, runs, the faulty variants every property is shown to detect, the
source lines behind every definition, findings, hazards and theorems.

    tlc -workers 2 -config MCThreadpool_pool.cfg MCThreadpool.tla     one run
    tlapm ThreadpoolProofs.tla; tlapm LutPackProofs.tla              the proofs

Contents: 1 the system; 2 the modules and the code; 3 the runs; 4 the proofs;
5 disagreements between code and documentation; 6 what is assumed, and what is
not modelled; 7 the plan.

## 1. The system

A program (`tools/main`, `llama-bench`) loads a model and creates a context.
`llama_decode` checks a batch of tokens, cuts it into micro-batches, finds cells
for them in the memory of the model, builds a tensor graph per micro-batch, lays
it out in a buffer and has the CPU backend compute it. The backend prepares the
weights (LUT packs), plans the graph and runs its nodes on a pool of threads.
Within a node, threads share the work of an operator and meet at barriers of
their own. The tools log through a worker thread.

    tools --------> common/log            (messages through a ring, worker thread)
      |
    llama_context --> batch allocator     (micro-batches, order of the outputs)
      |      |-----> memory:              (slots for micro-batches, masks)
      |      |         KV cache | pair of KV caches | recurrent | hybrid
      |      \-----> graph allocator     (a block of the buffer for each tensor)
    CPU backend ---> LUT packs            (prepare_graph, before the graph)
      |
    thread pool ---> matrix products      (every thread, one node after another)

### Parts that are modelled

| part | state | operations | what is hard | what makes it correct |
|---|---|---|---|---|
| thread pool, `ggml-cpu.c` | `n_graph`, `n_threads_cur`, `pause`, `stop`, barrier counters, abort index, mutex and condition variable, per thread `last_graph`, `pending` | graph_compute, kickoff, poll, sleep, barrier, abort, pause, resume, free | polling without the mutex, wakeups, a barrier that is reused at once, abort seen by threads at different times | nodes in order, nobody computes after graph_compute has returned, all stop at the same node, no lost wakeup |
| LUT packs, `lut/ggml-ifairy-lut-transform.cpp` | process-wide cache by address and shape, `tensor->extra`, list of extras, mutex | transform_tensor, lut_free, the look of the matrix product | the look at `tensor->extra` before locking, two contexts that pack one model, failures half-way, a cache that outlives the model | a pack is released once, one pack for equal weights, a product reads a live pack of its weights |
| matrix products, `ggml-cpu.c`, `legacy-ifairy-cpu.cpp`, `wide-linear*.cpp` | work buffer, `current_chunk`, per thread the way it has chosen | quantise, tables, counter, multiply, barriers in between | shares that differ between phases, a work buffer that is reused by the next node, a decision made by every thread for itself, chunk claims | inputs ready, same way for all, every output once |
| batch allocator, `llama-batch.cpp`, `llama-context.cpp` | the batch, which of its tokens are used, the swaps that sort the outputs | init, split_simple, split_equal, split_seq, output_reorder | sequences of different lengths taken apart in rounds, tokens in several sequences, outputs that are sorted when asked for | no token lost, repeated or before an earlier one of its sequence; each output where the caller looks |
| KV cache, `llama-kv-cache.cpp`, `llama-kv-cells.h` | per stream: cells (position, pending shift, sequences), used set, position counts, search head; pending copies; per sequence the end of its prefix | the `llama_memory_*` calls, find_slot, prepare, apply_ubatch, update, mask, prefix sliding, saving and loading | derived counters, undoing a dry run, updates that are delayed until the next decode, eviction under a window or behind a prefix, a micro-batch that fails after earlier ones | a token attends to the tokens of its sequence, each once, at the right distance; a decode behind a prefix finds room |
| pair of caches, `llama-kv-cache-iswa.cpp` | two KV caches | every call on both, a batch in both or neither | one cache reuses cells that the other keeps, positions are reported by one | layers of both kinds see the same text, as far as a window goes |
| recurrent memory, `llama-memory-recurrent.cpp` | cells with position, source of the state, sequences; tails; head and number of used cells | the `llama_memory_*` calls, prepare, find_slot, moving of states by the graph, saving and loading | states are shared, swapped and moved so that a micro-batch has adjacent cells; removals that are refused | a sequence has the state of its own tokens, all of them |
| hybrid memory, `llama-memory-hybrid.cpp` | a KV cache and a recurrent memory | every call on both | one refuses, runs out, or shares where the other copies | both go on from the same text |
| graph allocator, `ggml-alloc.c` | free blocks, per tensor the use counts, offsets of the last measure, the buffer | measure, reuse in place, free, keep for the next graph, grow | blocks that merge, a parent's block taken over, a layout that is kept for other sizes | free blocks and blocks in use cover the buffer once; a node reads what its parents computed |
| log, `common/log.cpp` | ring, head and tail, running, worker thread, file | add, worker, pause, resume, set_file | full against empty, growing while wrapped, the end entry | first in first out, the file set at the time, pause returns |

How they interact. The main thread of a context calls all of these in order: LUT
packs are made before the kickoff of the graph that uses them, so that the only
concurrency a pack sees is that of *other* contexts (LutPack: `Callers`), and a
matrix product sees packs appear while it runs only for that reason (MulMat:
`Publish`). The products rely on the pool for two things, that all threads are in
the same node and that they agree on `nth`; Threadpool states them as `NodeOrder`
and `SameShares`, and MulMat takes them for granted in `EndNode`. The memories are
used by one thread; they meet failure, because a computation can fail or be aborted
(Threadpool's `ec = "aborted"` is `UbatchFails` of the memories). Which memory there
is depends on the model: `KvPair` and `MemoryHybrid` are compositions of the modules
of their parts, every call being a step of both, and their property is the relation
between the two that no part can state alone.

### Parts that are not

| part | state and operations | verdict |
|---|---|---|
| context | encoding, embeddings, graph reuse, adapters, file format of a state | decode's memory side and the outputs are modelled, the rest is not |
| backend scheduler and registry | splits, copies of inputs, events | this tree builds the CPU backend only: one split, no copy, no event |
| samplers, n-gram drafts, speculation, grammar | rings, maps, stacks | sequential callers of the library; the grammar is the one worth a module as a pure algorithm |
| other operators, quantisation kernels, SIMD | floating point | out of reach; most of the lines of this repository |
| model files, GGUF, vocabulary, templates, arguments, Python tools, vendored code | I/O, text | sequential, about bytes and text |
| training and optimisation, model quantisation | offline | not used for inference |

`PROJECT.json` has the same list with the sources of each part.

## 2. The modules and the code

| module | models | role |
|---|---|---|
| `Threadpool` | `ggml-cpu.c`, `ggml_graph_compute` and everything below it up to the operators | component |
| `ThreadpoolInv` | | inductive invariant |
| `ThreadpoolProofs` | | theorems |
| `LutPack` | `lut/ggml-ifairy-lut-transform.cpp`, `prepare_graph` | component |
| `LutPackProofs` | | inductive invariant and theorems |
| `MulMat` | the matrix products and the linear operation of row4 | component |
| `MulMatProofs` | | arithmetic of the shares, inductive invariant and theorems |
| `LogSink` | what a log promises | abstract specification |
| `CommonLog` | `common/log.cpp` | component, implements `LogSink` |
| `CommonLogProofs` | | inductive invariant, theorems, refinement |
| `Recursion` | | induction and recursion without an operator parameter, for the proofs |
| `KvStore` | `include/llama.h`, the `llama_memory_*` functions and `llama_decode` | abstract specification |
| `KvCells` | `llama-kv-cells.h`, as operators on a record | data type |
| `KvCache` | `llama-kv-cache.cpp` and the memory side of `llama_context::decode` | component, uses `KvCells`, implements `KvStore` |
| `KvCacheProofs` | | the methods of `KvCells`, inductive invariants and theorems |
| `KvPair` | `llama-kv-cache-iswa.cpp` | composition of two `KvCache` |
| `LlamaBatch` | `llama-batch.cpp`, the outputs of `llama_context::decode` | operators, used by the next |
| `RecurrentStore` | what a recurrent memory promises | abstract specification |
| `MemoryRecurrent` | `llama-memory-recurrent.cpp`, `build_rs`, `llama_context::decode` | component, implements `RecurrentStore` |
| `MemoryRecurrentProofs` | | theorems about the splits of a batch, its outputs and the cells of the memory; inductive invariant |
| `MemoryHybrid` | `llama-memory-hybrid.cpp` | composition of `KvCache` and `MemoryRecurrent` |
| `GraphAlloc` | `ggml-alloc.c` | component |
| `GraphAllocProofs` | | inductive invariant and theorems |
| `MC...` | | instances for TLC |

An action is named after the function, or the critical section of a function, it
models; variables keep the names of the members. A definition marked *Faulty* is
not part of the model: it is a plausible bug in the definition that follows it,
and the property listed with it in `PROJECT.json` is violated if the faulty form
is put in its place.

**Threadpool.** The build without OpenMP (the one the project's README gives).
Every load and store of a shared atomic is one step, so that the order of
`n_threads_cur` and `n_graph` in the kickoff, the order in which
`ggml_graph_compute_thread_ready` reads them back, and every instruction of
`ggml_barrier` interleave with those of the other threads. A critical section of
a secondary thread is one step, because all it reads is written under the same
mutex; the main thread's is several, because secondary threads poll without it.
`pc` has a label for each of these points. The main thread may compute, pause,
resume and free in any order; the abort callback may fire after any node.
`SpuriousWake` is POSIX's leave to return from a wait for no reason.

**LutPack.** A caller is the main thread of a context that walks the weights of
its graph (`Prepare`), looks at `tensor->extra` without the mutex, and goes
through the two critical sections of `ggml_ifairy_lut_transform_tensor_impl`
(`Lookup`; `Insert`), with the allocation and the encoding in between. `new
ifairy_lut_extra` does not initialise the fields and makes them reachable at
once: `NewExtra` leaves null or `Garbage` in `packed_w`, `Publish` writes it. A
buffer remembers which model's weights it was packed from. `Reload` is the
program: it frees the model and loads another at the same addresses.

**MulMat.** A product is a record of its dimensions and of what decides how it is
computed. Numbers are replaced by where they come from: an entry of the work
buffer holds the product and the way it was prepared for, an output is the row,
the column and the plane of weights it was computed with, and the results of a
node are a bag. The ways are the direct product with claimed chunks
(`ggml_compute_forward_mul_mat`), the LUT product
(`ggml_legacy_ifairy_cpu_compute_mul_mat`: quantise, barrier, tables, barrier,
tiles), the wide linear operation with and without LUT, and the linear operation
of row4 on its three paths (`ggml_row4_cpu_compute`): token by token, pairs of tokens, or a panel
that is filled up to a multiple of eight tokens, with jobs in turn or claimed
from a counter that thread 0 constructs in the work buffer. The barrier counts
who arrives, wherever in the code that is, as the real one does: threads that
have taken different ways could meet at different barriers, and a thread that
nobody joins is a deadlock, which TLC looks for.

**CommonLog.** Each critical section of the log's mutex is one step, printing is
another. The ring is a sequence, `head` and `tail` are indices from 0 as in the
code, and `Add` doubles it exactly when the code does. An entry also carries
the file that was set when it was logged, which the code does not store: the
refinement of `LogSink` says that it is the file the message ends up in.

**KvCells, KvCache.** An operator of `KvCells` maps the value of a
`llama_kv_cells` to its value after the call, all its members included: `used`
and the bags `seq_pos` are updated as the methods update them, not derived. In
`KvCache` the keys and values in a cell are the token they were computed from
and the position the key is rotated to. A decode is `Begin` (carry out pending
copies and shifts, dry run of all micro-batches, undo), then one `Ubatch` per
micro-batch, any of which may instead be `UbatchFails`, followed by the removal
of its positions. `seen` is what the tokens of the last micro-batch attend to
according to `set_input_kq_mask`. The refinement mapping to `KvStore` is

    tokens <- the tokens in used cells, with the copies made that are pending

so that a `seq_cp` between streams takes effect when it is called in the
abstract specification, and with the next decode in the code; and `seen <- seen`,
so that every decoded token has to attend to exactly the tokens of its sequence
that are not masked, *at the rotation that its key really has*. Under a window
`KvStore` may forget tokens, but only those the next token cannot attend to.

The sliding prefix is this fork's own. A sequence has a prefix (`SetPrefix`, any end up to the
cap, at any time) and a window behind it; `find_slot` reuses the cells of tokens that are in neither
and limits itself to `prefix_sliding_size` cells. The mean of the keys that the
code keeps beside them is left out. `LoadSeq` is `llama_state_seq_get_data`
followed by `llama_state_seq_set_data`, through cells that `find_slot` has to find next to each other;
`Reload` is `llama_state_get_data` and `llama_state_set_data`, in another process.

**KvPair, MemoryHybrid.** Every call is a step of both parts at once, written as
the conjunction of the parts' actions; what the composition itself does is the rest:
the order in which the parts are asked and which refusal stops the other, the
ways to split a batch, which part reports positions, whether shifts are
possible. `InStep` relates what the two parts hold, and for the pair what a
layer of each kind attends to.

**LlamaBatch, MemoryRecurrent.** A batch is a sequence of tokens with the
sequences each belongs to. `Accepts` has the checks of `init` in their order,
`Splits` one of the ways to take a batch apart, `ComputedOrder` and
`output_reorder` the way of an output from the order of computation back to
that of the batch. A cell of the recurrent memory has a state, abstracted to
the tokens it was computed from; `find_slot` (`Unshared`, `Assign`, `Gathered`,
`Taken`, `ZeroCell`) says which cells a micro-batch uses and where their states
come from, and `StatesMoved` is what the graph then does. `prepare` runs it on a
copy, `Compute` again on the memory.

**GraphAlloc.** TLC builds every graph there is of a few tensors, node by node
(`Add`, `Built`). `Measure` is a round of the walk of `ggml_gallocr_alloc_graph_impl`:
allocate, count down the parents, free them. The inputs, which the code allocates
before it counts, are the first rounds of the walk; they have no parents and look at no
counts. After `Reserved` the graph is computed from the
offsets, for the number of tokens it was measured with or another that does not
need more (`needs_realloc`). Every address remembers who wrote to it last.

## 3. The runs

Twelve runs, eight of which pass and four of which show a disagreement (section 5).

| run | instance | checks | shows |
|---|---|---|---|
| `pool` | 3 threads, of which graphs use 2 or all (requests of 3 and 4, clamped), 2 nodes, 2 graphs, fair | `TypeOK Quiescent NodeOrder AbortAgreement SameShares GraphReturns FreeReturns PauseSleeps` | nodes are computed in lockstep; a thread is in the graph only while the main thread is; an abort stops all at one node; no lost wakeup, no thread left in a barrier |
| `mixed` | 2 threads, requests of 1 and 2 | `Quiescent` violated | a worker runs a graph twice |
| `pack_shared` | 2 contexts, 3 tensors of which two share weights, 3 buffers, 2 models | `TypeOK OneOwner SharedPack PackUsable MissingOnlyRacing` | one owner per pack in every race and failure; a product reads a live pack made for its key, of an earlier model only out of the cache, and goes without one only in the race of `pack_race` |
| `pack_race` | 2 contexts, 2 tensors | `MissingDeclines` violated | a pointer that was never written is used as a pack |
| `log` | ring of 2 that doubles twice, 5 messages, 2 files | `TypeOK Implements PauseReturns` | the log implements the sink; pause returns, unless its entry fills the ring |
| `mm` | 2 threads, 11 products covering every way | `TypeOK InputReady SameWay ComputedOnce` and no deadlock | inputs ready, one way for all, every output once |
| `kv` | 2 sequences, 3 cells, one stream, batches of 2 to 4 micro-batches, shifts, states saved and loaded | `TypeOK CountsExact KeysFollow NoGarbage PrepareRestores Implements` | the cache implements the store; placing is a dry run; the derived members of the cells are exact |
| `kv_setups` | ten setups, see below | `CellsSound InStep RoomBehindPrefix PrefixWhole NoGaps SetupsImplement` | the same for streams, windows and prefixes; pairs of memories stay in step |
| `kv_dry` | window, batches of several micro-batches | `PrepareRestores` violated | placing a batch loses tokens |
| `memory` | 3 sequences in 3 cells, micro-batches of 2, batches of five shapes, both ways to split, shifts both ways | `TypeOK SlotsSound SplitsWhole OutputsInPlace Implements` | a sequence has the state of its own tokens; no assertion of `find_slot` fails; splits are whole, outputs in place |
| `memory_abort` | the same, any micro-batch may fail | `OnlyProcessed` violated | a state that was never computed stays |
| `alloc` | every graph of 1 input and up to 3 nodes, batches of 0 to 2 tokens | `TypeOK BlocksExact ValuesKept` | no block is given out twice or lost, no value is overwritten before its last use |

`kv_setups` starts in one of ten instances of `KvCache`, `KvPair` and
`MemoryHybrid`, each with constants of its own: `small` (cells that run out,
divisions), `perseq` (a stream per sequence, two pending copies), `window`,
`prefix` (a window of two that goes round four times behind a prefix),
`prefixes` (two of them, copied and loaded), `pair` (a window that goes round in
three cells beside a cache that keeps everything), `pairfull` and `pairstreams`
(two sequences that run out of cells, in one stream or two), `hybrid` (two
sequences, one cell less than they need) and `hybridmoved` (positions shifted and divided).

Why the bounds are enough for the cases that matter:

- *Threads.* Three threads are the smallest pool where two wait for one in a
  barrier while it is already being reused, and where one thread can stay out of
  the graphs of two others. Two nodes give a barrier between nodes and the last
  one; the second graph starts while waiters of the first may still spin.
- *Packs.* Two callers and two tensors with one key give both collisions that
  the second critical section handles (same tensor, same weights), with a third
  buffer to be left over; a third tensor has a key of its own. Two loads give one
  reuse of addresses. Callers and buffers are interchangeable, so symmetry is
  sound; no liveness is checked with it.
- *Log.* Five messages and the end entry take a ring of 2 through 4 to 8 with
  head at every offset, so the expansion is met both wrapped and unwrapped.
- *Products.* Sizes are chosen so that nothing divides: rows over threads, rows
  over tiles of two, columns over threads, an odd column count per plane with
  kernels of two; one column (vector chunks, tables cut by group) and several.
  The last product has twelve chunks for two threads, so chunks are claimed in
  every order; it follows five products that used the same buffer and counter. The
  products of row4 come after these in the same buffer, so that its counter is
  constructed where other data was; a panel has tokens to fill up.
- *Cache.* Two sequences that can share cells, and one cell more than the tokens
  of one micro-batch, make every placement wrap, evict or refuse. Every position
  range is enumerated. A window of 2 is passed twice within four positions (`pair`), and a
  prefix of one with a window of two in four cells goes round within seven.
- *Recurrent memory.* Three sequences in three cells are the smallest number for which a
  micro-batch of two has to swap with a third that is not part of it, and where
  sharing leaves an empty cell for one sequence but not for two. The shapes have
  tokens in two sequences, sequences out of order and of different lengths.
- *Graphs.* With an input and three nodes a block can be freed between two others, a
  parent be used twice, be an output, or be shown by a view of a view.
  Sizes of 0 to 2 units make two tensors differ in a first measure and agree in a second.

Fairness. In `Threadpool`, every thread is scheduled: it takes a step that stays
enabled (weak fairness per thread, of all its steps together). That is the OS
scheduler's promise and nothing more: in particular a condition wait is left
only by a broadcast (or spuriously, without fairness), and what the main thread
calls next is not fair at all, so a pool may stay idle or paused forever. The
model's mutex is not contended by fair secondary threads, since their critical
sections are one step; the main thread's are finite. In `CommonLog` the worker
and the thread inside `pause`, `set_file` or `resume` are scheduled; nobody has
to log. The other components state safety only; that the products end is the absence of deadlock, as every step of a thread makes progress.

Every run checks for deadlock: `Freed` and `Done` are the explicit ends of the
terminating models.

## 4. The proofs

`ThreadpoolProofs` proves with TLAPS, for every pool size, number of nodes,
number of graphs and set of requests:

| theorem | statement | assumes |
|---|---|---|
| `TypeCorrect` | `Spec => []TypeOK` | |
| `PoolQuiescent` | `Spec => []Quiescent` | `OneWidth` |
| `NodesInOrder` | `Spec => []NodeOrder` | `OneWidth` |
| `SharesAgree` | `Spec => []SameShares` | `OneWidth` |
| `AbortsAgree` | `Spec => []AbortAgreement` | `OneWidth` |

`OneWidth` says that all graphs of a pool use the same number of threads after
clamping. It is an assumption about the caller and not always true:
`ggml_graph_plan` lowers the number of threads to what the largest node can use
(`ggml-cpu.c:3193`), so a context with small graphs can mix widths, and `mixed` shows that
`Quiescent` is then false. It does hold for graphs with a matrix product, which
ask for all threads. `TypeCorrect` needs nothing.

*The invariant.* None of the properties is inductive. `NodeOrder`, for
instance, follows for one step only if one knows that nobody is released from
a barrier that a thread has not entered, for which one has to know
that the barrier's counter counts the threads in it, that they all agree on how
many they are, that a thread that has not noticed the previous barrier's end is
not counted, and that no thread outside the graph can join it. `IInv`
(`ThreadpoolInv`) says this around one idea. A barrier that is completed moves
all threads at once, whether or not they have noticed: `Pos(t)` counts the
barriers that `t` has crossed in this sense, and `Lockstep` says that all threads
of a running graph are at the same position, a thread that has not yet seen the graph being
at position 0. Around it: `WidthInv` (the number of threads is fixed from the
first kickoff), `IdleInv` (threads beyond the width only ever search),
`CrewInv` (each other thread is yet to join, about to start, or inside; or, when
no graph runs, resting), `BarrierInv` (the counter is the number of threads
that have arrived, and whoever resets it is alone in doing so), `NodeInv` and `AbortInv`
(where a thread can be relative to the abort index) and `EndInv`. The type
invariant is strengthened by `InBounds`.

*Layout.* Lemmas first: facts about the width and labels, which threads a step
moves, cardinalities of the arrived set. Then one lemma per action with one
step per conjunct the action can disturb; the cases where the main thread's
step changes what "running" means (`KickGraph`, `KickWake`, the last
`BarPass`) are the longest. `InvHolds` puts them together, and each theorem
follows from `IInv` implying its property. The assumptions on the constants
(`NThreadsAssumption` and so on, in `Threadpool`) are evaluated by TLC in
every run of that module.

`LutPackProofs` proves, for any number of contexts, tensors, buffers and models
loaded, and whatever tensors share a key:

| theorem | statement | assumes |
|---|---|---|
| `PackTypes` | `Spec => []TypeOK`, with who holds the mutex | |
| `OnlyRacing` | `Spec => MissingOnlyRacing` | |
| `PackOwnership` | `Spec => []OwnInv` | |
| `PacksShared` | `Spec => []SharedPack` | |
| `OneOwnerEach` | `Spec => []OneOwner` | |
| `PackReadable` | `Spec => []PackUsable` | |
| `OnlyLoadsStale` | `Spec => [][CacheFresh /\ UNCHANGED weights => CacheFresh']_vars` | |

The first invariant, `LInv`, adds to `TypeOK` that a caller between the critical sections has
a pack (`Holding`) and that fields of an extra are unwritten only while a
caller is at "publish" with its tensor (`Unwritten`). The latter is what
`OnlyRacing` rests on; it also shows that a reload, which happens at rest, meets
no unwritten pointer among those the extras own.

Who owns a pack is the second, `OwnInv`. Memory is held by a caller (`Holds`), kept by an
extra (`Keeps`), by an extra of a model that is gone (`orphans`), or by the cache. `Claimed` says that
memory that is not free is held by one of them; `CallerAlone`, `ExtraAlone` and
`CacheAlone` that no two do. The difficulty is what a
caller finds when it takes the mutex again after encoding: `NotYetPacked` says
that a caller about to publish finds no pack at its tensor (or the pack there
would leak), `FromCache` that a pack which is not the caller's is the cached one, and `Origins`
that memory from malloc is never cached. `OneOwner` follows by
counting. The third, `ContentInv`, says what a pack was made from. The cache is keyed by
address, and no call in `src/` empties it when a model is unloaded, so that an entry
may be of an earlier model: a pack is `Fresh` or it is the cached one, and that is `Made` for
its key. `PackUsable` says the same of what a product reads. `OnlyLoadsStale` is the other half: an entry
is made fresh, and only loading another model at the same addresses makes it stale. One
lemma per action for each invariant.

`CommonLogProofs` proves, for a ring of any initial size, any files and any number of
messages:

| theorem | statement | assumes |
|---|---|---|
| `LogTypes` | `Spec => []TypeOK` | |
| `LogInvariant` | `Spec => []LogInv` | |
| `LogImplementsSink` | `Spec => Sink!Safety` | |
| `FullForever` | `Spec => [][Full => Full']_vars` | |

`Full` is the case that `pause` finds the ring with one free entry, in
which the pushed end entry makes the ring look empty: nothing leads out of it, so
`pause` never returns (section 5).
`LogInv` is a table of the phases of the worker (`Phases`): while messages are
accepted no waiting entry ends the worker; a pause puts one that does behind
all others, be the ring full or not; when the worker has ended nothing waits, until `resume`. With
`SameFile` (what waits was logged for the file that is set) this gives the refinement, `Sink!Safety`:
the initial state maps to an initial state, and each action to an action of the
sink or to a stutter. Its core are two lemmas on the ring, `Waiting` after an entry is
added with and without expansion (`Unrolled` puts the same entries in the same order at the start
of the larger ring), and after one is taken. The temporal half of `Implements`, `WF_vars(Write)`, is
checked by TLC.

`MulMatProofs` proves, for any graph of products of any sizes, any number of
threads, and any sizes of chunks, tiles, groups and panels:

| theorem | statement | assumes |
|---|---|---|
| `ProductTypes` | `Spec => []TypeOK` | |
| `ProductsInLockstep` | `Spec => []Lockstep` | `~Racing` |
| `InputsReady` | `Spec => []InputReady` | `~Racing` |
| `OneDecision` | `Spec => []SameWay` | |
| `OutputsOnce` | `Spec => []ComputedOnce` | `~Racing` |

`~Racing` says that no other context packs the weights of a product while it is
computed; with it threads can decide differently, which is the finding of `pack_race` seen from
the other side, and then wait at different barriers. `OneDecision` holds with it too, by an
invariant of its own, `Decided`: who is in the middle of a product has the way of weights
without a pack, or they have one by now and it has the way of weights with one. So this is all
that threads can differ over (`PackedMeanwhile`); without `Racing` they do not differ. The first part is arithmetic: `Cut` with `DivFacts`, that the
shares of quantising cover the columns and do not overlap; `TileRowsFacts`, the same for the rows of the LUT;
`ChunkFacts` and `ChunkCells`, that every output of `mul_mat` is in
exactly one chunk for every chunk size and number of planes, although kernels of two
rows step past odd ends (`EvenStart`) and a chunk may cross planes
(`SamePlane`); `JobFacts` for the jobs of row4. The second is the invariant.
`Lockstep` says that all threads are in the same phase of the same node: preparing,
making tables, or multiplying, where some may have left for the next barrier. Each phase says what
threads that have arrived left behind (`Prepares`), so that the
barrier turns "each thread did its share" into "all is prepared". While a product is
multiplied, `Progress` equates the bag of computed outputs with the set of outputs of
the pieces that nobody holds any more, that is `out[k] = SetToBag(Computed(k))`: no output counts
twice. When the node ends, `Computed` is everything (`Whole`). `InputReady` and
`ComputedOnce` follow from the phase alone.

`GraphAllocProofs` proves, for graphs of any number of inputs and nodes and batches of any size:

| theorem | statement | assumes |
|---|---|---|
| `AllocInvariant` | `Spec => []AllocInv` | |
| `AllocTypes` | `Spec => []TypeOK` | |
| `BlocksDivided` | `Spec => []BlocksExact` | |
| `ValuesSurvive` | `Spec => []ValuesKept` | |

The invariant speaks of the uses that are still to come: `From(k)` are the places of the nodes
from `k` on at which they name a parent, and a tensor is `Past` when none of them is its own or
that of a view of it, it is no output, and it was used at all. While a graph is
measured (`Walk`), the counters of a tensor are the numbers of its uses and of its views to
come (`Counts`); a tensor the walk has passed is allocated or `Past` (`Owned`); free
blocks and allocated tensors divide the buffer (`Divided`), which is `BlocksExact`; and of two tensors
the earlier one is out of the way of the later (`Compatible`, in `Placed`): their blocks are disjoint, or it
is past when the later one is computed, or the later one takes its place as its only child and last use.
The latter is what `ValuesKept` needs of the offsets, and it is all that `Reserved` carries over to the
layout that is kept. It stays true for later batches as sizes only shrink under
`needs_realloc`, which looks at nodes and their sources only; that an unused input has not grown
either follows as inputs are alike and a complete graph uses one (`LeafInv`, `NothingGrown`). A parent that was taken over may have another shape than its child (a broadcast
operand, in a graph measured for one token); the layout then fits no batch of more tokens,
and for the empty one the child has no cells to overwrite it with. `Computing` says that a computed tensor is past or holds its value.

Lemmas in layers: what a free list covers after a block is shrunk, grown, merged, or
inserted (`ShrunkFacts`, `Grown`, `MergedFacts`, `InsertedFacts`), from these what `dyn_alloc`
and `dyn_free` do (`DynAllocFacts`, `FreeFacts`); a tensor that takes a block, or that of its parent
(`BlockTaken`, `TakenOver`); one use less (`UseDone`), and a parent freed after
the last (`ChildDone`, `NodeFreed`); then one lemma per action. `RoomLeft` is the proof
that no allocation of the walk fails: `Room` has a block of the largest size for each tensor.

`KvCacheProofs` proves, for any number of cells, streams, sequences,
tokens, micro-batches and pending copies, with or without a window or a prefix:

| theorem | statement | assumes |
|---|---|---|
| `MethodsExact` | every method of `llama_kv_cells` keeps `Exact` | what the method asserts |
| `CountsStayExact` | `Spec => []CountsExact` | `~CopyOnto` |
| `KeysAlwaysFollow` | `Spec => [][KeysFollow /\ ~L => KeysFollow']_vars`, hence always without `L`; `L` is `LosesShared`, `LosesCopies`, `LosesShifts` or `Divides` | `~CopyOnto` |
| `NothingIsGarbage` | the same of `NoGarbage`, with `LosesShared` or `LosesCopies` for `L` | `~CopyOnto` |
| `TypeCorrect` | `Spec => []TypeOK` | `~CopyOnto`, `~SharedFails`, `~LoadPending`, `Divs = {}` |
| `DryRunRestores` | `Spec => []PrepareRestores` | `~CopyOnto`, `SwaType = "none"` |

`~CopyOnto` is the assertion at `llama-kv-cells.h:285`, which a build without assertions passes over; after
that the counts are wrong (section 5) and nothing is claimed. The other calls of the program are free. Keys
do not follow, and garbage is shown, after some of them, and the theorems name these as steps:
a micro-batch fails with a token of several sequences (`LosesShared`), state is loaded that was saved with copies or with shifts
pending (`LosesCopies`, `LosesShifts`), positions are divided (`Divides`), all as in section 5. No other step breaks the
property, wherever it holds, also after such steps (a sequence they spoiled may have been removed since); so the list is complete, and
a program that does none of these never sees a wrong key. `TypeCorrect` assumes that they are not possible, as
rotations leave their range with the keys. Where a window slides, `PrepareRestores` is false (`kv_dry`).

`Exact` is `CountsExactIn` with types, and that an empty cell has no sequence and no shift.
`seq_pos` is seen as a histogram (`Hist`): `HistRm` and `HistAdd` say that it changes by one
position when a cell loses or gets a sequence, `HistMoved` combines them, and `CellChanged` is the one
place where a changed cell meets all derived members. A method then has to be shown to change one
cell and to count as `Recount` says (`Follows`). The cache calls these methods in
walks over cells, sequences and micro-batches, which are folds: after some cells were visited, the cells
are `Behind` the ones at the start (exact, and the same where nobody was yet), which is what makes the
precondition of the next call true. A micro-batch has a place (`IsPlace`: as many cells of the stream as tokens) when
`find_slot` returns one (`FoundFacts`); placing is exact (`PlacingFacts`), and so is going back
(`WentBackFacts`), because a dry run starts with all shifts carried out: `set` does
not restore shifts. A copy to another stream counts a position where it is before the pending shift, and again
after it (`CopyCellExact`), whatever it is in between. `~CopyOnto` leaves out the `seq_cp` of section 5, for which `CountsExact` is false.

The same walks say what becomes of each cell: it is `Gone`, the `Same`, has `Less` (some sequences fewer, or gone),
is `Shifted`, or `Takes` a token (all of it, or what a purge left of it). A batch of micro-batches that is placed
leaves a chain of states, each related to the one before it (`Linked`), and going back along it leaves nothing
in a cell that was not there (`Back`), and the same as before when nothing is purged, which is where `SwaType` enters.
Two exact values with the same cells are equal (`SameCells`), so `DryRunRestores` is about the derived members as well.

`KeyInv` adds the buffers to `KvInv`: with the pending copies made in their order (`Made`), what a used cell
has is a computed token whose key is rotated to the position minus the pending shift (`InPlace`). It also says that no copy is
pending during a decode, so that `Written` changes what `InPlace` speaks of. A call that leaves the buffers alone
keeps it if each cell is `Carried` (gone, or position and shift moved by the same); a copy to another stream takes
cells and buffers of the source as a whole (`MadeFacts`); rotating moves the keys by the shifts that `reset_shift` forgets
(`RotatedFacts`). A micro-batch that fails overwrites its cells with nothing, and then removes its positions
from the first sequence of each token: with one sequence per token no cell of the slot stays in use, which is why
`LosesShared` is about the others. What `KeyInv` claims of the keys is a parameter: without claims (`Bare`) every step
keeps it, and each of the two properties is what one claim adds. Loading writes to adjacent cells, so the k-th of them gets the k-th of what was saved (`LoadedFrom`).

`MemoryRecurrentProofs` proves of the batch allocator, the outputs of a decode and the cells of the memory,
for batches of any length with any number of sequences, as many cells, and any `n_ubatch`:

| theorem | statement | assumes |
|---|---|---|
| `LogitsInPlace` | `LogitsOf(q)[t] = t` for each `t` in a sequence `q` of tokens | |
| `OutputsFound` | `Spec => []OutputsInPlace` | |
| `BatchesSplitWhole` | `Spec => []SplitsWhole` | `ShapesApart` |
| `CellsConsistent` | `Spec => []TypeOK` | `~AnyRmAll` |
| `SlotsAlwaysFound` | `Spec => []SlotsSound` | `~AnyRmAll` |

A way to split `Takes` a micro-batch if it is made of unused tokens, each once, none before one that goes before
it in `R` (`Before`), if what is used afterwards has with each token those before it (`Closed`), and if nothing is
taken only when nothing is left. `SplitsFacts` says that the splits then
cover the batch, once and in an order that `R` allows: it has no other hypothesis about the way. `R` is the order
of the batch for `split_simple` (`SimpleTakes`), and for the others the order of tokens that have a sequence in
common (`InTurn`). `split_seq` is a walk that is `Running` through one sequence set (`SeqTakes`); for
`split_equal`, the sets of a micro-batch do not overlap (`FirstsFacts`), each has its unused tokens in order from the
first one on (`RestFacts`, where `Closed` is needed: no used token follows), and as many of each are put one
after the other (`FlattenEqual`, `EqualTakes`). `ShapesApart` says that two tokens of
a batch have the same sequences or none in common; without it `SplitsWhole` is false (section 5). The outputs
do not need it: that the micro-batches are made of tokens of the batch (`SplitsType`) is enough, because what
`decode` records is a list of swaps that sorts them (`SwapsRecorded`), and the same swaps
sort whatever else is in that order (`Reordered`).

The invariant of the cells is `MemoryGood`: the cells are `Sound` (the tail of a sequence and the cell it is in
point at each other, a cell has a position exactly if it has sequences, no state waits to be moved), `head`
and `used` are right, and what is left of a batch is a sequence of micro-batches in which no sequence comes twice
(`IsUb`). `Parted` is why the splits make such micro-batches. A call takes sequences out of cells
(`DroppedSound`) or adds one to a cell (`JoinSound`); after a `seq_rm` of everything in all sequences
the cells are not `Sound`, hence `~AnyRmAll` (section 5). The calls between keep no more than that, and
`find_slot` breaks it on the way, so its loops are followed one at a time:

- after the first, only the first sequence of each part of the micro-batch has a cell (`Unshared`, `Alone`);
- a sequence that shares its cell, or has none, then takes a fresh one. There is one, because as many cells
  as sequences cannot all be taken while a sequence without a cell of its own is left (`Pigeons`), and the
  search goes on behind the last one without missing any (`Leads`, `Split`, `AssignFacts`): this is the assertion that would end the program;
- the cells are swapped until those of the micro-batch are adjacent (`Within`, `GatheredFacts`), a swap
  exchanging the tails of whoever is in them;
- the sequences of each part move in (`Placed`, `TakenFacts`), and the graph moves the states (`FoundFacts`).

`FindSlotFacts` says of all of it that a slot is found and that the cells are `Sound` again, for any
micro-batch that is `IsUb` and any `Sound` cells. It therefore holds in the dry run of `prepare`, and later
when the slot is looked for again, although the cells need not be the same. A state that is loaded
fills cells from the first on with those that were saved, in order (`SavedFacts`, `FilledFacts`).

`Recursion` holds induction and recursion over the naturals and over finite sets in a form the
provers can use: a predicate is given as the set of what satisfies it (`SetInduction`, `SubsetInduction`),
a step as a function (`Iteration`, `Folding`). `FoldKeeps` and `WalkKeeps` say that what
each step keeps holds at the end. They serve recursive functions and folds, such as
`CommonLog!Doubled`, the walks over the cells of a cache and those over a batch.

Model-checked only: that the memories implement what they promise (`Implements`), and room and gaps behind a window (`RoomBehindPrefix`, `PrefixWhole`, `NoGaps`) of `KvCache`; the compositions `KvPair` and `MemoryHybrid`
(`CellsSound` and `InStep` of the run `kv_setups`); section 7 says what is to be proved next. Liveness
under fairness (`GraphReturns`, `PauseReturns`, ...) and `ENABLED` are beyond the
prover and stay with TLC.

## 5. Disagreements between the code and what it says

Four runs end in a violation, and `PROJECT.json` quotes the comment or document
each contradicts:

- `mixed`: the kickoff stores `n_threads_cur` before `n_graph`. A worker that the
  previous, narrower graph left out can combine the previous `n_graph` (new to
  it) with the new width, start early, and run the graph a second time after
  the main thread has returned.
- `pack_race`: a second context that looks at `tensor->extra` between `new` and
  the assignment of its fields uses an uninitialised pointer.
- `kv_dry`: with a window, `prepare` restores the cells it placed tokens in
  but not those `apply_ubatch` purged on the way. A decode that finds no
  slot has lost tokens; one that succeeds computes its first micro-batches
  without tokens still in their window.
- `memory_abort`: a recurrent state cannot be taken back, so `seq_rm` refuses,
  and `decode`, which removes the positions of a failed micro-batch, does not
  look at its result. The position then counts a token the state has never seen.

Others were met on the way. The constants in parentheses keep them out of the
passing runs, so that these can say what holds otherwise; setting the constant
as shown makes TLC find the counterexample within seconds.

- `seq_cp` within a stream adds a sequence to cells that have it already, against
  the note at `llama-kv-cells.h:281`, and the position is counted twice
  (`kv` with `CopyOnto = TRUE`: `CountsExact`).
- `pos_div` accumulates the pending shift with the opposite sign of `pos_add`
  (`kv` with `Divs = {2}`: `KeysFollow`).
- after a failed micro-batch, `decode` removes the positions of the first
  sequence of each token only (`kv` with `SharedFails = TRUE`: `NoGarbage`).
- `seq_keep` with a stream per sequence leaves the other streams alone, where
  `include/llama.h:663` says "Removes all tokens that do not belong to the
  specified sequence"; `KvStore`'s `Keep` follows the code.
- a pack outlives the model it was made from: `ggml_ifairy_lut_free` is called by
  tests only, and the cache is keyed by address, so that a model loaded at the same
  addresses is computed with the packs of the one before. `Reload` does it in
  `pack_shared`; `PackUsable` and `OnlyLoadsStale` say that nothing else does.
- the threads of a product read `w->extra` each for itself, so that a pack
  published by another context in between splits them, against
  `legacy-ifairy-cpu.cpp:121` "All workers make the same decision before any
  barrier". `SameWay` says that this is the only way to differ; after it, threads wait at
  different barriers (`mm` with `Racing = TRUE`: `InputReady`, and a deadlock).
- `common_log::pause` adds the end entry without the test for a full ring that
  `add` has: with one entry free the ring then looks empty and the join
  never returns. The run `log` reaches this state (`Full`); `PauseReturns` says that it is for
  ever and that pause returns in every other.
- a state that is saved with a copy or a shift pending has keys that do not
  belong to its positions: `llama-kv-cache.cpp:1785` does not carry them out
  first (`kv_setups` with `LoadPending = TRUE`: `CellsSound`). And a sequence
  without tokens that is loaded into one that has some leaves these in place.
- with a sliding prefix, a micro-batch that fails within the prefix, or at its
  first token, lowers or unsets the prefix with the tokens that are removed
  (`llama-kv-cache.cpp:339`), although the caller is only told that they are gone
  (`PrefixFails = TRUE`); and a `seq_rm` behind what the window has overwritten
  succeeds and loses tokens (`AnyRm = TRUE`).
- `include/llama.h:668` calls the prefix an "immutable prefix boundary", and `seq_set_prefix`
  (`llama-kv-cache.cpp:551`) takes any end up to the cap at any time. A prefix that is raised when the window has
  passed its new end promises tokens that may be overwritten already: later tokens miss them.
  `PrefixWhole` makes an exception for this one call (`RaisedLate`), and for no other.
- in a pair of caches, "the base cache is a superset of the SWA cache"
  (`llama-kv-cache-iswa.cpp:108`). It is not when a state is loaded and one of the two
  has no adjacent cells (`LoadFails = TRUE`: `InStep`). When a sequence is cut
  behind what the windowed cache still has, `seq_pos_max` (line 112), which
  looks at that cache only, reports that the sequence is empty or ends early
  (`PastWindow = TRUE`: `InStep`).
- in a hybrid memory, a partial `seq_cp` copies a part of the keys and values but
  all of the recurrent state (`Parts = TRUE`: `InStep`), and a copy to a
  sequence that has tokens adds to them in one memory and replaces them in the
  other (`CopyOnto = TRUE`).
- a `seq_rm` of everything in all sequences empties the cells of a recurrent
  memory but leaves the tails that point at them, so that the next batch
  ends in an assertion (`memory` with `AnyRmAll = TRUE`: `SlotsSound`).
- in `llama_batch_allocr::init`, the checks for partial subsets of sequences and
  for decreasing positions (lines 328 to 355) never fail: `cur_seq_pos` is never
  set, and `cur_seq_set[s]` always has `s` itself. A batch of tokens of sequence 0,
  of 0 and 1, and of 0 again is accepted by an empty memory, and `split_equal`
  computes the third token before the second (`memory` with
  `Shapes = {<<<<0>>, <<0, 1>>, <<0>>>>}` and `MaxPos = 2`: `SplitsWhole`). It also takes one
  token of each of up to `n_ubatch + 1` sequences, one more than `n_ubatch` allows.
- `ggml_gallocr_needs_realloc` compares numbers and sizes of tensors, while
  `ggml-alloc.h:66` promises "automatic reallocation if the topology changes":
  a graph with other edges is laid out for the lifetimes of the earlier one.
  The branch for parents that are views (`ggml-alloc.c`, reuse in place) is never taken,
  and an output that is a view does not keep alive what it shows.

## 6. Assumptions, and what is not modelled

- *Memory.* Sequential consistency. The relaxed loads and stores of
  `ggml-cpu.c` are modelled in program order; on x86 this is what the hardware
  gives for the orders that matter here, on weakly ordered CPUs more
  interleavings are possible (listed as a hazard without a property).
- *Numbers.* `n_graph` and `n_barrier_passed` do not wrap: they are compared for
  inequality only, and a wrap to the very same value would need 2^32 steps
  between two looks of one thread.
- *Bounds.* `MaxGraphs`, `MaxLoads`, `MaxMsgs`, `MaxPos`, `MaxText`, `MaxBatch`, `MaxCopies`
  bound what the code does not; they appear in guards only.
- *Callers.* `ggml_ifairy_lut_free` only when nothing is computed (`Resting`;
  its only callers, the tests, do so); one control thread for the log ("not thread-safe"); one
  thread per KV cache; batches that continue their sequences, as
  `llama_batch_allocr::init` demands, and tokens in several sequences only if these
  share all their cells (`Coupled`; the check in the code is weaker, a hazard).
- *Windows.* The setups with a window decode one micro-batch at a time, because of `kv_dry`.
- *Pairs.* Loads that find room in both memories or in neither; sequences are cut
  and copied so that the window of the next token stays (`KeepsWindow`), in a
  hybrid memory whole and to empty ones and moved to positions from 0 on (`Above`: a cache drops tokens moved below 0, a recurrent
  state cannot), and only a failure that the recurrent
  memory can take back (`Harmless`). What happens otherwise is in section 5.
- *Recurrent memory.* As many cells as sequences, as `llama_context` makes them; the same for `hybrid`. Positions
  are shifted both ways, but not below 0: `seq_add` does not check, and a state below 0
  counts as none in `seq_rm` and `seq_pos_max` but as one in `find_slot`.
- *GraphAlloc.* One buffer, weights elsewhere, tensors that all fit (`Room`); a
  graph is rebuilt with the same topology, as a context does.
- *Threadpool* leaves out placement, priorities and NUMA; the disposable pool of a
  call without pool is a pool that is freed after one graph.
- *MulMat* leaves out `llamafile_sgemm`, `mul_mat_id`, and the arithmetic. That the
  LUT kernel declines after the barriers cannot happen for the shapes that reach it
  in a build with AVX2, and always happens before them in one without.
- *KvCache* leaves out the mean of the keys, M-RoPE, ALiBi, states that do not parse,
  and failures of the graph that rotates keys; `KvPair` leaves out states of the
  windowed part alone.
- *LlamaBatch* leaves out embeddings as input and checks of ids against their range.
- *CommonLog* leaves out formatting and the signal handler of `main`.

The components that are not modelled at all, with reasons, are in section 1 and
in `PROJECT.json`; the hazards they hold are listed there as well, each at its
line, with a note in place of a property.

## 7. The plan

What is done: the parts of the core that keep state between calls, in the order
threads, weights, products, log, memories, graph allocator. What is left:

1. Proof: the step half of `KvCache`'s `Implements`, from `KeyInv`, and of `MemoryRecurrent`'s, from `MemoryGood`.
2. The grammar's stacks as a pure algorithm, against membership in the language.
3. The rest of `llama_context`: graph reuse and the file format of a state.
