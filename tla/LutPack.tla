------------------------------ MODULE LutPack -------------------------------
(***************************************************************************)
(* The weight packs of the iFairy LUT path,                                *)
(* legacy-ifairy/lut/ggml-ifairy-lut-transform.cpp: before a graph is      *)
(* computed, each weight tensor is packed once into 16-row tiles.  Packs   *)
(* are kept in a process-wide cache keyed by the address and shape of the  *)
(* weights and are reached through tensor->extra.                          *)
(*                                                                         *)
(* A caller is the main thread of a context.  Callers in different threads *)
(* may use one model.  The cache and the publication of a pack are guarded *)
(* by g_ifairy_lut_mutex; the first look at tensor->extra and the look of  *)
(* the matrix product are not.  A publication is therefore two steps: the  *)
(* new extra is reachable before its fields are written.                   *)
(***************************************************************************)
EXTENDS Integers, FiniteSets

CONSTANTS
  Callers,   \* contexts that compute graphs
  Tensors,   \* weight tensors
  KeyOf,     \* per tensor: its cache key (address, size, shape and type)
  Buffers,   \* memory for packs
  NULL,      \* the null pointer
  Garbage,   \* whatever an uninitialised pointer holds, other than null
  MaxLoads   \* bound on the number of models loaded at the same addresses

ASSUME NullAssumption   == NULL \notin Buffers /\ Garbage \notin Buffers /\ NULL # Garbage
ASSUME CallerAssumption == NULL \notin Callers
ASSUME TensorAssumption == Tensors # {}
ASSUME LoadsAssumption  == MaxLoads \in Nat \ {0}

Keys == {KeyOf[t] : t \in Tensors}

VARIABLES
  weights,  \* per key: which model's weights are at that address
  memory,   \* per buffer: "free", or how it was allocated: "backend" or "malloc"
  content,  \* per buffer: the key and the model whose weights were packed into it
  cache,    \* g_ifairy_lut_index_cache
  extra,    \* per tensor: is tensor->extra set?
  packed,   \* per tensor: extra->packed_w
  own_pack, \* per tensor: extra->index_buffer is null, the pack belongs to the extra
  orphans,  \* packs owned by extras of tensors that are gone (g_ifairy_lut_extras)
  lock,     \* the caller holding g_ifairy_lut_mutex between steps, or NULL
  pc, tensor, buf, \* per caller: where it is, the tensor it packs, its pack
  used      \* per caller: the pack a matrix product reads

extraVars == <<extra, packed, own_pack, orphans>>
vars == <<weights, memory, content, cache, extraVars, lock, pc, tensor, buf, used>>

Goto(c, l) == pc' = [pc EXCEPT ![c] = l]
Key(c)     == KeyOf[tensor[c]]
Resting    == \A c \in Callers : pc[c] = "idle"

\* Faulty: an extra is taken for a pack.
HasExtra(t) == extra[t]

\* extra && extra->packed_w
HasPack(t) == extra[t] /\ packed[t] # NULL

Released(b)  == memory' = [memory EXCEPT ![b] = "free"]
-----------------------------------------------------------------------------
\* A model has been loaded; nothing is packed.
Init ==
  /\ weights = [k \in Keys |-> 1]
  /\ memory = [b \in Buffers |-> "free"]
  /\ content = [b \in Buffers |-> NULL]
  /\ cache = [k \in Keys |-> NULL]
  /\ extra = [t \in Tensors |-> FALSE]
  /\ packed = [t \in Tensors |-> NULL]
  /\ own_pack = [t \in Tensors |-> FALSE]
  /\ orphans = {}
  /\ lock = NULL
  /\ pc = [c \in Callers |-> "idle"]
  /\ tensor = [c \in Callers |-> CHOOSE t \in Tensors : TRUE]
  /\ buf = [c \in Callers |-> NULL]
  /\ used = [c \in Callers |-> NULL]

\* ggml_legacy_ifairy_cpu_prepare_graph reaches a weight: a look at the extra
\* without the mutex decides whether there is anything to do.
Prepare(c, t) ==
  /\ pc[c] = "idle"
  /\ tensor' = [tensor EXCEPT ![c] = t]
  /\ Goto(c, IF HasPack(t) THEN "compute" ELSE "lookup")
  /\ UNCHANGED <<weights, memory, content, cache, extraVars, lock, buf, used>>

\* First critical section: somebody else has packed the tensor, the cache has
\* its pack, or there is one to make.
Lookup(c) ==
  /\ pc[c] = "lookup" /\ lock = NULL
  /\ \/ /\ HasPack(tensor[c])
        /\ Goto(c, "compute")
        /\ UNCHANGED <<lock, buf>>
     \/ /\ ~HasPack(tensor[c]) /\ cache[Key(c)] # NULL
        /\ buf' = [buf EXCEPT ![c] = cache[Key(c)]]
        /\ lock' = c
        /\ Goto(c, "new_extra")
     \/ /\ ~HasPack(tensor[c]) /\ cache[Key(c)] = NULL
        /\ Goto(c, "alloc")
        /\ UNCHANGED <<lock, buf>>
  /\ UNCHANGED <<weights, memory, content, cache, extraVars, tensor, used>>

\* Memory for the pack comes from the backend, from malloc if the backend has
\* none, or from nowhere: then the tensor stays unpacked.
Alloc(c) ==
  /\ pc[c] = "alloc"
  /\ \/ \E b \in Buffers, m \in {"backend", "malloc"} :
          /\ memory[b] = "free"
          /\ memory' = [memory EXCEPT ![b] = m]
          /\ content' = [content EXCEPT ![b] = NULL]
          /\ buf' = [buf EXCEPT ![c] = b]
          /\ Goto(c, "encode")
     \/ Goto(c, "compute") /\ UNCHANGED <<memory, content, buf>>
  /\ UNCHANGED <<weights, cache, extraVars, lock, tensor, used>>

\* Encode the weights and build the tiles; on failure free the memory.
Encode(c) ==
  /\ pc[c] = "encode"
  /\ \/ /\ content' = [content EXCEPT ![buf[c]] = <<Key(c), weights[Key(c)]>>]
        /\ Goto(c, "insert")
        /\ UNCHANGED <<memory, buf>>
     \/ /\ Released(buf[c])
        /\ buf' = [buf EXCEPT ![c] = NULL]
        /\ Goto(c, "compute")
        /\ UNCHANGED content
  /\ UNCHANGED <<weights, cache, extraVars, lock, tensor, used>>

\* Faulty: the pack nobody needs is not freed.
InsertLateLeak(c) ==
  /\ HasPack(tensor[c])
  /\ buf' = [buf EXCEPT ![c] = NULL]
  /\ Goto(c, "compute")
  /\ UNCHANGED <<memory, cache, lock>>

\* Second critical section, "another thread finished while we were encoding".
InsertLate(c) ==
  /\ HasPack(tensor[c])
  /\ Released(buf[c])
  /\ buf' = [buf EXCEPT ![c] = NULL]
  /\ Goto(c, "compute")
  /\ UNCHANGED <<cache, lock>>

\* Faulty: the tensor gets a pack of its own although there is one in the cache.
InsertReuseNot(c) ==
  /\ ~HasPack(tensor[c]) /\ cache[Key(c)] # NULL
  /\ lock' = c
  /\ Goto(c, "new_extra")
  /\ UNCHANGED <<memory, buf, cache>>

\* "Another thread populated the cache meanwhile": use its pack, free ours.
InsertReuse(c) ==
  /\ ~HasPack(tensor[c]) /\ cache[Key(c)] # NULL
  /\ Released(buf[c])
  /\ buf' = [buf EXCEPT ![c] = cache[Key(c)]]
  /\ lock' = c
  /\ Goto(c, "new_extra")
  /\ UNCHANGED cache

\* Ours is the first; memory from malloc is not cached but left to the extra.
InsertNew(c) ==
  /\ ~HasPack(tensor[c]) /\ cache[Key(c)] = NULL
  /\ cache' = [cache EXCEPT ![Key(c)] = IF memory[buf[c]] = "backend" THEN buf[c] ELSE @]
  /\ lock' = c
  /\ Goto(c, "new_extra")
  /\ UNCHANGED <<memory, buf>>

Insert(c) ==
  /\ pc[c] = "insert" /\ lock = NULL
  /\ InsertLate(c) \/ InsertReuse(c) \/ InsertNew(c)
  /\ UNCHANGED <<weights, content, extraVars, tensor, used>>

\* tensor->extra = new ifairy_lut_extra: the fields are not initialised.
NewExtra(c) ==
  /\ pc[c] = "new_extra"
  /\ \/ extra[tensor[c]] /\ UNCHANGED <<extra, packed>>
     \/ /\ ~extra[tensor[c]]
        /\ extra' = [extra EXCEPT ![tensor[c]] = TRUE]
        /\ \E p \in {NULL, Garbage} : packed' = [packed EXCEPT ![tensor[c]] = p]
  /\ Goto(c, "publish")
  /\ UNCHANGED <<weights, memory, content, cache, own_pack, orphans, lock, tensor, buf, used>>

\* Faulty: the mutex is not released.
PublishLocked(c) ==
  /\ pc[c] = "publish"
  /\ packed' = [packed EXCEPT ![tensor[c]] = buf[c]]
  /\ own_pack' = [own_pack EXCEPT ![tensor[c]] = memory[buf[c]] = "malloc"]
  /\ buf' = [buf EXCEPT ![c] = NULL]
  /\ Goto(c, "compute")
  /\ UNCHANGED <<weights, memory, content, cache, extra, orphans, lock, tensor, used>>

\* The fields are written and the mutex is released.
Publish(c) ==
  /\ pc[c] = "publish"
  /\ packed' = [packed EXCEPT ![tensor[c]] = buf[c]]
  /\ own_pack' = [own_pack EXCEPT ![tensor[c]] = memory[buf[c]] = "malloc"]
  /\ lock' = NULL
  /\ buf' = [buf EXCEPT ![c] = NULL]
  /\ Goto(c, "compute")
  /\ UNCHANGED <<weights, memory, content, cache, extra, orphans, tensor, used>>

\* ggml_legacy_ifairy_cpu_compute_mul_mat: without a pack the product falls back
\* to the direct path; with one it reads the pack until it is done.
Compute(c) ==
  /\ pc[c] = "compute"
  /\ used' = [used EXCEPT ![c] = IF HasPack(tensor[c]) THEN packed[tensor[c]] ELSE NULL]
  /\ Goto(c, IF HasPack(tensor[c]) THEN "using" ELSE "idle")
  /\ UNCHANGED <<weights, memory, content, cache, extraVars, lock, tensor, buf>>

Computed(c) ==
  /\ pc[c] = "using"
  /\ used' = [used EXCEPT ![c] = NULL]
  /\ Goto(c, "idle")
  /\ UNCHANGED <<weights, memory, content, cache, extraVars, lock, tensor, buf>>
-----------------------------------------------------------------------------
\* Packs that lut_free releases: cached ones and those the extras own.
Cached    == {cache[k] : k \in Keys} \ {NULL}
OwnedBy(t) == IF own_pack[t] /\ packed[t] # NULL THEN {packed[t]} ELSE {}
Owned      == orphans \union UNION {OwnedBy(t) : t \in Tensors}

\* Faulty: the extras keep pointing at the packs.
LutFreeDangling ==
  /\ Resting
  /\ memory' = [b \in Buffers |-> IF b \in Cached \union Owned THEN "free" ELSE memory[b]]
  /\ cache' = [k \in Keys |-> NULL]
  /\ orphans' = {}
  /\ UNCHANGED <<weights, content, extra, packed, own_pack, lock, pc, tensor, buf, used>>

\* ggml_ifairy_lut_free, called when nothing is being computed.
LutFree ==
  /\ Resting
  /\ memory' = [b \in Buffers |-> IF b \in Cached \union Owned THEN "free" ELSE memory[b]]
  /\ cache' = [k \in Keys |-> NULL]
  /\ packed' = [t \in Tensors |-> NULL]
  /\ own_pack' = [t \in Tensors |-> FALSE]
  /\ orphans' = {}
  /\ UNCHANGED <<weights, content, extra, lock, pc, tensor, buf, used>>

\* The program frees the model and loads another one at the same addresses, with
\* its own weights and fresh tensors.  Nothing tells the cache.
Reload ==
  /\ Resting
  /\ \A k \in Keys : weights[k] < MaxLoads
  /\ weights' = [k \in Keys |-> weights[k] + 1]
  /\ orphans' = Owned
  /\ extra' = [t \in Tensors |-> FALSE]
  /\ packed' = [t \in Tensors |-> NULL]
  /\ own_pack' = [t \in Tensors |-> FALSE]
  /\ UNCHANGED <<memory, content, cache, lock, pc, tensor, buf, used>>
-----------------------------------------------------------------------------
Work(c) == \/ Lookup(c) \/ Alloc(c) \/ Encode(c) \/ Insert(c)
           \/ NewExtra(c) \/ Publish(c) \/ Compute(c) \/ Computed(c)

Next == \/ \E c \in Callers : Work(c) \/ \E t \in Tensors : Prepare(c, t)
        \/ LutFree \/ Reload

Spec == Init /\ [][Next]_vars
-----------------------------------------------------------------------------
(***************************************************************************)
(* Properties.                                                             *)
(***************************************************************************)
Labels == {"idle", "lookup", "alloc", "encode", "insert", "new_extra", "publish",
           "compute", "using"}

\* The type invariant.  The mutex is held exactly by a caller that publishes.
TypeOK ==
  /\ weights \in [Keys -> 1 .. MaxLoads]
  /\ memory \in [Buffers -> {"free", "backend", "malloc"}]
  /\ content \in [Buffers -> (Keys \X (1 .. MaxLoads)) \union {NULL}]
  /\ cache \in [Keys -> Buffers \union {NULL}]
  /\ extra \in [Tensors -> BOOLEAN]
  /\ packed \in [Tensors -> Buffers \union {NULL, Garbage}]
  /\ own_pack \in [Tensors -> BOOLEAN]
  /\ orphans \subseteq Buffers
  /\ pc \in [Callers -> Labels]
  /\ tensor \in [Callers -> Tensors]
  /\ buf \in [Callers -> Buffers \union {NULL}]
  /\ used \in [Callers -> Buffers \union {NULL, Garbage}]
  /\ lock \in Callers \union {NULL}
  /\ \A c \in Callers : lock = c <=> pc[c] \in {"new_extra", "publish"}

\* Who has to release b: the cache, an extra, or a caller that has not handed
\* it to either of them yet.
Owners(b) ==
       {<<"cache", k>> : k \in {k \in Keys : cache[k] = b}}
\union {<<"extra", t>> : t \in {t \in Tensors : b \in OwnedBy(t)}}
\union {<<"orphan", o>> : o \in orphans \intersect {b}}
\union {<<"caller", c>> : c \in {c \in Callers :
          /\ buf[c] = b
          /\ \/ pc[c] \in {"encode", "insert"}
             \/ pc[c] \in {"new_extra", "publish"} /\ memory[b] = "malloc"}}

\* Every pack has exactly one owner and free memory has none, however callers
\* race: no pack leaks and none is released twice.
OneOwner ==
  \A b \in Buffers : Cardinality(Owners(b)) = IF memory[b] = "free" THEN 0 ELSE 1

\* Tensors with the same weights share the cached pack, unless memory was short
\* and the tensor has one of its own.
SharedPack ==
  \A t \in Tensors : packed[t] \in Buffers /\ ~own_pack[t] => packed[t] = cache[KeyOf[t]]

\* A missing pack declines the LUT path: a product that takes it has a pack.
MissingDeclines ==
  \A c \in Callers : pc[c] = "using" => used[c] \in Buffers

\* Only while another context publishes a pack of the tensor can a product take
\* the LUT path without one: a graph that is alone with its tensors never does,
\* whatever failed or was freed before.
MissingOnlyRacing ==
  [][\A c \in Callers : pc[c] # "using" /\ pc'[c] = "using" /\ used'[c] \notin Buffers =>
       \E d \in Callers \ {c} : pc[d] = "publish" /\ tensor[d] = tensor[c]]_vars

\* The pack a matrix product reads is not released and was made for the cache key
\* of its tensor, from the weights the tensor has now: only a pack that is still
\* in the cache, which nothing empties when a model goes, can be of an earlier model.
PackUsable ==
  \A c \in Callers : pc[c] = "using" /\ used[c] \in Buffers =>
    /\ memory[used[c]] # "free"
    /\ \E m \in 1 .. weights[Key(c)] :
         /\ content[used[c]] = <<Key(c), m>>
         /\ m = weights[Key(c)] \/ used[c] = cache[Key(c)]
=============================================================================
