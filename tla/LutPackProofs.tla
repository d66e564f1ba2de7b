---------------------------- MODULE LutPackProofs ----------------------------
(***************************************************************************)
(* Proofs about LutPack: the mutex of the packs is held by the caller that *)
(* publishes one and by no other, a product takes the LUT path without a   *)
(* pack in one race only, every pack has one owner besides the callers     *)
(* that share it through the cache, and the pack a product reads is the    *)
(* one written for its weights.                                            *)
(***************************************************************************)
EXTENDS LutPack, TLAPS, FiniteSetTheorems

\* A caller that holds a pack or is about to publish one has one.
Holding == \A c \in Callers : pc[c] \in {"encode", "insert", "new_extra", "publish"} => buf[c] \in Buffers

\* Only a tensor that is being published has an extra with unwritten fields.
Unwritten ==
  \A t \in Tensors : packed[t] = Garbage =>
    \E c \in Callers : pc[c] = "publish" /\ tensor[c] = t

LInv == TypeOK /\ Holding /\ Unwritten
-----------------------------------------------------------------------------
\* Every tensor has a cache key.
LEMMA KeysFacts == \A t \in Tensors : KeyOf[t] \in Keys
BY DEF Keys

\* A freshly loaded model satisfies the invariant.
LEMMA LInit == Init => LInv
BY NullAssumption, CallerAssumption, TensorAssumption, LoadsAssumption
   DEF Init, LInv, TypeOK, Holding, Unwritten, Labels, Keys

\* A graph reaches a weight.
LEMMA LPrepare == ASSUME LInv, NEW c \in Callers, NEW t \in Tensors, Prepare(c, t) PROVE LInv'
BY NullAssumption, CallerAssumption
   DEF LInv, TypeOK, Holding, Unwritten, Labels, Prepare, Goto, extraVars

\* First critical section: the mutex is taken only by a caller that found a pack.
LEMMA LLookup == ASSUME LInv, NEW c \in Callers, Lookup(c) PROVE LInv'
<1> USE NullAssumption, CallerAssumption DEF LInv, TypeOK, Holding, Unwritten, Labels, Goto, extraVars
<1>1. CASE UNCHANGED <<lock, buf>> /\ (Goto(c, "compute") \/ Goto(c, "alloc"))
  BY <1>1 DEF Lookup
<1>2. CASE /\ cache[Key(c)] # NULL
           /\ buf' = [buf EXCEPT ![c] = cache[Key(c)]]
           /\ lock' = c
           /\ Goto(c, "new_extra")
  <2>1. cache[Key(c)] \in Buffers
    BY <1>2, KeysFacts DEF Key
  <2>2. /\ pc[c] = "lookup" /\ lock = NULL
        /\ UNCHANGED <<weights, memory, content, cache, extraVars, tensor, used>>
    BY DEF Lookup
  <2>3. \A d \in Callers : pc[d] \notin {"new_extra", "publish"}
    BY <2>2
  <2>4. TypeOK'
    BY <1>2, <2>1, <2>2, <2>3
  <2>5. Holding'
    BY <1>2, <2>1, <2>2
  <2>6. Unwritten'
    BY <1>2, <2>2, <2>3
  <2> QED BY <2>4, <2>5, <2>6
<1> QED BY <1>1, <1>2 DEF Lookup

\* Memory for the pack, or none.
LEMMA LAlloc == ASSUME LInv, NEW c \in Callers, Alloc(c) PROVE LInv'
BY NullAssumption, CallerAssumption, SMTT(40)
   DEF LInv, TypeOK, Holding, Unwritten, Labels, Alloc, Goto, extraVars

\* Packing, or giving the memory back.
LEMMA LEncode == ASSUME LInv, NEW c \in Callers, Encode(c) PROVE LInv'
<1> USE NullAssumption, CallerAssumption DEF LInv, TypeOK, Holding, Unwritten, Labels, Goto, extraVars
<1>1. buf[c] \in Buffers /\ Key(c) \in Keys
  BY KeysFacts DEF Encode, Key
<1>2. content' \in [Buffers -> (Keys \X (1 .. MaxLoads)) \union {NULL}]
  <2>1. CASE content' = [content EXCEPT ![buf[c]] = <<Key(c), weights[Key(c)]>>]
    <3>1. weights[Key(c)] \in 1 .. MaxLoads
      BY <1>1
    <3>2. <<Key(c), weights[Key(c)]>> \in Keys \X (1 .. MaxLoads)
      BY <1>1, <3>1
    <3>3. <<Key(c), weights[Key(c)]>> \in (Keys \X (1 .. MaxLoads)) \union {NULL}
      BY <3>2
    <3>4. content \in [Buffers -> (Keys \X (1 .. MaxLoads)) \union {NULL}]
      OBVIOUS
    <3> HIDE DEF TypeOK, LInv
    <3> QED BY ONLY <1>1, <2>1, <3>3, <3>4
  <2>2. CASE UNCHANGED content
    BY <2>2
  <2> QED BY <2>1, <2>2 DEF Encode
<1>3. memory' \in [Buffers -> {"free", "backend", "malloc"}]
  BY <1>1 DEF Encode, Released
<1>4. /\ pc[c] = "encode"
      /\ \/ Goto(c, "insert") /\ buf' = buf
         \/ Goto(c, "compute") /\ buf' = [buf EXCEPT ![c] = NULL]
  BY DEF Encode
<1>5. UNCHANGED <<weights, cache, extraVars, lock, tensor, used>>
  BY DEF Encode
<1>6. TypeOK'
  BY <1>2, <1>3, <1>4, <1>5
<1> QED BY <1>4, <1>5, <1>6

\* Second critical section: late, with the pack of the cache, or with a new one.
LEMMA LInsert == ASSUME LInv, NEW c \in Callers, Insert(c) PROVE LInv'
<1> USE NullAssumption, CallerAssumption DEF LInv, TypeOK, Holding, Unwritten, Labels, Goto, extraVars
<1>1. buf[c] \in Buffers /\ Key(c) \in Keys
  BY KeysFacts DEF Insert, Key
<1>2. /\ pc[c] = "insert" /\ lock = NULL
      /\ UNCHANGED <<weights, content, extraVars, tensor, used>>
  BY DEF Insert
<1>3. \A d \in Callers : pc[d] \notin {"new_extra", "publish"}
  BY <1>2
<1>4. CASE InsertLate(c)
  BY <1>1, <1>2, <1>3, <1>4 DEF InsertLate, Released
<1>5. CASE InsertReuse(c)
  <2>1. cache[Key(c)] \in Buffers
    BY <1>1, <1>5 DEF InsertReuse
  <2> QED BY <1>1, <1>2, <1>3, <1>5, <2>1 DEF InsertReuse, Released
<1>6. CASE InsertNew(c)
  BY <1>1, <1>2, <1>3, <1>6 DEF InsertNew
<1> QED BY <1>4, <1>5, <1>6 DEF Insert

\* An extra with unwritten fields appears: its publisher is at "publish".
LEMMA LNewExtra == ASSUME LInv, NEW c \in Callers, NewExtra(c) PROVE LInv'
<1> USE NullAssumption, CallerAssumption DEF LInv, TypeOK, Holding, Unwritten, Labels, Goto
<1>1. /\ pc[c] = "new_extra" /\ pc' = [pc EXCEPT ![c] = "publish"]
      /\ UNCHANGED <<weights, memory, content, cache, own_pack, orphans, lock, tensor, buf, used>>
  BY DEF NewExtra
<1>2. extra' \in [Tensors -> BOOLEAN]
  BY Zenon DEF NewExtra
<1>3. packed' \in [Tensors -> Buffers \union {NULL, Garbage}]
  BY DEF NewExtra
<1>4. TypeOK'
  BY <1>1, <1>2, <1>3
<1>5. Holding'
  BY <1>1
<1>6. \A t \in Tensors \ {tensor[c]} : packed'[t] = packed[t]
  BY DEF NewExtra
<1>7. Unwritten'
  <2> SUFFICES ASSUME NEW t \in Tensors, packed'[t] = Garbage
               PROVE  \E d \in Callers : pc'[d] = "publish" /\ tensor'[d] = t
    BY DEF Unwritten
  <2>1. CASE t = tensor[c]
    BY <1>1, <2>1
  <2>2. CASE t # tensor[c]
    BY <1>1, <1>6, <2>2
  <2> QED BY <2>1, <2>2
<1> QED BY <1>4, <1>5, <1>7

\* The fields are written before the publisher leaves.
LEMMA LPublish == ASSUME LInv, NEW c \in Callers, Publish(c) PROVE LInv'
BY NullAssumption, CallerAssumption
   DEF LInv, TypeOK, Holding, Unwritten, Labels, Publish, Goto

\* The product decides, and ends.
LEMMA LCompute == ASSUME LInv, NEW c \in Callers, Compute(c) \/ Computed(c) PROVE LInv'
BY NullAssumption, CallerAssumption
   DEF LInv, TypeOK, Holding, Unwritten, Labels, Compute, Computed, Goto, extraVars

\* ggml_ifairy_lut_free, while no graph is computed.
LEMMA LFree == ASSUME LInv, LutFree PROVE LInv'
BY NullAssumption, CallerAssumption
   DEF LInv, TypeOK, Holding, Unwritten, Labels, LutFree

\* Another model: at rest no extra has unwritten fields, so all that the
\* extras own is memory.
LEMMA LReload == ASSUME LInv, Reload PROVE LInv'
<1> USE NullAssumption, CallerAssumption DEF LInv, TypeOK, Holding, Unwritten, Labels
<1>1. \A t \in Tensors : packed[t] \in Buffers \union {NULL}
  BY DEF Reload, Resting
<1>2. orphans' \subseteq Buffers
  BY <1>1 DEF Reload, Owned, OwnedBy
<1>3. weights' \in [Keys -> 1 .. MaxLoads]
  BY LoadsAssumption DEF Reload
<1> QED BY <1>2, <1>3 DEF Reload

\* Every step preserves the invariant.
LEMMA LStep == ASSUME LInv, [Next]_vars PROVE LInv'
<1>1. ASSUME NEW c \in Callers, Work(c) PROVE LInv'
  BY <1>1, LLookup, LAlloc, LEncode, LInsert, LNewExtra, LPublish, LCompute DEF Work
<1>2. ASSUME NEW c \in Callers, NEW t \in Tensors, Prepare(c, t) PROVE LInv'
  BY <1>2, LPrepare
<1>3. CASE LutFree
  BY <1>3, LFree
<1>4. CASE Reload
  BY <1>4, LReload
<1>5. CASE UNCHANGED vars
  BY <1>5 DEF vars, extraVars, LInv, TypeOK, Holding, Unwritten
<1> QED BY <1>1, <1>2, <1>3, <1>4, <1>5 DEF Next
-----------------------------------------------------------------------------
\* LInv holds in every reachable state, for any number of contexts and tensors,
\* any sharing of keys, any memory and any number of models loaded.
THEOREM PackInvariant == Spec => []LInv
<1> QED BY LInit, LStep, PTL DEF Spec

\* Type correctness; with it, the mutex is held exactly by the caller between
\* `new ifairy_lut_extra` and the release after its fields are written.
THEOREM PackTypes == Spec => []TypeOK
<1>1. LInv => TypeOK
  BY DEF LInv
<1> QED BY <1>1, PackInvariant, PTL

\* Only the decision of its own product sends a caller into the LUT path.
LEMMA UsingStep ==
  ASSUME LInv, [Next]_vars,
         NEW c \in Callers, pc[c] # "using", pc'[c] = "using"
  PROVE  Compute(c)
<1> USE DEF LInv, TypeOK, Goto, Labels
<1>1. ASSUME NEW d \in Callers, Work(d), ~Compute(d) PROVE pc'[c] # "using"
  BY <1>1 DEF Work, Lookup, Alloc, Encode, Insert, InsertLate, InsertReuse, InsertNew,
              NewExtra, Publish, Computed
<1>2. ASSUME NEW d \in Callers, NEW t \in Tensors, Prepare(d, t) PROVE pc'[c] # "using"
  BY <1>2 DEF Prepare
<1>3. ASSUME NEW d \in Callers, Compute(d) PROVE d = c
  BY <1>3 DEF Compute
<1>4. ~(LutFree \/ Reload \/ UNCHANGED vars)
  BY DEF LutFree, Reload, vars
<1> QED BY <1>1, <1>2, <1>3, <1>4 DEF Next

\* A caller that takes the LUT path without a pack reads an extra that another
\* caller has not written yet.
LEMMA ComputeRace ==
  ASSUME LInv, NEW c \in Callers, Compute(c), pc'[c] = "using", used'[c] \notin Buffers
  PROVE  \E d \in Callers \ {c} : pc[d] = "publish" /\ tensor[d] = tensor[c]
<1> USE DEF LInv, TypeOK, Goto, Labels
<1>1. HasPack(tensor[c])
  BY DEF Compute
<1>2. used'[c] = packed[tensor[c]]
  BY <1>1 DEF Compute
<1>3. packed[tensor[c]] = Garbage
  BY <1>1, <1>2 DEF HasPack
<1>4. PICK d \in Callers : pc[d] = "publish" /\ tensor[d] = tensor[c]
  BY <1>3 DEF Unwritten
<1>5. pc[c] = "compute"
  BY DEF Compute
<1> QED BY <1>4, <1>5

\* A product that takes the LUT path with an unwritten packed_w does so while
\* another context is between those two points for the same tensor.
THEOREM OnlyRacing == Spec => MissingOnlyRacing
<1>1. ASSUME LInv, [Next]_vars
      PROVE  \A c \in Callers : pc[c] # "using" /\ pc'[c] = "using" /\ used'[c] \notin Buffers =>
               \E d \in Callers \ {c} : pc[d] = "publish" /\ tensor[d] = tensor[c]
  BY <1>1, UsingStep, ComputeRace
<1> QED BY <1>1, PackInvariant, PTL DEF Spec, MissingOnlyRacing
-----------------------------------------------------------------------------
(***************************************************************************)
(* Ownership of the packs.  The conjuncts below OwnInv are stated pairwise *)
(* because the cardinality of a union of four sets is not a formula the    *)
(* provers reason about; OneOwner is derived from them at the end.         *)
(***************************************************************************)
\* The caller c has to release b: it has not handed it to the cache or to an extra.
Holds(c, b) ==
  /\ buf[c] = b
  /\ \/ pc[c] \in {"encode", "insert"}
     \/ pc[c] \in {"new_extra", "publish"} /\ memory[b] = "malloc"

\* The extra of t has to release b.
Keeps(t, b) == own_pack[t] /\ packed[t] = b

\* A tensor without an extra has no pack, and one that gets a pack has an extra.
NoExtraNoPack ==
  /\ \A t \in Tensors : ~extra[t] => packed[t] = NULL
  /\ \A c \in Callers : pc[c] = "publish" => extra[tensor[c]]

\* A tensor gets a pack only once: whoever is about to publish finds none.
NotYetPacked ==
  \A c \in Callers : pc[c] \in {"new_extra", "publish"} => packed[tensor[c]] \notin Buffers

\* The cache holds memory of the backend, extras release memory from malloc.
Origins ==
  /\ \A k \in Keys : cache[k] \in Buffers => memory[cache[k]] = "backend"
  /\ \A t \in Tensors : own_pack[t] /\ packed[t] \in Buffers => memory[packed[t]] = "malloc"
  /\ \A b \in orphans : memory[b] = "malloc"

\* A caller about to publish a pack that is not its own publishes the cached one.
FromCache ==
  \A c \in Callers : pc[c] \in {"new_extra", "publish"} /\ memory[buf[c]] # "malloc" =>
    buf[c] = cache[Key(c)]

\* Memory that is not free is to be released by somebody.
Claimed ==
  \A b \in Buffers : memory[b] # "free" =>
    \/ \E k \in Keys : cache[k] = b
    \/ \E t \in Tensors : Keeps(t, b)
    \/ b \in orphans
    \/ \E c \in Callers : Holds(c, b)

\* A caller works in memory that is allocated and that nobody else releases.
CallerAlone ==
  \A c \in Callers, b \in Buffers : Holds(c, b) =>
    /\ memory[b] # "free"
    /\ \A k \in Keys : cache[k] # b
    /\ \A t \in Tensors : ~Keeps(t, b)
    /\ b \notin orphans
    /\ \A d \in Callers : Holds(d, b) => d = c

\* One extra releases a pack, and the orphans are others.
ExtraAlone ==
  \A t \in Tensors, b \in Buffers : Keeps(t, b) =>
    /\ b \notin orphans
    /\ \A u \in Tensors : Keeps(u, b) => u = t

\* A pack is cached under one key.
CacheAlone ==
  \A k, l \in Keys : cache[k] = cache[l] /\ cache[k] # NULL => k = l

OwnInv == /\ NoExtraNoPack /\ NotYetPacked /\ Origins /\ FromCache /\ SharedPack
          /\ Claimed /\ CallerAlone /\ ExtraAlone /\ CacheAlone

(***************************************************************************)
(* What the packs hold: their key's weights, of the model loaded now or,   *)
(* through the cache, of one before it.                                    *)
(***************************************************************************)
Fresh(b, k) == content[b] = <<k, weights[k]>>
Made(b, k)  == \E m \in 1 .. weights[k] : content[b] = <<k, m>>

\* A pack that was just made; one that is to be published may be the cached one.
CallerMade ==
  \A c \in Callers :
    /\ pc[c] = "insert" => Fresh(buf[c], Key(c))
    /\ pc[c] \in {"new_extra", "publish"} => Fresh(buf[c], Key(c)) \/ buf[c] = cache[Key(c)]

\* A cached pack was made for its key, maybe from an earlier model.
CacheMade == \A k \in Keys : cache[k] \in Buffers => Made(cache[k], k)

\* A published pack.
ExtraMade ==
  \A t \in Tensors : packed[t] \in Buffers =>
    Fresh(packed[t], KeyOf[t]) \/ packed[t] = cache[KeyOf[t]]

\* The pack a product reads stays the one its tensor has.
ReadsPublished ==
  \A c \in Callers : pc[c] = "using" /\ used[c] \in Buffers => used[c] = packed[tensor[c]]

ContentInv == CallerMade /\ CacheMade /\ ExtraMade /\ ReadsPublished

\* No cached pack is of an earlier model.
CacheFresh == \A k \in Keys : cache[k] \in Buffers => Fresh(cache[k], k)

\* A caller that begins owns nothing yet.
LEMMA OwnPrepare ==
  ASSUME LInv, LInv', OwnInv, NEW c \in Callers, NEW t \in Tensors, Prepare(c, t)
  PROVE  OwnInv'
<1> USE NullAssumption, CallerAssumption, KeysFacts
    DEF LInv, TypeOK, Holding, Labels, OwnInv, Goto, Key, extraVars
<1>1. NoExtraNoPack'
  BY DEF NoExtraNoPack, Prepare
<1>2. NotYetPacked'
  BY DEF NotYetPacked, Prepare
<1>3. Origins'
  BY DEF Origins, Prepare
<1>4. FromCache'
  BY DEF FromCache, Prepare
<1>5. SharedPack'
  BY DEF SharedPack, Prepare
<1>6. Claimed'
  BY DEF Claimed, Holds, Keeps, Prepare
<1>7. CallerAlone'
  BY DEF CallerAlone, Holds, Keeps, Prepare
<1>8. ExtraAlone'
  BY DEF ExtraAlone, Keeps, Prepare
<1>9. CacheAlone'
  BY DEF CacheAlone, Prepare
<1> QED BY <1>1, <1>2, <1>3, <1>4, <1>5, <1>6, <1>7, <1>8, <1>9

\* A caller that finds a pack in the cache shares it, and one that does not will
\* make its own.
LEMMA OwnLookup ==
  ASSUME LInv, LInv', OwnInv, NEW c \in Callers, Lookup(c)
  PROVE  OwnInv'
<1> USE NullAssumption, CallerAssumption, KeysFacts
    DEF LInv, TypeOK, Holding, Labels, OwnInv, Goto, Key, extraVars
<1>1. NoExtraNoPack'
  BY DEF NoExtraNoPack, Lookup
<1>2. NotYetPacked'
  BY DEF NotYetPacked, NoExtraNoPack, Lookup, HasPack
<1>3. Origins'
  BY DEF Origins, Lookup
<1>4. FromCache'
  BY DEF FromCache, Lookup
<1>5. SharedPack'
  BY DEF SharedPack, Lookup
<1>6. Claimed'
  BY DEF Claimed, Holds, Keeps, Lookup
<1>7. CallerAlone'
  BY DEF CallerAlone, Holds, Keeps, Origins, Lookup
<1>8. ExtraAlone'
  BY DEF ExtraAlone, Keeps, Lookup
<1>9. CacheAlone'
  BY DEF CacheAlone, Lookup
<1> QED BY <1>1, <1>2, <1>3, <1>4, <1>5, <1>6, <1>7, <1>8, <1>9

\* A buffer that is allocated was free, so it is the caller's alone.
LEMMA OwnAlloc ==
  ASSUME LInv, LInv', OwnInv, NEW c \in Callers, Alloc(c)
  PROVE  OwnInv'
<1> USE NullAssumption, CallerAssumption, KeysFacts
    DEF LInv, TypeOK, Holding, Labels, OwnInv, Goto, Key, extraVars
<1>1. NoExtraNoPack'
  BY DEF NoExtraNoPack, Alloc
<1>2. NotYetPacked'
  BY DEF NotYetPacked, Alloc
<1>3. Origins'
  BY DEF Origins, Alloc
<1>4. FromCache'
  BY DEF FromCache, Alloc
<1>5. SharedPack'
  BY DEF SharedPack, Alloc
<1>6. Claimed'
  BY DEF Claimed, Holds, Keeps, Alloc
<1>7. CallerAlone'
  <2>1. CASE UNCHANGED <<memory, buf>> /\ Goto(c, "compute")
    BY <2>1 DEF CallerAlone, Holds, Keeps, Alloc
  <2>2. ASSUME NEW b \in Buffers, memory[b] = "free",
               NEW m \in {"backend", "malloc"}, memory' = [memory EXCEPT ![b] = m],
               buf' = [buf EXCEPT ![c] = b], Goto(c, "encode")
        PROVE  CallerAlone'
    <3>1. /\ \A k \in Keys : cache'[k] # b
          /\ \A t \in Tensors : ~Keeps(t, b)'
          /\ b \notin orphans'
      BY <2>2 DEF Alloc, Origins, Keeps
    <3>2. \A d \in Callers : ~Holds(d, b)
      BY <2>2 DEF CallerAlone
    <3>0. \A d \in Callers : pc[d] \in {"new_extra", "publish"} => buf[d] # b
      BY <2>2 DEF FromCache, Origins
    <3>3. \A d \in Callers \ {c}, e \in Buffers : Holds(d, e)' => Holds(d, e) /\ e # b
      <4> SUFFICES ASSUME NEW d \in Callers \ {c}, NEW e \in Buffers, Holds(d, e)'
                   PROVE  Holds(d, e) /\ e # b
        OBVIOUS
      <4>1. pc'[d] = pc[d] /\ buf'[d] = buf[d]
        BY <2>2
      <4>2. e # b
        BY <3>0, <3>2, <4>1 DEF Holds
      <4> QED BY <2>2, <4>1, <4>2 DEF Holds
    <3>4. \A e \in Buffers : Holds(c, e)' => e = b
      BY <2>2 DEF Holds
    <3>5. \A e \in Buffers \ {b}, t \in Tensors : memory'[e] = memory[e] /\ (Keeps(t, e)' <=> Keeps(t, e))
      BY <2>2 DEF Keeps, Alloc
    <3>6. memory'[b] # "free"
      BY <2>2
    <3>7. UNCHANGED <<cache, orphans>>
      BY DEF Alloc
    <3>8. ASSUME NEW d \in Callers, NEW e \in Buffers, Holds(d, e)', d # c
          PROVE  /\ memory'[e] # "free"
                 /\ \A k \in Keys : cache'[k] # e
                 /\ \A t \in Tensors : ~Keeps(t, e)'
                 /\ e \notin orphans'
                 /\ \A f \in Callers : Holds(f, e)' => f = d
      <4>1. Holds(d, e) /\ e # b
        BY <3>3, <3>8
      <4>2. \A f \in Callers : Holds(f, e)' => Holds(f, e)
        BY <3>3, <3>4, <4>1
      <4> QED BY <4>1, <4>2, <3>5, <3>7 DEF CallerAlone
    <3>9. ASSUME NEW e \in Buffers, Holds(c, e)'
          PROVE  /\ memory'[e] # "free"
                 /\ \A k \in Keys : cache'[k] # e
                 /\ \A t \in Tensors : ~Keeps(t, e)'
                 /\ e \notin orphans'
                 /\ \A f \in Callers : Holds(f, e)' => f = c
      BY <3>1, <3>3, <3>4, <3>6, <3>9
    <3> QED BY <3>8, <3>9 DEF CallerAlone
  <2> QED BY <2>1, <2>2 DEF Alloc
<1>8. ExtraAlone'
  BY DEF ExtraAlone, Keeps, Alloc
<1>9. CacheAlone'
  BY DEF CacheAlone, Alloc
<1> QED BY <1>1, <1>2, <1>3, <1>4, <1>5, <1>6, <1>7, <1>8, <1>9

\* Writing a pack changes no owner.
LEMMA OwnEncode ==
  ASSUME LInv, LInv', OwnInv, NEW c \in Callers, Encode(c)
  PROVE  OwnInv'
<1> USE NullAssumption, CallerAssumption, KeysFacts
    DEF LInv, TypeOK, Holding, Labels, OwnInv, Goto, Key, extraVars
<1>1. NoExtraNoPack'
  BY DEF NoExtraNoPack, Encode
<1>2. NotYetPacked'
  BY DEF NotYetPacked, Encode
<1>3. Origins'
  BY DEF Origins, CallerAlone, Holds, Keeps, Encode, Released
<1>4. FromCache'
  BY DEF FromCache, CallerAlone, Holds, Encode, Released
<1>5. SharedPack'
  BY DEF SharedPack, Encode
<1>6. Claimed'
  BY DEF Claimed, Holds, Keeps, Encode, Released
<1>7. CallerAlone'
  BY DEF CallerAlone, Holds, Keeps, Encode, Released
<1>8. ExtraAlone'
  BY DEF ExtraAlone, Keeps, Encode
<1>9. CacheAlone'
  BY DEF CacheAlone, Encode
<1> QED BY <1>1, <1>2, <1>3, <1>4, <1>5, <1>6, <1>7, <1>8, <1>9

\* A pack that comes too late for the cache is released, and the one in the cache is
\* shared.
LEMMA OwnInsertLate ==
  ASSUME LInv, LInv', OwnInv, NEW c \in Callers, Insert(c), InsertLate(c)
  PROVE  OwnInv'
<1> USE NullAssumption, CallerAssumption, KeysFacts
    DEF LInv, TypeOK, Holding, Labels, OwnInv, Goto, Key, extraVars
<1>1. NoExtraNoPack'
  BY DEF NoExtraNoPack, Insert, InsertLate
<1>2. NotYetPacked'
  BY DEF NotYetPacked, Insert, InsertLate
<1>3. Origins'
  BY DEF Origins, CallerAlone, Holds, Keeps, Insert, InsertLate, Released
<1>4. FromCache'
  BY DEF FromCache, Insert, InsertLate
<1>5. SharedPack'
  BY DEF SharedPack, Insert, InsertLate
<1>6. Claimed'
  BY DEF Claimed, Holds, Keeps, Insert, InsertLate, Released
<1>7. CallerAlone'
  BY DEF CallerAlone, Holds, Keeps, Insert, InsertLate, Released
<1>8. ExtraAlone'
  BY DEF ExtraAlone, Keeps, Insert
<1>9. CacheAlone'
  BY DEF CacheAlone, InsertLate
<1> QED BY <1>1, <1>2, <1>3, <1>4, <1>5, <1>6, <1>7, <1>8, <1>9

\* A pack put in the place of one that expired is owned by the cache as well.
LEMMA OwnInsertReuse ==
  ASSUME LInv, LInv', OwnInv, NEW c \in Callers, Insert(c), InsertReuse(c)
  PROVE  OwnInv'
<1> USE NullAssumption, CallerAssumption, KeysFacts
    DEF LInv, TypeOK, Holding, Labels, OwnInv, Goto, Key, extraVars
<1>1. NoExtraNoPack'
  BY DEF NoExtraNoPack, Insert, InsertReuse
<1>2. NotYetPacked'
  BY DEF NotYetPacked, NoExtraNoPack, Insert, InsertReuse, HasPack
<1>3. Origins'
  BY DEF Origins, CallerAlone, Holds, Keeps, Insert, InsertReuse, Released
<1>4. FromCache'
  BY DEF FromCache, Insert, InsertReuse
<1>5. SharedPack'
  BY DEF SharedPack, Insert, InsertReuse
<1>6. Claimed'
  BY DEF Claimed, Holds, Keeps, Insert, InsertReuse, Released
<1>7. CallerAlone'
  BY DEF CallerAlone, Holds, Keeps, Origins, Insert, InsertReuse, Released
<1>8. ExtraAlone'
  BY DEF ExtraAlone, Keeps, Insert
<1>9. CacheAlone'
  BY DEF CacheAlone, InsertReuse
<1> QED BY <1>1, <1>2, <1>3, <1>4, <1>5, <1>6, <1>7, <1>8, <1>9

\* And so is one that gets a new entry.
LEMMA OwnInsertNew ==
  ASSUME LInv, LInv', OwnInv, NEW c \in Callers, Insert(c), InsertNew(c)
  PROVE  OwnInv'
<1> USE NullAssumption, CallerAssumption, KeysFacts
    DEF LInv, TypeOK, Holding, Labels, OwnInv, Goto, Key, extraVars
<1>1. NoExtraNoPack'
  BY DEF NoExtraNoPack, Insert, InsertNew
<1>2. NotYetPacked'
  BY DEF NotYetPacked, NoExtraNoPack, Insert, InsertNew, HasPack
<1>3. Origins'
  BY DEF Origins, Insert, InsertNew
<1>4. FromCache'
  BY DEF FromCache, CallerAlone, Holds, Insert, InsertNew
<1>5. SharedPack'
  BY DEF SharedPack, Insert, InsertNew
<1>6. Claimed'
  BY DEF Claimed, Holds, Keeps, Insert, InsertNew
<1>7. CallerAlone'
  BY DEF CallerAlone, Holds, Keeps, Insert, InsertNew
<1>8. ExtraAlone'
  BY DEF ExtraAlone, Keeps, Insert
<1>9. CacheAlone'
  BY DEF CacheAlone, CallerAlone, Holds, Insert, InsertNew
<1> QED BY <1>1, <1>2, <1>3, <1>4, <1>5, <1>6, <1>7, <1>8, <1>9

\* An extra without a pack owns none.
LEMMA OwnNewExtra ==
  ASSUME LInv, LInv', OwnInv, NEW c \in Callers, NewExtra(c)
  PROVE  OwnInv'
<1> USE NullAssumption, CallerAssumption, KeysFacts
    DEF LInv, TypeOK, Holding, Labels, OwnInv, Goto, Key, extraVars
<1>1. NoExtraNoPack'
  BY DEF NoExtraNoPack, NewExtra
<1>2. NotYetPacked'
  BY DEF NotYetPacked, NewExtra
<1>3. Origins'
  BY DEF Origins, NewExtra
<1>4. FromCache'
  BY DEF FromCache, NewExtra
<1>5. SharedPack'
  BY DEF SharedPack, NewExtra
<1>6. Claimed'
  <2>1. /\ UNCHANGED <<memory, cache, own_pack, orphans, buf>>
        /\ pc[c] = "new_extra" /\ pc' = [pc EXCEPT ![c] = "publish"]
        /\ \A t \in Tensors \ {tensor[c]} : packed'[t] = packed[t]
    BY DEF NewExtra
  <2>2. \A b \in Buffers, t \in Tensors : Keeps(t, b) => Keeps(t, b)'
    BY <2>1 DEF Keeps, NotYetPacked
  <2>3. \A b \in Buffers, d \in Callers : Holds(d, b) => Holds(d, b)'
    BY <2>1 DEF Holds
  <2> QED BY <2>1, <2>2, <2>3 DEF Claimed
<1>7. CallerAlone'
  BY DEF CallerAlone, Holds, Keeps, NewExtra
<1>8. ExtraAlone'
  BY DEF ExtraAlone, Keeps, NewExtra
<1>9. CacheAlone'
  BY DEF CacheAlone, NewExtra
<1> QED BY <1>1, <1>2, <1>3, <1>4, <1>5, <1>6, <1>7, <1>8, <1>9

\* Publishing gives the caller's pack to the extra of its tensor.
LEMMA OwnPublish ==
  ASSUME LInv, LInv', OwnInv, NEW c \in Callers, Publish(c)
  PROVE  OwnInv'
<1> USE NullAssumption, CallerAssumption, KeysFacts
    DEF LInv, TypeOK, Holding, Labels, OwnInv, Goto, Key, extraVars
<1>0. /\ pc[c] = "publish" /\ buf[c] \in Buffers /\ tensor[c] \in Tensors
      /\ \A d \in Callers : pc[d] \in {"new_extra", "publish"} => d = c
      /\ packed' = [packed EXCEPT ![tensor[c]] = buf[c]]
      /\ own_pack' = [own_pack EXCEPT ![tensor[c]] = memory[buf[c]] = "malloc"]
      /\ buf' = [buf EXCEPT ![c] = NULL]
      /\ pc' = [pc EXCEPT ![c] = "compute"]
      /\ UNCHANGED <<weights, memory, content, cache, extra, orphans, tensor, used>>
  BY DEF Publish
<1>a. /\ packed'[tensor[c]] = buf[c]
      /\ own_pack'[tensor[c]] = (memory[buf[c]] = "malloc")
      /\ \A t \in Tensors \ {tensor[c]} : packed'[t] = packed[t] /\ own_pack'[t] = own_pack[t]
  BY <1>0
<1>1. NoExtraNoPack'
  BY <1>0, <1>a DEF NoExtraNoPack
<1>2. NotYetPacked'
  BY DEF NotYetPacked, Publish
<1>3. Origins'
  <2>1. \A t \in Tensors : own_pack'[t] /\ packed'[t] \in Buffers => memory'[packed'[t]] = "malloc"
    <3> SUFFICES ASSUME NEW t \in Tensors, own_pack'[t], packed'[t] \in Buffers
                 PROVE  memory'[packed'[t]] = "malloc"
      OBVIOUS
    <3>1. CASE t = tensor[c]
      BY <1>0, <1>a, <3>1, ZenonT(60)
    <3>2. CASE t # tensor[c]
      BY <1>0, <1>a, <3>2 DEF Origins
    <3> QED BY <3>1, <3>2
  <2> QED BY <1>0, <2>1 DEF Origins
<1>4. FromCache'
  BY DEF FromCache, Publish
<1>5. SharedPack'
  <2>1. memory[buf[c]] # "malloc" => buf[c] = cache[KeyOf[tensor[c]]]
    BY <1>0 DEF FromCache
  <2> SUFFICES ASSUME NEW t \in Tensors, packed'[t] \in Buffers, ~own_pack'[t]
               PROVE  packed'[t] = cache'[KeyOf[t]]
    BY DEF SharedPack
  <2>2. CASE t = tensor[c]
    BY <1>0, <1>a, <2>1, <2>2
  <2>3. CASE t # tensor[c]
    BY <1>0, <1>a, <2>3 DEF SharedPack
  <2> QED BY <2>2, <2>3
<1>6. Claimed'
  <2>1. \A b \in Buffers, t \in Tensors : Keeps(t, b) => Keeps(t, b)'
    BY <1>0, <1>a DEF Keeps, NotYetPacked
  <2>2. \A b \in Buffers, d \in Callers \ {c} : Holds(d, b) => Holds(d, b)'
    BY <1>0 DEF Holds
  <2>3. \A b \in Buffers : Holds(c, b) => Keeps(tensor[c], b)'
    BY <1>0, <1>a DEF Holds, Keeps
  <2> QED BY <1>0, <2>1, <2>2, <2>3 DEF Claimed
<1>7. CallerAlone'
  BY DEF CallerAlone, Holds, Keeps, FromCache, Publish
<1>8. ExtraAlone'
  BY DEF ExtraAlone, Keeps, CallerAlone, Holds, Origins, Publish
<1>9. CacheAlone'
  BY DEF CacheAlone, Publish
<1> QED BY <1>1, <1>2, <1>3, <1>4, <1>5, <1>6, <1>7, <1>8, <1>9

\* A product changes no owner.
LEMMA OwnCompute ==
  ASSUME LInv, LInv', OwnInv, NEW c \in Callers, Compute(c) \/ Computed(c)
  PROVE  OwnInv'
<1> USE NullAssumption, CallerAssumption, KeysFacts
    DEF LInv, TypeOK, Holding, Labels, OwnInv, Goto, Key, extraVars
<1>1. NoExtraNoPack'
  BY DEF NoExtraNoPack, Compute, Computed
<1>2. NotYetPacked'
  BY DEF NotYetPacked, Compute, Computed
<1>3. Origins'
  BY DEF Origins, Compute, Computed
<1>4. FromCache'
  BY DEF FromCache, Compute, Computed
<1>5. SharedPack'
  BY DEF SharedPack, Compute, Computed
<1>6. Claimed'
  BY DEF Claimed, Holds, Keeps, Compute, Computed
<1>7. CallerAlone'
  BY DEF CallerAlone, Holds, Keeps, Compute, Computed
<1>8. ExtraAlone'
  BY DEF ExtraAlone, Keeps, Compute, Computed
<1>9. CacheAlone'
  BY DEF CacheAlone, Compute, Computed
<1> QED BY <1>1, <1>2, <1>3, <1>4, <1>5, <1>6, <1>7, <1>8, <1>9

\* lut_free takes the packs from the extras and the cache, but from no caller.
LEMMA OwnFree ==
  ASSUME LInv, LInv', OwnInv, LutFree
  PROVE  OwnInv'
<1> USE NullAssumption, CallerAssumption, KeysFacts
    DEF LInv, TypeOK, Holding, Labels, OwnInv, Goto, Key, extraVars
<1>1. NoExtraNoPack'
  BY DEF NoExtraNoPack, LutFree
<1>2. NotYetPacked'
  BY DEF NotYetPacked, LutFree
<1>3. Origins'
  BY DEF Origins, LutFree
<1>4. FromCache'
  BY DEF FromCache, LutFree, Resting
<1>5. SharedPack'
  BY DEF SharedPack, LutFree
<1>6. Claimed'
  BY DEF Claimed, Holds, Keeps, LutFree, Cached, Owned, OwnedBy
<1>7. CallerAlone'
  BY DEF CallerAlone, Holds, LutFree, Resting
<1>8. ExtraAlone'
  BY DEF ExtraAlone, Keeps, LutFree
<1>9. CacheAlone'
  BY DEF CacheAlone, LutFree
<1> QED BY <1>1, <1>2, <1>3, <1>4, <1>5, <1>6, <1>7, <1>8, <1>9

\* A model that is loaded again has tensors without extras.
LEMMA OwnReload ==
  ASSUME LInv, LInv', OwnInv, Reload
  PROVE  OwnInv'
<1> USE NullAssumption, CallerAssumption, KeysFacts
    DEF LInv, TypeOK, Holding, Labels, OwnInv, Goto, Key, extraVars
<1>1. NoExtraNoPack'
  BY DEF NoExtraNoPack, Reload, Resting
<1>2. NotYetPacked'
  BY DEF NotYetPacked, Reload
<1>3. Origins'
  BY DEF Origins, Reload, Owned, OwnedBy
<1>4. FromCache'
  BY DEF FromCache, Reload
<1>5. SharedPack'
  BY DEF SharedPack, Reload
<1>6. Claimed'
  BY DEF Claimed, Holds, Keeps, Reload, Owned, OwnedBy
<1>7. CallerAlone'
  BY DEF CallerAlone, Holds, Reload, Resting
<1>8. ExtraAlone'
  BY DEF ExtraAlone, Keeps, Reload
<1>9. CacheAlone'
  BY DEF CacheAlone, Reload
<1> QED BY <1>1, <1>2, <1>3, <1>4, <1>5, <1>6, <1>7, <1>8, <1>9

\* A freshly loaded model has no packs.
LEMMA OwnInit == Init => OwnInv
BY NullAssumption, KeysFacts
   DEF Init, OwnInv, NoExtraNoPack, NotYetPacked, Origins, FromCache, SharedPack, Claimed, CallerAlone,
       ExtraAlone, CacheAlone, Holds, Keeps

\* Every step preserves the ownership of the packs.
LEMMA OwnStep ==
  ASSUME LInv, OwnInv, [Next]_vars
  PROVE  OwnInv'
<1>0. LInv'
  BY LStep
<1>1. ASSUME NEW c \in Callers, Insert(c) PROVE OwnInv'
  <2>1. InsertLate(c) \/ InsertReuse(c) \/ InsertNew(c)
    BY <1>1 DEF Insert
  <2> QED BY <1>0, <1>1, <2>1, OwnInsertLate, OwnInsertReuse, OwnInsertNew
<1>2. ASSUME NEW c \in Callers, Work(c) PROVE OwnInv'
  BY <1>0, <1>1, <1>2, OwnLookup, OwnAlloc, OwnEncode, OwnNewExtra, OwnPublish, OwnCompute DEF Work
<1>3. ASSUME NEW c \in Callers, NEW t \in Tensors, Prepare(c, t) PROVE OwnInv'
  BY <1>0, <1>3, OwnPrepare
<1>4. CASE LutFree
  BY <1>0, <1>4, OwnFree
<1>5. CASE Reload
  BY <1>0, <1>5, OwnReload
<1>6. CASE UNCHANGED vars
  BY <1>6 DEF vars, extraVars, OwnInv, NoExtraNoPack, NotYetPacked, Origins, FromCache, SharedPack,
              Claimed, CallerAlone, ExtraAlone, CacheAlone, Holds, Keeps, Key
<1> QED BY <1>2, <1>3, <1>4, <1>5, <1>6 DEF Next

\* The ownership invariant holds in every reachable state, whether the program
\* frees the packs with the model or not.
THEOREM PackOwnership == Spec => []OwnInv
<1> QED BY OwnInit, OwnStep, PackInvariant, PTL DEF Spec

\* Tensors with the same weights share the cached pack.
THEOREM PacksShared == Spec => []SharedPack
<1>1. OwnInv => SharedPack
  BY DEF OwnInv
<1> QED BY <1>1, PackOwnership, PTL

\* Free memory is nobody's to release.
LEMMA NobodyOwnsFree ==
  ASSUME LInv, OwnInv, NEW b \in Buffers, memory[b] = "free" PROVE Owners(b) = {}
BY DEF OwnInv, Origins, CallerAlone, Holds, Owners, OwnedBy

\* Memory that is not free is to be released by one owner.
LEMMA SomebodyOwns ==
  ASSUME LInv, OwnInv, NEW b \in Buffers, memory[b] # "free" PROVE \E o : Owners(b) = {o}
<1> USE NullAssumption DEF LInv, TypeOK, OwnInv
<1>0. /\ {t \in Tensors : b \in OwnedBy(t)} = {t \in Tensors : Keeps(t, b)}
      /\ {c \in Callers :
            /\ buf[c] = b
            /\ \/ pc[c] \in {"encode", "insert"}
               \/ pc[c] \in {"new_extra", "publish"} /\ memory[b] = "malloc"} =
         {c \in Callers : Holds(c, b)}
  BY DEF OwnedBy, Keeps, Holds
<1> DEFINE byCache  == {k \in Keys : cache[k] = b}
           byExtra  == {t \in Tensors : Keeps(t, b)}
           byOrphan == orphans \intersect {b}
           byCaller == {c \in Callers : Holds(c, b)}
<1>1. Owners(b) = {<<"cache", k>> : k \in byCache} \union {<<"extra", t>> : t \in byExtra}
                    \union {<<"orphan", o>> : o \in byOrphan} \union {<<"caller", c>> : c \in byCaller}
  BY <1>0, Zenon DEF Owners
<1>2. ASSUME NEW c \in Callers, Holds(c, b) PROVE Owners(b) = {<<"caller", c>>}
  <2>1. byCache = {} /\ byExtra = {} /\ byOrphan = {} /\ byCaller = {c}
    BY <1>2 DEF CallerAlone
  <2> QED BY <1>1, <2>1
<1>3. ASSUME NEW t \in Tensors, Keeps(t, b) PROVE Owners(b) = {<<"extra", t>>}
  <2>1. byCache = {}
    BY <1>3 DEF Origins, Keeps
  <2>2. byExtra = {t} /\ byOrphan = {} /\ byCaller = {}
    BY <1>3 DEF ExtraAlone, CallerAlone
  <2> QED BY <1>1, <2>1, <2>2
<1>4. ASSUME b \in orphans PROVE Owners(b) = {<<"orphan", b>>}
  <2>1. byCache = {}
    BY <1>4 DEF Origins
  <2>2. byExtra = {} /\ byOrphan = {b} /\ byCaller = {}
    BY <1>4 DEF ExtraAlone, CallerAlone
  <2> QED BY <1>1, <2>1, <2>2
<1>5. ASSUME NEW k \in Keys, cache[k] = b PROVE Owners(b) = {<<"cache", k>>}
  <2>1. byCache = {k}
    BY <1>5 DEF CacheAlone
  <2>2. byExtra = {} /\ byOrphan = {}
    BY <1>5 DEF Origins, Keeps
  <2>3. byCaller = {}
    BY <1>5 DEF CallerAlone
  <2> QED BY <1>1, <2>1, <2>2, <2>3
<1> QED BY <1>2, <1>3, <1>4, <1>5 DEF Claimed

\* Every pack has exactly one owner and free memory has none, however callers
\* race: no pack leaks and ggml_ifairy_lut_free releases none twice.
THEOREM OneOwnerEach == Spec => []OneOwner
<1>1. ASSUME LInv, OwnInv PROVE OneOwner
  <2> SUFFICES ASSUME NEW b \in Buffers
               PROVE  Cardinality(Owners(b)) = IF memory[b] = "free" THEN 0 ELSE 1
    BY DEF OneOwner
  <2>1. CASE memory[b] = "free"
    BY <1>1, <2>1, NobodyOwnsFree, FS_EmptySet
  <2>2. CASE memory[b] # "free"
    <3>1. PICK o : Owners(b) = {o}
      BY <1>1, <2>2, SomebodyOwns
    <3>2. Cardinality({o}) = 1
      BY FS_Singleton
    <3> QED BY <2>2, <3>1, <3>2
  <2> QED BY <2>1, <2>2
<1> QED BY <1>1, PackInvariant, PackOwnership, PTL
-----------------------------------------------------------------------------

\* A caller that begins has no pack with contents.
LEMMA ContentPrepare ==
  ASSUME LInv, LInv', OwnInv, ContentInv, NEW c \in Callers, NEW t \in Tensors, Prepare(c, t)
  PROVE  ContentInv'
<1> USE NullAssumption, CallerAssumption, KeysFacts
    DEF LInv, TypeOK, Holding, Labels, OwnInv, ContentInv, Goto, Key, extraVars, Fresh, Made
<1>1. CallerMade'
  BY DEF CallerMade, Prepare
<1>2. CacheMade'
  BY DEF CacheMade, Prepare
<1>3. ExtraMade'
  BY DEF ExtraMade, Prepare
<1>4. ReadsPublished'
  BY DEF ReadsPublished, Prepare
<1> QED BY <1>1, <1>2, <1>3, <1>4

\* A pack from the cache was written for the same key.
LEMMA ContentLookup ==
  ASSUME LInv, LInv', OwnInv, ContentInv, NEW c \in Callers, Lookup(c)
  PROVE  ContentInv'
<1> USE NullAssumption, CallerAssumption, KeysFacts
    DEF LInv, TypeOK, Holding, Labels, OwnInv, ContentInv, Goto, Key, extraVars, Fresh, Made
<1>1. CallerMade'
  BY DEF CallerMade, Lookup
<1>2. CacheMade'
  BY DEF CacheMade, Lookup
<1>3. ExtraMade'
  BY DEF ExtraMade, Lookup
<1>4. ReadsPublished'
  BY DEF ReadsPublished, Lookup
<1> QED BY <1>1, <1>2, <1>3, <1>4

\* A new buffer has no contents that anybody relies on.
LEMMA ContentAlloc ==
  ASSUME LInv, LInv', OwnInv, ContentInv, NEW c \in Callers, Alloc(c)
  PROVE  ContentInv'
<1> USE NullAssumption, CallerAssumption, KeysFacts
    DEF LInv, TypeOK, Holding, Labels, OwnInv, ContentInv, Goto, Key, extraVars, Fresh, Made
<1>1. CallerMade'
  BY DEF CallerMade, CallerAlone, Holds, FromCache, Origins, Alloc
<1>2. CacheMade'
  BY SMTT(40) DEF CacheMade, Origins, Alloc
<1>3. ExtraMade'
  BY DEF ExtraMade, SharedPack, Origins, Alloc
<1>4. ReadsPublished'
  BY DEF ReadsPublished, Alloc
<1> QED BY <1>1, <1>2, <1>3, <1>4

\* The contents a caller writes are those of its tensor.
LEMMA ContentEncode ==
  ASSUME LInv, LInv', OwnInv, ContentInv, NEW c \in Callers, Encode(c)
  PROVE  ContentInv'
<1> USE NullAssumption, CallerAssumption, KeysFacts
    DEF LInv, TypeOK, Holding, Labels, OwnInv, ContentInv, Goto, Key, extraVars, Fresh, Made
<1>1. CallerMade'
  BY DEF CallerMade, CallerAlone, Holds, FromCache, Encode
<1>2. CacheMade'
  BY DEF CacheMade, CallerAlone, Holds, Encode
<1>3. ExtraMade'
  BY DEF ExtraMade, SharedPack, CallerAlone, Holds, Keeps, Encode
<1>4. ReadsPublished'
  BY DEF ReadsPublished, Encode
<1> QED BY <1>1, <1>2, <1>3, <1>4

\* The cache gets a pack that is written.
LEMMA ContentInsert ==
  ASSUME LInv, LInv', OwnInv, ContentInv, NEW c \in Callers, Insert(c)
  PROVE  ContentInv'
<1> USE NullAssumption, CallerAssumption, KeysFacts
    DEF LInv, TypeOK, Holding, Labels, OwnInv, ContentInv, Goto, Key, extraVars, Fresh, Made
<1>1. CallerMade'
  BY DEF CallerMade, CacheMade, Insert, InsertLate, InsertReuse, InsertNew
<1>2. CacheMade'
  BY DEF CacheMade, CallerMade, Insert, InsertLate, InsertReuse, InsertNew
<1>3. ExtraMade'
  BY NullAssumption DEF ExtraMade, Insert, InsertLate, InsertReuse, InsertNew
<1>4. ReadsPublished'
  BY DEF ReadsPublished, Insert, InsertLate, InsertReuse, InsertNew
<1> QED BY <1>1, <1>2, <1>3, <1>4

\* An extra without a pack has no contents.
LEMMA ContentNewExtra ==
  ASSUME LInv, LInv', OwnInv, ContentInv, NEW c \in Callers, NewExtra(c)
  PROVE  ContentInv'
<1> USE NullAssumption, CallerAssumption, KeysFacts
    DEF LInv, TypeOK, Holding, Labels, OwnInv, ContentInv, Goto, Key, extraVars, Fresh, Made
<1>1. CallerMade'
  BY DEF CallerMade, NewExtra
<1>2. CacheMade'
  BY DEF CacheMade, NewExtra
<1>3. ExtraMade'
  BY DEF ExtraMade, NewExtra
<1>4. ReadsPublished'
  BY DEF ReadsPublished, NotYetPacked, NewExtra
<1> QED BY <1>1, <1>2, <1>3, <1>4

\* What is published was written for the tensor.
LEMMA ContentPublish ==
  ASSUME LInv, LInv', OwnInv, ContentInv, NEW c \in Callers, Publish(c)
  PROVE  ContentInv'
<1> USE NullAssumption, CallerAssumption, KeysFacts
    DEF LInv, TypeOK, Holding, Labels, OwnInv, ContentInv, Goto, Key, extraVars, Fresh, Made
<1>1. CallerMade'
  BY DEF CallerMade, Publish
<1>2. CacheMade'
  BY DEF CacheMade, Publish
<1>3. ExtraMade'
  BY DEF ExtraMade, CallerMade, Publish
<1>4. ReadsPublished'
  BY DEF ReadsPublished, NotYetPacked, Publish
<1> QED BY <1>1, <1>2, <1>3, <1>4

\* A product reads the pack its tensor has.
LEMMA ContentCompute ==
  ASSUME LInv, LInv', OwnInv, ContentInv, NEW c \in Callers, Compute(c) \/ Computed(c)
  PROVE  ContentInv'
<1> USE NullAssumption, CallerAssumption, KeysFacts
    DEF LInv, TypeOK, Holding, Labels, OwnInv, ContentInv, Goto, Key, extraVars, Fresh, Made
<1>1. CallerMade'
  BY DEF CallerMade, Compute, Computed
<1>2. CacheMade'
  BY DEF CacheMade, Compute, Computed
<1>3. ExtraMade'
  BY DEF ExtraMade, Compute, Computed
<1>4. ReadsPublished'
  BY DEF ReadsPublished, Compute, Computed
<1> QED BY <1>1, <1>2, <1>3, <1>4

\* With the cache emptied, no freed pack is left anywhere it could be read from.
LEMMA ContentFree ==
  ASSUME LInv, LInv', OwnInv, ContentInv, LutFree
  PROVE  ContentInv'
<1> USE NullAssumption, CallerAssumption, KeysFacts
    DEF LInv, TypeOK, Holding, Labels, OwnInv, ContentInv, Goto, Key, extraVars, Fresh, Made
<1>1. CallerMade'
  BY DEF CallerMade, LutFree, Resting
<1>2. CacheMade'
  BY DEF CacheMade, LutFree
<1>3. ExtraMade'
  BY DEF ExtraMade, LutFree
<1>4. ReadsPublished'
  BY DEF ReadsPublished, LutFree, Resting
<1> QED BY <1>1, <1>2, <1>3, <1>4

\* A tensor that is loaded again refers to no pack; what is cached is now of an
\* earlier model.
LEMMA ContentReload ==
  ASSUME LInv, LInv', OwnInv, ContentInv, Reload
  PROVE  ContentInv'
<1> USE NullAssumption, CallerAssumption, KeysFacts
    DEF LInv, TypeOK, Holding, Labels, OwnInv, ContentInv, Goto, Key, extraVars, Fresh
<1>1. CallerMade'
  BY DEF CallerMade, Reload, Resting
<1>2. CacheMade'
  <2> SUFFICES ASSUME NEW k \in Keys, cache'[k] \in Buffers
               PROVE  \E m \in 1 .. weights'[k] : content'[cache'[k]] = <<k, m>>
    BY DEF CacheMade, Made
  <2>1. PICK m \in 1 .. weights[k] : content[cache[k]] = <<k, m>>
    BY DEF CacheMade, Made, Reload
  <2>2. weights[k] \in 1 .. MaxLoads /\ weights'[k] = weights[k] + 1
    BY DEF Reload
  <2>3. m \in 1 .. weights'[k]
    BY <2>1, <2>2, LoadsAssumption
  <2> QED BY <2>1, <2>3 DEF Reload
<1>3. ExtraMade'
  BY DEF ExtraMade, Reload
<1>4. ReadsPublished'
  BY DEF ReadsPublished, Reload, Resting
<1> QED BY <1>1, <1>2, <1>3, <1>4

\* A freshly loaded model has no packs.
LEMMA ContentInit == Init => ContentInv
BY NullAssumption DEF Init, ContentInv, CallerMade, CacheMade, ExtraMade, ReadsPublished

\* Every step preserves what the packs hold.
LEMMA ContentStep ==
  ASSUME LInv, OwnInv, ContentInv, [Next]_vars
  PROVE  ContentInv'
<1>0. LInv'
  BY LStep
<1>1. ASSUME NEW c \in Callers, Work(c) PROVE ContentInv'
  BY <1>0, <1>1, ContentLookup, ContentAlloc, ContentEncode, ContentInsert, ContentNewExtra,
     ContentPublish, ContentCompute DEF Work
<1>2. ASSUME NEW c \in Callers, NEW t \in Tensors, Prepare(c, t) PROVE ContentInv'
  BY <1>0, <1>2, ContentPrepare
<1>3. CASE LutFree
  BY <1>0, <1>3, ContentFree
<1>4. CASE Reload
  BY <1>0, <1>4, ContentReload
<1>5. CASE UNCHANGED vars
  BY <1>5 DEF vars, extraVars, ContentInv, CallerMade, CacheMade, ExtraMade, ReadsPublished,
              Fresh, Made, Key
<1> QED BY <1>1, <1>2, <1>3, <1>4, <1>5 DEF Next

\* What the packs hold, for any number of contexts, tensors, keys and models.
LEMMA PackContent == Spec => []ContentInv
<1>1. [](LInv /\ OwnInv) /\ Spec => []ContentInv
  BY ContentInit, ContentStep, PTL DEF Spec
<1> QED BY <1>1, PackInvariant, PackOwnership, PTL

\* The pack a product reads is allocated and was made for the key of its tensor,
\* from the weights the tensor has now unless it is the cached one: whatever races,
\* fails, is freed by ggml_ifairy_lut_free or is loaded at the same addresses.
THEOREM PackReadable == Spec => []PackUsable
<1>1. ASSUME LInv, OwnInv, ContentInv PROVE PackUsable
  <2> SUFFICES ASSUME NEW c \in Callers, pc[c] = "using", used[c] \in Buffers
               PROVE  /\ memory[used[c]] # "free"
                      /\ \E m \in 1 .. weights[Key(c)] :
                           /\ content[used[c]] = <<Key(c), m>>
                           /\ m = weights[Key(c)] \/ used[c] = cache[Key(c)]
    BY DEF PackUsable
  <2>1. tensor[c] \in Tensors /\ used[c] = packed[tensor[c]] /\ Key(c) \in Keys
    BY <1>1, KeysFacts DEF ContentInv, ReadsPublished, LInv, TypeOK, Key
  <2>2. Fresh(used[c], Key(c)) \/ used[c] = cache[Key(c)]
    BY <1>1, <2>1 DEF ContentInv, ExtraMade, Key
  <2>3. memory[used[c]] # "free"
    BY <1>1, <2>1, KeysFacts DEF OwnInv, Origins, SharedPack
  <2>4. CASE Fresh(used[c], Key(c))
    <3>1. weights[Key(c)] \in 1 .. weights[Key(c)]
      BY <1>1, <2>1, LoadsAssumption DEF LInv, TypeOK
    <3> QED BY <2>3, <2>4, <3>1 DEF Fresh
  <2>5. CASE used[c] = cache[Key(c)]
    BY <1>1, <2>1, <2>3, <2>5 DEF ContentInv, CacheMade, Made
  <2> QED BY <2>2, <2>4, <2>5
<1> QED BY <1>1, PackInvariant, PackOwnership, PackContent, PTL

\* Only another model at the same addresses makes a cached pack stale.  In
\* particular a cache that ggml_ifairy_lut_free emptied stays fresh until then.
THEOREM OnlyLoadsStale ==
  Spec => [][CacheFresh /\ UNCHANGED weights => CacheFresh']_vars
<1>1. ASSUME LInv, OwnInv, ContentInv, [Next]_vars, CacheFresh, UNCHANGED weights
      PROVE  CacheFresh'
  <2> USE NullAssumption, CallerAssumption, KeysFacts, <1>1
      DEF LInv, TypeOK, Holding, Labels, OwnInv, ContentInv, Goto, Key, extraVars, Fresh
  <2>1. ASSUME NEW c \in Callers, Encode(c) PROVE CacheFresh'
    BY <2>1 DEF CacheFresh, CallerAlone, Holds, Encode
  <2>2. ASSUME NEW c \in Callers, Alloc(c) PROVE CacheFresh'
    BY <2>2, SMTT(40) DEF CacheFresh, Origins, Alloc
  <2>3. ASSUME NEW c \in Callers, Insert(c) PROVE CacheFresh'
    BY <2>3 DEF CacheFresh, CallerMade, Insert, InsertLate, InsertReuse, InsertNew
  <2>4. ASSUME NEW c \in Callers,
               \/ Lookup(c) \/ NewExtra(c) \/ Publish(c) \/ Compute(c) \/ Computed(c)
               \/ \E t \in Tensors : Prepare(c, t)
        PROVE  CacheFresh'
    BY <2>4 DEF CacheFresh, Lookup, NewExtra, Publish, Compute, Computed, Prepare
  <2>5. CASE LutFree
    BY <2>5 DEF CacheFresh, LutFree
  <2>6. CASE Reload
    BY <2>6 DEF CacheFresh, Reload
  <2>7. CASE UNCHANGED vars
    BY <2>7 DEF CacheFresh, vars
  <2> QED BY <2>1, <2>2, <2>3, <2>4, <2>5, <2>6, <2>7 DEF Next, Work
<1> QED BY <1>1, PackInvariant, PackOwnership, PackContent, PTL DEF Spec
=============================================================================
