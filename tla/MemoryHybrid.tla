----------------------------- MODULE MemoryHybrid -----------------------------
(***************************************************************************)
(* llama_memory_hybrid (src/llama-memory-hybrid.cpp): for models that have *)
(* layers of both kinds, a KV cache (cells, head, ...) and a recurrent     *)
(* memory (recr_cells, recr_head, ...).  Every call goes to both, a        *)
(* removal first to the recurrent memory, which may refuse it; a batch is  *)
(* split as the recurrent memory needs it, and placed in both or neither.  *)
(***************************************************************************)
EXTENDS Integers, Sequences
LOCAL INSTANCE FiniteSetsExt
LOCAL INSTANCE SequencesExt

CONSTANTS
  Size, AttnCells,  \* rs_size and kv_size
  NUbatch, Shapes, TokOf, EmbdModes, MaxPos, Shifts, Divs, AnyRmAll, \* see MemoryRecurrent
  CopyOnto, LoadPending,                                             \* see KvCache
  Parts  \* are parts of sequences copied, moved or divided without their end, or moved below 0?

VARIABLES
  cells, head, prefix, data, copies, todo, seen,
  recr_cells, recr_head, recr_used, recr_data, recr_todo, recr_batch, recr_fed

attnVars == <<cells, head, prefix, data, copies, todo, seen>>
recrVars == <<recr_cells, recr_head, recr_used, recr_data, recr_todo, recr_batch, recr_fed>>
vars     == <<attnVars, recrVars>>

Seqs == 0 .. Size - 1

Attn == INSTANCE KvCache WITH
  Unified <- TRUE, NCells <- AttnCells, SwaType <- "none", NSwa <- 0, PrefixWindow <- 0, PrefixCap <- 0,
  MaxBatch <- 1, Toks <- {TokOf[s] : s \in Seqs}, MaxCopies <- 0,
  SharedFails <- FALSE, PrefixFails <- FALSE, AnyRm <- FALSE

Recr == INSTANCE MemoryRecurrent WITH
  MaxText <- AttnCells,
  AnyFailure <- FALSE,  \* run memory_abort: the states of a failed micro-batch are not taken back
  cells <- recr_cells, head <- recr_head, used <- recr_used, data <- recr_data,
  todo <- recr_todo, batch <- recr_batch, fed <- recr_fed

Init == Attn!Init /\ Recr!Init
-----------------------------------------------------------------------------
(***************************************************************************)
(* The llama_memory_* functions.                                           *)
(***************************************************************************)
PosMin(s) == Max({Attn!seq_pos_min(cells[0], s), Recr!PosMin(s)})
PosMax(s) == Min({Attn!PosMax(s), Recr!PosMax(s)})

\* The end of s is in the range, or all of s.
WithEnd(s, r) == Parts \/ PosMax(s) = -1 \/ Recr!Store!In(PosMax(s), r)
\* No token of s is moved below 0: the KV cache would drop it, the recurrent state cannot.
Above(s, r, shift) ==
  Parts \/ \A i \in cells[0].used :
    s \in cells[0].seq[i] /\ Recr!Store!In(cells[0].pos[i], r) => cells[0].pos[i] + shift >= 0
Whole(s, r)   == Parts \/ \A i \in cells[0].used : s \in cells[0].seq[i] => Recr!Store!In(cells[0].pos[i], r)

\* What a caller leaves: no two tokens of a sequence at one position.  And a bound: division
\* turns keys the wrong way, ever further.
Sane ==
  /\ \A s \in Seqs : \A i, j \in cells[0].used :
       i # j /\ s \in cells[0].seq[i] \intersect cells[0].seq[j] => cells[0].pos[i] # cells[0].pos[j]
  /\ \A i \in cells[0].used : data[0][i].rot + cells[0].shift[i] <= 2 * MaxPos

Clear(zero) == Attn!Clear(zero) /\ Recr!Clear

\* What the recurrent memory refuses to remove stays in the KV cache, too.
SeqRm(s, r) == ~Recr!Refuses(recr_cells, s, r) /\ Recr!SeqRm(s, r) /\ Attn!SeqRm(s, r)
SeqRmAll(r) ==
  (r[1] = r[2] \/ Recr!Store!Everything(r)) /\ Recr!SeqRmAll(r) /\ Attn!SeqRmAll(r)

\* The KV cache adds to what dst has, the recurrent memory replaces it.
SeqCp(src, dst, r) ==
  /\ CopyOnto \/ PosMax(dst) = -1
  /\ Whole(src, r) /\ Attn!SeqCpShared(src, dst, r) /\ Recr!SeqCp(src, dst)

SeqKeep(s)          == Attn!SeqKeep(s) /\ Recr!SeqKeep(s)
SeqAdd(s, r, shift) ==
  /\ WithEnd(s, r) /\ Above(s, r, shift)
  /\ Attn!SeqAdd(s, r, shift) /\ Recr!SeqAdd(s, r, shift) /\ Sane'
SeqDiv(s, r, d)     == WithEnd(s, r) /\ Attn!SeqDiv(s, r, d) /\ Recr!SeqDiv(s, r, d) /\ Sane'

\* state_read of a sequence, with adjacent cells for it in the KV cache.
LoadSeq(src, dst) ==
  Attn!LoadSlot(src, dst) # Attn!NoSlot /\ Attn!LoadSeq(src, dst) /\ Recr!LoadSeq(src, dst)

Reload == Attn!Reload /\ Recr!Reload
-----------------------------------------------------------------------------
(***************************************************************************)
(* llama_context::decode.                                                  *)
(***************************************************************************)
\* A micro-batch as the KV cache sees it.
AttnUbatch(b, u) ==
  [st \in {0} |-> [k \in DOMAIN u.idxs |->
     LET t == b[u.idxs[k]] IN [tok |-> TokOf[t.ids[1]], pos |-> t.pos, seqs |-> ToSet(t.ids)]]]

\* The tokens of s in the KV cache, in the order of their positions, and those that its
\* recurrent state was computed from.
Text(s)   == LET q == SetToSortSeq({t \in Attn!Stored : s \in t.seqs}, LAMBDA t, u : t.pos < u.pos)
             IN [k \in DOMAIN q |-> q[k].tok]
Folded(s) == IF recr_cells[s].tail = -1 THEN <<>> ELSE recr_data[recr_cells[s].tail]

\* Batches that go on where the memory as a whole ends.  Tokens in several sequences need
\* sequences with the same text ("it's assumed that ... they are equivalent").
Batches ==
  LET lo == [s \in Seqs |-> PosMin(s)]
      hi == [s \in Seqs |-> PosMax(s)]
  IN {b \in {Recr!AutoPos(lists, hi) : lists \in Shapes} :
        /\ Recr!Accepts(b, lo, hi)
        /\ \A i \in DOMAIN b : /\ b[i].pos <= MaxPos
                              /\ \A s, t \in ToSet(b[i].ids) : Text(s) = Text(t)}

\* init_batch: "prepare the recurrent batches first", then the attention cache.
Begin(b, embd_all) ==
  /\ Attn!Resting /\ Recr!Resting
  /\ data' = Attn!Rotated
  /\ seen' = {}
  /\ \E us \in {Recr!SplitOf(b, embd_all)} :
     \E ubs \in {[k \in DOMAIN us |-> AttnUbatch(b, us[k])]} :
     \E recr \in {Recr!prepare(Recr!Mem, [k \in DOMAIN us |-> Recr!Ubatch(b, us[k])])},
        attn \in {Attn!prepare(Attn!Updated, head, prefix, ubs)} :
        /\ cells' = IF recr.ok THEN attn.cells ELSE Attn!Updated
        /\ todo' = IF recr.ok /\ attn.ok
                   THEN [k \in DOMAIN ubs |-> [ub |-> ubs[k], slot |-> attn.slots[k]]] ELSE <<>>
        /\ IF attn.ok THEN Recr!Begin(b, embd_all)
           ELSE recr_fed' = {} /\ UNCHANGED <<recr_cells, recr_head, recr_used, recr_data, recr_todo, recr_batch>>
  /\ UNCHANGED <<head, prefix, copies>>

Ubatch      == Attn!Ubatch /\ Recr!Compute
UbatchFails == Attn!UbatchFails /\ Recr!ComputeFails
-----------------------------------------------------------------------------
Next ==
  \/ \E zero \in BOOLEAN : Clear(zero)
  \/ \E r \in Attn!Ranges :
       \/ SeqRmAll(r)
       \/ \E s \in Seqs : \/ SeqRm(s, r)
                          \/ \E t \in Seqs \ {s} : SeqCp(s, t, r)
                          \/ \E d \in Shifts : SeqAdd(s, r, d)
                          \/ \E d \in Divs : SeqDiv(s, r, d)
  \/ \E s \in Seqs : SeqKeep(s) \/ (\E t \in Seqs \ {s} : LoadSeq(s, t))
  \/ \E b \in Batches, embd_all \in EmbdModes : Begin(b, embd_all)
  \/ Ubatch \/ UbatchFails \/ Reload

Spec == Init /\ [][Next]_vars
-----------------------------------------------------------------------------
(***************************************************************************)
(* Properties.                                                             *)
(***************************************************************************)
\* The two memories never drift apart, though one of them refuses, runs out of cells or
\* shares a state where the other shares cells: layers of both kinds go on from the same
\* text, at the same position.
InStep == \A s \in Seqs : Text(s) = Folded(s) /\ Attn!PosMax(s) = Recr!PosMax(s)
=============================================================================
