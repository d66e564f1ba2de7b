------------------------------- MODULE KvPair -------------------------------
(***************************************************************************)
(* llama_kv_cache_iswa: two KV caches for one model, one for the layers    *)
(* that attend to everything (cells, head, ...) and a smaller one for the  *)
(* layers with a sliding window (swa_cells, swa_head, ...).  Every call    *)
(* goes to both; a batch is placed in both or in neither; what the program *)
(* is told about positions comes from the windowed cache alone.            *)
(***************************************************************************)
EXTENDS Integers, Sequences
LOCAL INSTANCE FiniteSetsExt

CONSTANTS
  Seqs, Unified, Toks,
  BaseCells,   \* kv_size
  SwaType, NSwa,
  NUbatch, MaxBatch, MaxPos, Shifts, Divs, MaxCopies, CopyOnto, SharedFails, LoadPending, \* see KvCache
  PastWindow,  \* are sequences cut or copied so that the window of the next token is lost?
  LoadFails    \* may the cells be too scattered for a sequence that is loaded?

VARIABLES
  cells, head, prefix, data, copies, todo, seen,
  swa_cells, swa_head, swa_prefix, swa_data, swa_copies, swa_todo, swa_seen

baseVars == <<cells, head, prefix, data, copies, todo, seen>>
swaVars  == <<swa_cells, swa_head, swa_prefix, swa_data, swa_copies, swa_todo, swa_seen>>
vars     == <<baseVars, swaVars>>

\* The windows of all sequences and a micro-batch, if that is less.
size_swa == Min({BaseCells, NSwa * (IF Unified THEN Cardinality(Seqs) ELSE 1) + NUbatch})

Base == INSTANCE KvCache WITH
  NCells <- BaseCells, SwaType <- "none", NSwa <- 0, PrefixWindow <- 0, PrefixCap <- 0,
  PrefixFails <- FALSE, AnyRm <- FALSE

Swa == INSTANCE KvCache WITH
  NCells <- size_swa, PrefixWindow <- 0, PrefixCap <- 0,
  PrefixFails <- FALSE, AnyRm <- FALSE,
  cells <- swa_cells, head <- swa_head, prefix <- swa_prefix, data <- swa_data,
  copies <- swa_copies, todo <- swa_todo, seen <- swa_seen

Init == Base!Init /\ Swa!Init
-----------------------------------------------------------------------------
(***************************************************************************)
(* What the two caches hold.                                               *)
(***************************************************************************)
HeldBase(s) == {<<t.pos, t.tok>> : t \in {t \in Base!Stored : s \in t.seqs}}
HeldSwa(s)  == {<<t.pos, t.tok>> : t \in {t \in Swa!Stored : s \in t.seqs}}

\* "The base cache is a superset of the SWA cache."
Superset == \A s \in Seqs : HeldSwa(s) \subseteq HeldBase(s)

\* The window of the next token of each sequence is there.
WindowThere ==
  \A s \in Seqs : LET end == Max({-1} \union {x[1] : x \in HeldBase(s)})
                  IN \A x \in HeldBase(s) : Swa!is_masked_swa(x[1], end + 1) \/ x \in HeldSwa(s)

\* In the layers with a window a token attends to what it attends to in the others, as
\* far as its window goes.
SeenAlike ==
  {<<x[1], x[2]>> : x \in swa_seen} = {<<x[1], x[2]>> : x \in seen} /\
  \A x \in seen, y \in swa_seen :
    x[1] = y[1] /\ x[2] = y[2] => y[3] = {z \in x[3] : ~Swa!is_masked_swa(z[2], y[2])}
-----------------------------------------------------------------------------
(***************************************************************************)
(* The llama_memory_* functions.                                           *)
(***************************************************************************)
KeepsWindow == PastWindow \/ WindowThere'

Clear(zero) == Base!Clear(zero) /\ Swa!Clear(zero)
SeqRm(s, r) == Base!SeqRm(s, r) /\ Swa!SeqRm(s, r) /\ KeepsWindow
SeqRmAll(r) == Base!SeqRmAll(r) /\ Swa!SeqRmAll(r) /\ KeepsWindow
SeqKeep(s)  == Base!SeqKeep(s) /\ Swa!SeqKeep(s)

\* Faulty: only the larger cache knows of the copy.
SeqCpBase(src, dst, r) ==
  (Base!SeqCpShared(src, dst, r) \/ Base!SeqCpStream(src, dst, r)) /\ UNCHANGED swaVars

SeqCp(src, dst, r) ==
  \/ Base!SeqCpShared(src, dst, r) /\ Swa!SeqCpShared(src, dst, r) /\ KeepsWindow
  \/ Base!SeqCpStream(src, dst, r) /\ Swa!SeqCpStream(src, dst, r)

\* Positions can be shifted if the caches are as large.
get_can_shift == size_swa = BaseCells

SeqAdd(s, r, d) == get_can_shift /\ Base!SeqAdd(s, r, d) /\ Swa!SeqAdd(s, r, d) /\ KeepsWindow
SeqDiv(s, r, d) == get_can_shift /\ Base!SeqDiv(s, r, d) /\ Swa!SeqDiv(s, r, d) /\ KeepsWindow

\* state_read: the second cache is not read when the first has no room.
LoadSeq(src, dst) ==
  /\ LoadFails \/ (Base!LoadSlot(src, dst) # Base!NoSlot /\ Swa!LoadSlot(src, dst) # Swa!NoSlot)
  /\ Base!LoadSeq(src, dst)
  /\ IF Base!LoadSlot(src, dst) = Base!NoSlot THEN UNCHANGED swaVars ELSE Swa!LoadSeq(src, dst)

Reload == Base!Reload /\ Swa!Reload
-----------------------------------------------------------------------------
(***************************************************************************)
(* llama_context::decode.  A sequence goes on where the windowed cache says*)
(* that it ends.                                                           *)
(***************************************************************************)
\* split_equal for one stream: the same number of tokens of each sequence.
EqualUbatches(S, n, tok) ==
  LET per == NUbatch \div Cardinality(S)
  IN Swa!InStream(0, [k \in 1 .. (n + per - 1) \div per |->
       FoldSet(LAMBDA s, q : q \o Swa!Chunks(Swa!New({s}, n, tok), per)[k], <<>>, S)])

\* Micro-batches are placed in the base cache, then in the other.
Both(ubs, b, w) == [ok |-> w.ok, ubs |-> ubs, base |-> b, swa |-> w]
AttemptSwa(D, ubs, b) ==
  Both(ubs, b, IF b.ok THEN Swa!prepare(D, swa_head, swa_prefix, ubs)
               ELSE [ok |-> FALSE, slots |-> <<>>, cells |-> D])
Attempt(C, D, ubs) == AttemptSwa(D, ubs, Base!prepare(C, head, prefix, ubs))

\* init_batch: a simple split, then an equal one.
Retry(first, ubs) ==
  IF first.ok \/ ~Unified THEN first ELSE Attempt(first.base.cells, first.swa.cells, ubs)
init_batch(S, n, tok, shared) ==
  LET first == Attempt(Base!Updated, Swa!Updated, Swa!UbatchesOf(S, n, tok, shared))
  IN IF shared THEN first ELSE Retry(first, EqualUbatches(S, n, tok))

Todo(x, p) == IF x.ok THEN [k \in DOMAIN x.ubs |-> [ub |-> x.ubs[k], slot |-> p.slots[k]]] ELSE <<>>

Begin(S, n, tok, shared) ==
  /\ Base!Resting
  /\ Swa!MayDecode(S, n, shared) /\ (shared => Base!Coupled(S))
  /\ data' = Base!Rotated /\ swa_data' = Swa!Rotated
  /\ copies' = <<>> /\ swa_copies' = <<>>
  /\ seen' = {} /\ swa_seen' = {}
  /\ \E x \in {init_batch(S, n, tok, shared)} :
        /\ cells' = x.base.cells /\ swa_cells' = x.swa.cells
        /\ todo' = Todo(x, x.base) /\ swa_todo' = Todo(x, x.swa)
  /\ UNCHANGED <<head, prefix, swa_head, swa_prefix>>

Ubatch      == Base!Ubatch /\ Swa!Ubatch
UbatchFails == Base!UbatchFails /\ Swa!UbatchFails
-----------------------------------------------------------------------------
Next ==
  \/ \E zero \in BOOLEAN : Clear(zero)
  \/ \E r \in Base!Ranges :
       \/ SeqRmAll(r)
       \/ \E s \in Seqs : \/ SeqRm(s, r)
                          \/ \E t \in Seqs \ {s} : SeqCp(s, t, r)
                          \/ \E d \in Shifts : SeqAdd(s, r, d)
                          \/ \E d \in Divs : SeqDiv(s, r, d)
  \/ \E s \in Seqs : SeqKeep(s) \/ (\E t \in Seqs \ {s} : LoadSeq(s, t))
  \/ \E b \in Base!Batches : Begin(b.seqs, b.n, b.tok, b.shared)
  \/ Ubatch \/ UbatchFails \/ Reload

Spec == Init /\ [][Next]_vars
-----------------------------------------------------------------------------
(***************************************************************************)
(* Properties.                                                             *)
(***************************************************************************)
\* The two caches never drift apart, whatever calls, failures and reused cells they have
\* been through: layers of both kinds see the same text.
InStep == Superset /\ WindowThere /\ SeenAlike
=============================================================================
