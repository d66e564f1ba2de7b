------------------------------- MODULE KvCache -------------------------------
(***************************************************************************)
(* llama_kv_cache (src/llama-kv-cache.cpp) as llama_context::decode and    *)
(* the llama_memory_* functions drive it, from one thread: cells of each   *)
(* stream, the place where the search for a slot starts, the keys and      *)
(* values in the buffers, copies between streams and position shifts that  *)
(* are carried out by the next decode, and the decode itself, which places *)
(* all micro-batches before it computes them one by one.                   *)
(*                                                                         *)
(* Keys and values of a token are abstracted to the token (tok) and to the *)
(* position its key is rotated to (rot).                                   *)
(***************************************************************************)
EXTENDS KvCells, Sequences, SequencesExt

CONSTANTS
  Unified,   \* kv_unified: one stream for all sequences
  SwaType, NSwa,
  PrefixWindow, PrefixCap,  \* prefix sliding, 0 without it
  NUbatch,   \* tokens per micro-batch
  MaxBatch,  \* bound on the tokens per sequence in a batch
  Toks,      \* tokens
  MaxPos, Shifts, Divs,
  MaxCopies,   \* bound on the number of pending copies
  CopyOnto,    \* may a sequence be copied onto one that has some of its cells?
  SharedFails, \* may the computation of tokens in several sequences fail?
  PrefixFails, \* and of tokens of a prefix, or of the first token?
  AnyRm,       \* with prefix sliding, may tokens that the window has passed be last again?
  LoadPending  \* is state saved and loaded with copies or shifts pending?

ASSUME DecodeAssumption ==
  /\ NUbatch \in Nat \ {0} /\ MaxBatch \in Nat \ {0}
  /\ Unified \/ NUbatch >= Cardinality(Seqs)
  /\ PrefixWindow > 0 => ~Unified /\ SwaType = "none"
ASSUME ArgumentsAssumption ==
  /\ PrefixWindow \in Nat /\ PrefixCap \in Nat /\ MaxPos \in Nat
  /\ Shifts \subseteq Int /\ Divs \subseteq Nat \ {0} /\ "none" \notin Toks

VARIABLES
  cells,   \* v_cells, per stream
  head,    \* v_heads, per stream
  prefix,  \* v_prefix_end, per sequence
  data,    \* the buffers: per stream and cell what was last written
  copies,  \* sc_info: pending copies between streams
  todo,    \* micro-batches of the current decode, with their slots
  seen     \* what the tokens computed by the last step attend to

vars == <<cells, head, prefix, data, copies, todo, seen>>

Streams     == IF Unified THEN {0} ELSE Seqs
StreamOf(s) == IF Unified THEN 0 ELSE s
NoData      == [tok |-> "none", rot |-> 0]
Resting     == todo = <<>>
Sliding     == PrefixWindow > 0

Tokens(c, d) == {[tok |-> d[i].tok, pos |-> c.pos[i], seqs |-> c.seq[i]] : i \in c.used}

\* Faulty: every copy is made from what the buffers hold now.
CopiedAtOnce == [st \in Streams |->
  LET K == {k \in DOMAIN copies : copies[k][2] = st}
  IN IF K = {} THEN data[st] ELSE data[copies[Max(K)][1]]]

\* The buffers once the pending copies are made.
Copied == LET after[k \in 0 .. Len(copies)] ==
                IF k = 0 THEN data
                ELSE [after[k - 1] EXCEPT ![copies[k][2]] = after[k - 1][copies[k][1]]]
          IN after[Len(copies)]

Stored == UNION {Tokens(cells[st], Copied[st]) : st \in Streams}

Store == INSTANCE KvStore WITH tokens <- Stored

Init ==
  /\ cells = [st \in Streams |-> Reset]
  /\ head = [st \in Streams |-> 0]
  /\ prefix = Store!NoPrefix
  /\ data = [st \in Streams |-> [i \in Idx |-> NoData]]
  /\ copies = <<>>
  /\ todo = <<>>
  /\ seen = {}
-----------------------------------------------------------------------------
(***************************************************************************)
(* The llama_memory_* functions.                                           *)
(***************************************************************************)
\* Apply op to the cells in I, one after the other.
Each(c, I, op(_, _)) == FoldSet(op, c, I)
InRange(c, r)    == {i \in Idx : pos_in(c, i, r[1], r[2])}
Having(c, r, s)  == {i \in InRange(c, r) : seq_has(c, i, s)}

\* "If we freed up a slot, set head to it so searching can start there."
Freed(c, d)      == {i \in Idx : ~is_empty(c, i) /\ is_empty(d, i)}
HeadAfter(h, c, d) == IF Freed(c, d) # {} /\ Min(Freed(c, d)) < h THEN Min(Freed(c, d)) ELSE h

\* seq_rm of one sequence, on given cells.
WithoutSeq(c, s, r) == Each(c, Having(c, r, s), LAMBDA i, d : seq_rm(d, i, s))

\* Faulty: the prefix stays when nothing is left.
LoweredNot(pre, S, r) == [s \in Seqs |-> IF s \in S /\ r[1] < pre[s] THEN r[1] ELSE pre[s]]

\* seq_rm(r) of S: a prefix that something is removed from ends there.
Lowered(pre, S, r) ==
  [s \in Seqs |-> IF s \notin S THEN pre[s]
                  ELSE IF r = <<0, -1>> THEN -1
                  ELSE IF r[1] < pre[s] THEN r[1] ELSE pre[s]]

\* With prefix sliding a program goes back into the prefix, or to the start; elsewhere
\* what comes before may have been overwritten.
MayRm(S, r) ==
  Sliding /\ ~AnyRm => r[2] = -1 /\ \A s \in S : r[1] <= Max({0, prefix[s]})

PosMax(s) == seq_pos_max(cells[StreamOf(s)], s)

Clear(zero) ==
  /\ Resting
  /\ cells' = [st \in Streams |-> Reset]
  /\ head' = [st \in Streams |-> 0]
  /\ prefix' = Store!NoPrefix
  /\ data' = IF zero THEN [st \in Streams |-> [i \in Idx |-> NoData]] ELSE data
  /\ seen' = {}
  /\ UNCHANGED <<copies, todo>>

SeqRm(s, r) ==
  /\ Resting /\ MayRm({s}, r)
  /\ prefix' = Lowered(prefix, {s}, r)
  /\ LET st == StreamOf(s)
         d  == WithoutSeq(cells[st], s, r)
     IN /\ cells' = [cells EXCEPT ![st] = d]
        /\ head' = [head EXCEPT ![st] = HeadAfter(@, cells[st], d)]
  /\ seen' = {}
  /\ UNCHANGED <<data, copies, todo>>

\* seq_rm with seq_id = -1: every cell in the range.
SeqRmAll(r) ==
  /\ Resting /\ MayRm(Seqs, r)
  /\ prefix' = Lowered(prefix, Seqs, r)
  /\ cells' = [st \in Streams |-> Each(cells[st], InRange(cells[st], r), LAMBDA i, d : rm(d, i))]
  /\ head' = [st \in Streams |-> HeadAfter(head[st], cells[st], cells'[st])]
  /\ seen' = {}
  /\ UNCHANGED <<data, copies, todo>>

\* seq_cp within a stream: only the sequence sets change.
SeqCpShared(src, dst, r) ==
  /\ Resting /\ Unified
  /\ LET I == Having(cells[0], r, src)
     IN /\ CopyOnto \/ \A i \in I : ~seq_has(cells[0], i, dst)
        /\ cells' = [cells EXCEPT ![0] = Each(@, I, LAMBDA i, d : seq_add(d, i, dst))]
  /\ seen' = {}
  /\ UNCHANGED <<head, prefix, data, copies, todo>>

\* Faulty: the copy forgets the pending shift.
CopyCellShifted(d, c, i, dst) == seq_add(pos_set(d, i, c.pos[i]), i, dst)

\* One cell of a copy to another stream: the shift is still pending there, too.
CopyCell(d, c, i, dst) ==
  LET placed == seq_add(pos_set(d, i, c.pos[i] - c.shift[i]), i, dst)
  IN IF c.shift[i] = 0 THEN placed ELSE pos_add(placed, i, c.shift[i])

\* seq_cp to another stream, of a full sequence: the cells are copied now, the
\* buffers with the next decode.
SeqCpStream(src, dst, r) ==
  /\ Resting /\ ~Unified
  /\ Len(copies) < MaxCopies
  /\ IF Sliding THEN r = <<0, -1>>
     ELSE ~(r[1] > 0 /\ r[1] + 1 < NCells) /\ ~(r[2] > 0 /\ r[2] + 1 < NCells)
  /\ prefix' = [prefix EXCEPT ![dst] = IF Sliding THEN prefix[src] ELSE @]
  /\ copies' = Append(copies, <<src, dst>>)
  /\ LET c == cells[src]
     IN cells' = [cells EXCEPT ![dst] = Each(Reset, {i \in Idx : seq_has(c, i, src)},
                                             LAMBDA i, d : CopyCell(d, c, i, dst))]
  /\ head' = [head EXCEPT ![dst] = head[src]]
  /\ seen' = {}
  /\ UNCHANGED <<data, todo>>

SeqCp(src, dst, r) == IF Unified THEN SeqCpShared(src, dst, r) ELSE SeqCpStream(src, dst, r)

\* Only what is in the stream of s is removed, with prefix sliding that of all streams.
SeqKeep(s) ==
  /\ Resting
  /\ cells' = [st \in Streams |-> IF st = StreamOf(s) \/ Sliding
                                 THEN Each(cells[st], Idx, LAMBDA i, e : seq_keep(e, i, s))
                                 ELSE cells[st]]
  /\ head' = [st \in Streams |-> HeadAfter(head[st], cells[st], cells'[st])]
  /\ prefix' = IF Sliding THEN [Store!NoPrefix EXCEPT ![s] = prefix[s]] ELSE prefix
  /\ seen' = {}
  /\ UNCHANGED <<data, copies, todo>>

\* seq_set_prefix, which refuses without prefix sliding.  Any end up to the cap will do,
\* whatever the window has passed.
Accepted(s, p) ==
  /\ prefix' = [prefix EXCEPT ![s] = p]
  /\ seen' = {}
  /\ UNCHANGED <<cells, head, data, copies, todo>>
SetPrefix(s, p) == Resting /\ IF Sliding THEN Accepted(s, p) ELSE UNCHANGED vars

\* The next search starts at a freed cell or at 0.
SeqAdd(s, r, shift) ==
  /\ Resting /\ ~Sliding /\ r[1] # r[2]
  /\ LET st == StreamOf(s)
         c  == cells[st]
         d  == Each(c, Having(c, r, s), LAMBDA i, e : pos_add(e, i, shift))
     IN /\ \A i \in Idx : d.pos[i] <= MaxPos
        /\ cells' = [cells EXCEPT ![st] = d]
        /\ head' = [head EXCEPT ![st] = IF Freed(c, d) # {} THEN Min(Freed(c, d)) ELSE 0]
  /\ seen' = {}
  /\ UNCHANGED <<prefix, data, copies, todo>>

SeqDiv(s, r, d) ==
  /\ Resting /\ ~Sliding /\ r[1] # r[2]
  /\ cells' = [cells EXCEPT ![StreamOf(s)] =
                 Each(@, Having(@, r, s), LAMBDA i, e : pos_div(e, i, d))]
  /\ seen' = {}
  /\ UNCHANGED <<head, prefix, data, copies, todo>>
-----------------------------------------------------------------------------
(***************************************************************************)
(* Slots.  A micro-batch maps streams to equally long sequences of tokens  *)
(* [tok, pos, seqs], a slot maps the same streams to cells for them.       *)
(***************************************************************************)
NoSlot == <<>>
is_masked_swa(p0, p1) == Store!is_masked_swa(p0, p1)

Passed(pre, p0, p1) == Sliding /\ pre <= p0 /\ p0 < p1 - PrefixWindow + 1

\* Faulty: the window is taken from a later token than the next one.
CanUseLate(c, pre, toks, i) ==
  \/ is_empty(c, i)
  \/ \E s \in Seqs : /\ c.seq[i] = {s}
                     /\ \/ is_masked_swa(c.pos[i], seq_pos_max(c, s) + 2)
                        \/ s \in toks[1].seqs /\ Passed(pre[s], c.pos[i], toks[Len(toks)].pos + 1)

\* Empty, or in one sequence whose next token does not attend to it.
CanUse(c, pre, toks, i) ==
  \/ is_empty(c, i)
  \/ \E s \in Seqs : /\ c.seq[i] = {s}
                     /\ \/ is_masked_swa(c.pos[i], seq_pos_max(c, s) + 1)
                        \/ /\ s \in toks[1].seqs
                           /\ Passed(pre[s], c.pos[i], Min({t.pos : t \in Range(toks)}))

\* Faulty: the first token of the next micro-batch has no place.
prefix_sliding_few(pre) == Min({NCells, Max({0, pre}) + PrefixWindow - 2 + NUbatch})

\* prefix_sliding_size: a prefix, a window and a micro-batch need no more than that.
prefix_sliding_size(pre) == Min({NCells, Max({0, pre}) + PrefixWindow - 1 + NUbatch})

\* The k-th smallest of the numbers in S, for each k.
Increasing(S) == [k \in 1 .. Cardinality(S) |-> CHOOSE i \in S : Cardinality({j \in S : j <= i}) = k]

\* The cells in the order in which they are tried: once round from h, or from 0 if much
\* is free before h.
CellsFrom(h, used, n, size) ==
  LET start == IF h >= size \/ h > used + 2 * n THEN 0 ELSE h
  IN [k \in 1 .. size |-> (start + k - 1) % size]

\* The first n that are usable, K are their places in the order; or adjacent cells for a
\* state that is loaded (cont), which may start at the places in K.
FirstCells(order, K, n) == IF Cardinality(K) >= n THEN [k \in 1 .. n |-> order[Increasing(K)[k]]] ELSE NoSlot
FirstRun(order, K, n)   == IF K # {} THEN [k \in 1 .. n |-> order[Min(K)] + k - 1] ELSE NoSlot

SlotIn(c, h, pre, toks, cont) ==
  LET n       == Len(toks)
      s       == Min(toks[1].seqs)
      size    == IF Sliding THEN prefix_sliding_size(pre[s]) ELSE NCells
      order   == CellsFrom(h, get_used(c), n, size)
      Free(i) == CanUse(c, pre, toks, i)
      RunAt(i) == i + n <= size /\ \A j \in i .. i + n - 1 : Free(j)
  IN CASE Sliding /\ pre[s] < 0 -> NoSlot
       [] cont  -> FirstRun(order, {k \in 1 .. size : RunAt(order[k])}, n)
       [] OTHER -> FirstCells(order, {k \in 1 .. size : Free(order[k])}, n)

\* find_slot(ubatch, cont = false)
AllFound(slot) == IF \E st \in DOMAIN slot : slot[st] = NoSlot THEN NoSlot ELSE slot
FindSlot(C, H, pre, ub) ==
  AllFound([st \in DOMAIN ub |-> SlotIn(C[st], H[st], pre, ub[st], FALSE)])

\* A token takes a cell and evicts what is in it.
Place(c, i, t) ==
  LET free == IF is_empty(c, i) THEN c ELSE rm(c, i)
  IN Each(pos_set(free, i, t.pos), t.seqs, LAMBDA s, d : seq_add(d, i, s))

\* Faulty: nothing is purged.
PurgeNot(c, s, p) == c

\* "Preserve the invariant that all positions between [pos_min, pos_max] will be
\* present": nothing of s before an evicted position stays, but for a prefix.
Purge(c, s, p) == IF p = -1 \/ Sliding \/ seq_pos_min(c, s) > p THEN c
                  ELSE WithoutSeq(c, s, <<seq_pos_min(c, s), p + 1>>)

\* apply_ubatch on the cells of one stream.
ApplyIn(c, slot, toks) ==
  LET placed[k \in 0 .. Len(slot)] ==
        IF k = 0 THEN c ELSE Place(placed[k - 1], slot[k], toks[k])
      \* A token that is placed later in this micro-batch is never evicted.
      evicted(s) == Max({-1} \union {c.pos[slot[k]] : k \in {k \in DOMAIN slot : seq_has(c, slot[k], s)}})
  IN Each(placed[Len(slot)], Seqs, LAMBDA s, d : Purge(d, s, evicted(s)))

apply_ubatch(C, slot, ub) ==
  [st \in Streams |-> IF st \in DOMAIN ub THEN ApplyIn(C[st], slot[st], ub[st]) ELSE C[st]]

\* Faulty: one cell too far.
HeadsAfterNext(H, slot) ==
  [st \in Streams |-> IF st \in DOMAIN slot THEN slot[st][Len(slot[st])] + 2 ELSE H[st]]

\* "Move the head at the end of the slot."
HeadsAfter(H, slot) ==
  [st \in Streams |-> IF st \in DOMAIN slot THEN slot[st][Len(slot[st])] + 1 ELSE H[st]]

\* prepare: place one micro-batch after the other, as long as there are slots,
\* then go back through the states and restore the cells that were placed.
PlacedIn(b, slot, ub) ==
  IF ~b.ok \/ slot = NoSlot THEN [b EXCEPT !.ok = FALSE]
  ELSE [ok    |-> TRUE,
        cells |-> apply_ubatch(b.cells, slot, ub),
        head  |-> HeadsAfter(b.head, slot),
        slots |-> Append(b.slots, slot)]

Placing(C, H, pre, ubs) ==
  LET after[k \in 0 .. Len(ubs)] ==
        IF k = 0 THEN [ok |-> TRUE, cells |-> C, head |-> H, slots |-> <<>>]
        ELSE LET b == after[k - 1]
             IN PlacedIn(b, FindSlot(b.cells, b.head, pre, ubs[k]), ubs[k])
  IN after

WentBack(after, placed) ==
  LET back[k \in 0 .. Len(placed.slots)] ==
        IF k = Len(placed.slots) THEN placed.cells
        ELSE LET slot == placed.slots[k + 1]
             IN [st \in Streams |-> IF st \in DOMAIN slot
                                    THEN set(back[k + 1][st], Range(slot[st]), after[k].cells[st])
                                    ELSE back[k + 1][st]]
  IN [ok |-> placed.ok, slots |-> placed.slots, cells |-> back[0]]

DryRun(after, n)        == WentBack(after, after[n])
prepare(C, H, pre, ubs) == DryRun(Placing(C, H, pre, ubs), Len(ubs))
-----------------------------------------------------------------------------
(***************************************************************************)
(* Batches that llama_batch_allocr::init lets pass: each sequence goes on  *)
(* where it ends.  Tokens in several sequences need sequences that are the *)
(* same so far ("it's assumed that ... they are equivalent").              *)
(***************************************************************************)
Coupled(S) == Unified /\ \A i \in Idx : cells[0].seq[i] \intersect S \in {{}, S}

New(S, n, tok) ==
  LET s == CHOOSE s \in S : TRUE
  IN [k \in 1 .. n |-> [tok |-> tok, pos |-> PosMax(s) + k, seqs |-> S]]

\* split_simple: NUbatch tokens at a time.
Chunks(toks, n) == [k \in 1 .. (Len(toks) + n - 1) \div n |->
                      SubSeq(toks, (k - 1) * n + 1, Min({k * n, Len(toks)}))]
InStream(st, chunks) == [k \in DOMAIN chunks |-> [x \in {st} |-> chunks[k]]]

\* A batch of n tokens for each sequence of S, or n tokens for all of them, in
\* micro-batches.  With streams, split_equal takes the same number from each.
UbatchesOf(S, n, tok, shared) ==
  IF Unified
  THEN InStream(0, Chunks(IF shared THEN New(S, n, tok)
                          ELSE FoldSet(LAMBDA s, q : q \o New({s}, n, tok), <<>>, S), NUbatch))
  ELSE LET per == NUbatch \div Cardinality(S)
       IN [k \in 1 .. (n + per - 1) \div per |-> [s \in S |-> Chunks(New({s}, n, tok), per)[k]]]
-----------------------------------------------------------------------------
(***************************************************************************)
(* llama_context::decode.                                                  *)
(***************************************************************************)
\* memory_update: make the pending copies, rotate the keys.
Shifting == \E st \in Streams : cells[st].has_shift
Updated  == IF Shifting THEN [st \in Streams |-> reset_shift(cells[st])] ELSE cells
Rotated  == IF ~Shifting THEN Copied
            ELSE [st \in Streams |-> [i \in Idx |->
                   [Copied[st][i] EXCEPT !.rot = @ + cells[st].shift[i]]]]

MayDecode(S, n, shared) ==
  /\ shared => Coupled(S)
  /\ \A s \in S : PosMax(s) + n <= MaxPos

\* Update the memory and find slots for the batch; without slots decode returns 1.
Begin(S, n, tok, shared) ==
  /\ Resting
  /\ MayDecode(S, n, shared)
  /\ data' = Rotated
  /\ copies' = <<>>
  /\ seen' = {}
  /\ UNCHANGED <<head, prefix>>
  /\ LET ubs == UbatchesOf(S, n, tok, shared)
     IN \E p \in {prepare(Updated, head, prefix, ubs)} :
          /\ cells' = p.cells
          /\ todo' = IF p.ok THEN [k \in DOMAIN ubs |-> [ub |-> ubs[k], slot |-> p.slots[k]]] ELSE <<>>

TokensOf(ub) == UNION {Range(ub[st]) : st \in DOMAIN ub}

\* The cells of a slot after the tokens were written to them, as values val.
Written(d, slot, ub, val) ==
  [st \in Streams |-> [i \in Idx |->
     IF st \in DOMAIN slot /\ i \in Range(slot[st])
     THEN val[ub[st][CHOOSE k \in DOMAIN slot[st] : slot[st][k] = i]] ELSE d[st][i]]]

\* set_input_kq_mask: what a token at p in s attends to, among the first n_kv cells.
NKv(C, slot) == Max({used_max_p1(C[st]) : st \in DOMAIN slot})
KqMask(C, d, n_kv, s, p) ==
  LET c == C[StreamOf(s)]
  IN {<<d[StreamOf(s)][i].tok, d[StreamOf(s)][i].rot>> :
        i \in {i \in 0 .. n_kv - 1 : /\ ~is_empty(c, i) /\ seq_has(c, i, s)
                                     /\ c.pos[i] <= p /\ ~is_masked_swa(c.pos[i], p)
                                     /\ ~Passed(prefix[s], c.pos[i], p)}}

\* The first of the sequences of a token stands for them all.
First(t) == Min(t.seqs)

Ubatch ==
  /\ todo # <<>>
  /\ LET ub == todo[1].ub  slot == todo[1].slot
     IN /\ cells' = apply_ubatch(cells, slot, ub)
        /\ head' = HeadsAfter(head, slot)
        /\ data' = Written(data, slot, ub, [t \in TokensOf(ub) |-> [tok |-> t.tok, rot |-> t.pos]])
        /\ seen' = UNION {{<<s, t.pos, KqMask(cells', data', NKv(cells', slot), First(t), t.pos)>> :
                           s \in t.seqs} : t \in TokensOf(ub)}
  /\ todo' = Tail(todo)
  /\ UNCHANGED <<prefix, copies>>

Firsts(T)       == {First(t) : t \in T}
FromFirst(T, s) == <<Min({t.pos : t \in {t \in T : First(t) = s}}), -1>>

\* Faulty: the sequences keep the tokens that were not computed.
UndoneNot(c, T) == c

\* Remove all positions of a micro-batch that failed, of the first sequences of
\* its tokens.
Undone(c, T) == Each(c, Firsts(T), LAMBDA s, d : WithoutSeq(d, s, FromFirst(T, s)))

\* The computation fails or is aborted.
UbatchFails ==
  /\ todo # <<>>
  /\ LET ub == todo[1].ub  slot == todo[1].slot
         C  == apply_ubatch(cells, slot, ub)
         H  == HeadsAfter(head, slot)
     IN /\ SharedFails \/ \A t \in TokensOf(ub) : Cardinality(t.seqs) = 1
        /\ PrefixFails \/ ~Sliding \/ \A t \in TokensOf(ub) : t.pos >= Max({1, prefix[First(t)]})
        /\ prefix' = FoldSet(LAMBDA s, pre : Lowered(pre, {s}, FromFirst(TokensOf(ub), s)),
                             prefix, Firsts(TokensOf(ub)))
        /\ cells' = [st \in Streams |-> IF st \in DOMAIN ub THEN Undone(C[st], Range(ub[st])) ELSE C[st]]
        /\ head' = [st \in Streams |-> HeadAfter(H[st], C[st], cells'[st])]
        /\ data' = Written(data, slot, ub, [t \in TokensOf(ub) |-> NoData])
  /\ todo' = <<>>
  /\ seen' = {}
  /\ UNCHANGED <<copies>>

-----------------------------------------------------------------------------
(***************************************************************************)
(* Saving and loading.  Neither makes the pending copies, or rotates the   *)
(* keys: what is saved is what the buffers hold.                           *)
(***************************************************************************)
Settled == copies = <<>> /\ ~Shifting

\* What is saved of the cells I of st: in their order, the tokens and their buffers.
Saved(st, I) == LET q == Increasing(I)
                IN [cells |-> [k \in DOMAIN q |-> [pos |-> cells[st].pos[q[k]], seqs |-> cells[st].seq[q[k]]]],
                    data  |-> [k \in DOMAIN q |-> data[st][q[k]]]]

\* llama_state_seq_set_data(dst) of what llama_state_seq_get_data(src) returned: into
\* adjacent cells, or the sequence is empty afterwards.  (An empty src is left out: dst
\* would keep what it has.)
CellsLoading(dst)     == WithoutSeq(cells[StreamOf(dst)], dst, <<0, -1>>)
SavedSeq(src)         == Saved(StreamOf(src), {i \in Idx : seq_has(cells[StreamOf(src)], i, src)})
Loaded(src, dst)      == [k \in DOMAIN SavedSeq(src).cells |->
                            [pos |-> SavedSeq(src).cells[k].pos, seqs |-> {dst}]]
HeadLoading(dst)      == HeadAfter(head[StreamOf(dst)], cells[StreamOf(dst)], CellsLoading(dst))
PrefixLoaded(src, dst) == [prefix EXCEPT ![dst] = prefix[src]]
LoadSlot(src, dst)    == SlotIn(CellsLoading(dst), HeadLoading(dst), PrefixLoaded(src, dst), Loaded(src, dst), TRUE)

NotLoaded(dst) ==
  /\ cells' = [cells EXCEPT ![StreamOf(dst)] = CellsLoading(dst)]
  /\ head' = [head EXCEPT ![StreamOf(dst)] = HeadLoading(dst)]
  /\ prefix' = [prefix EXCEPT ![dst] = -1]
  /\ UNCHANGED data

LoadAt(src, dst, slot) ==
  /\ cells' = [cells EXCEPT ![StreamOf(dst)] = ApplyIn(CellsLoading(dst), slot, Loaded(src, dst))]
  /\ head' = [head EXCEPT ![StreamOf(dst)] = slot[1]]
  /\ prefix' = PrefixLoaded(src, dst)
  /\ data' = [data EXCEPT ![StreamOf(dst)] = [i \in Idx |->
       IF i \in Range(slot) THEN SavedSeq(src).data[i - slot[1] + 1] ELSE @[i]]]

LoadSeq(src, dst) ==
  /\ Resting /\ (LoadPending \/ Settled)
  /\ Loaded(src, dst) # <<>>
  /\ \E slot \in {LoadSlot(src, dst)} : IF slot = NoSlot THEN NotLoaded(dst) ELSE LoadAt(src, dst, slot)
  /\ seen' = {}
  /\ UNCHANGED <<copies, todo>>

\* llama_state_set_data of what llama_state_get_data returned, in another process: the
\* cells of each stream are filled from the first one on.
Reload ==
  /\ Resting /\ (LoadPending \/ Settled)
  /\ LET x == [st \in Streams |-> Saved(st, cells[st].used)]
     IN /\ cells' = [st \in Streams |->
              FoldSet(LAMBDA k, c : Place(c, k - 1, x[st].cells[k]), Reset, DOMAIN x[st].cells)]
        /\ data' = [st \in Streams |-> [i \in Idx |->
              IF i + 1 \in DOMAIN x[st].data THEN x[st].data[i + 1] ELSE NoData]]
  /\ head' = [st \in Streams |-> 0]
  /\ copies' = <<>>
  /\ seen' = {}
  /\ UNCHANGED <<prefix, todo>>
-----------------------------------------------------------------------------
Ranges  == Store!Ranges
Batches == {b \in [seqs : SUBSET Seqs, n : 1 .. MaxBatch, tok : Toks, shared : BOOLEAN] :
              b.seqs # {} /\ (b.shared => Cardinality(b.seqs) > 1)}

Next ==
  \/ \E zero \in BOOLEAN : Clear(zero)
  \/ \E r \in Ranges :
       \/ SeqRmAll(r)
       \/ \E s \in Seqs :
            \/ SeqRm(s, r)
            \/ \E d \in Shifts : SeqAdd(s, r, d)
            \/ \E d \in Divs : SeqDiv(s, r, d)
            \/ \E t \in Seqs \ {s} : SeqCp(s, t, r)
  \/ \E s \in Seqs : \/ SeqKeep(s)
                     \/ \E p \in 0 .. PrefixCap : SetPrefix(s, p)
                     \/ \E t \in Seqs \ {s} : LoadSeq(s, t)
  \/ \E b \in Batches : Begin(b.seqs, b.n, b.tok, b.shared)
  \/ Ubatch \/ UbatchFails \/ Reload

Spec == Init /\ [][Next]_vars
-----------------------------------------------------------------------------
(***************************************************************************)
(* Properties.                                                             *)
(***************************************************************************)
Positions == -1 .. MaxPos
\* The type invariant.
TypeOK ==
  /\ \A st \in Streams :
       /\ cells[st].pos \in [Idx -> Positions]
       /\ cells[st].shift \in [Idx -> -MaxPos .. MaxPos]
       /\ cells[st].seq \in [Idx -> SUBSET Seqs]
       /\ cells[st].used \subseteq Idx
       /\ cells[st].has_shift \in BOOLEAN
       /\ head[st] \in 0 .. NCells
       /\ \A i \in Idx : data[st][i] \in [tok : Toks \union {"none"}, rot : 0 .. 2 * MaxPos]
  /\ prefix \in [Seqs -> -1 .. PrefixCap]
  /\ copies \in Seq(Streams \X Streams)

\* The derived members of the cells agree with the cells after every call: a
\* position that is counted once too often would make seq_pos_max, and with it
\* the position the next batch has to start at, wrong.
CountsExact == \A st \in Streams : CountsExactIn(cells[st])

\* Whatever is pending, a key ends up rotated to the position of its cell.
KeysFollow ==
  \A st \in Streams : \A i \in cells[st].used :
    Copied[st][i].rot + cells[st].shift[i] = cells[st].pos[i]

\* No cell that belongs to a sequence holds keys and values that were never
\* computed.
NoGarbage ==
  \A st \in Streams : \A i \in cells[st].used : Copied[st][i].tok # "none"

\* prepare is a dry run: a decode that begins, or that finds no slot and returns,
\* does not change the cells.
PrepareRestores ==
  Resting => \A b \in Batches :
    MayDecode(b.seqs, b.n, b.shared) =>
      prepare(Updated, head, prefix, UbatchesOf(b.seqs, b.n, b.tok, b.shared)).cells = Updated

\* With prefix sliding a micro-batch always has a place: what is neither in the prefix
\* nor in the window is overwritten, and the prefix has its share of the cells.
RoomBehindPrefix ==
  Sliding /\ Resting => \A b \in Batches :
    MayDecode(b.seqs, b.n, b.shared) /\ (\A s \in b.seqs : prefix[s] >= 0) =>
      prepare(Updated, head, prefix, UbatchesOf(b.seqs, b.n, b.tok, b.shared)).ok

\* All that the next token of s attends to is there: the whole prefix and the window.
Present(st, s) == {cells[st].pos[i] : i \in {i \in Idx : seq_has(cells[st], i, s)}}
Whole(s) == \A p \in 0 .. PosMax(s) :
  Passed(prefix[s], p, PosMax(s) + 1) \/ p \in Present(StreamOf(s), s)

\* The prefix is set to reach into what the window has passed, and may have overwritten.
RaisedLate(s) ==
  /\ PosMax(s)' = PosMax(s)
  /\ \E p \in prefix[s] .. prefix'[s] - 1 : Passed(prefix[s], p, PosMax(s) + 1)

\* What is overwritten was not needed: with their sequences started anew, taken back, copied,
\* saved or loaded, tokens attend to the whole prefix and the whole window and leave both
\* whole for the next ones.  Only a prefix that is raised late is not whole.
PrefixStays ==
  Sliding /\ (\A s \in Seqs : Whole(s)) =>
    /\ \A s \in Seqs : Whole(s)' \/ RaisedLate(s)
    /\ \A x \in seen' : {y[2] : y \in x[3]} = {p \in 0 .. x[2] : ~Passed(prefix[x[1]], p, x[2])}

\* "Preserve the invariant that all positions between [pos_min, pos_max] for each
\* sequence will be present": computing a micro-batch makes no gap.
Gapless(P)     == P = {} \/ P = Min(P) .. Max(P)
KeepsGapless ==
  \A s \in Seqs : Ubatch /\ Gapless(Present(StreamOf(s), s)) => Gapless(Present(StreamOf(s), s)')
NoGaps == [][KeepsGapless]_vars

\* The cache implements the store: what a token attends to are the tokens of its
\* sequence, once each, at the right distance, in whatever cells they are, and
\* nothing is forgotten too early.
StoreStep  == [Store!Next]_(Store!vars)
Implements == Store!Spec
=============================================================================
