--------------------------- MODULE MemoryRecurrent ---------------------------
(***************************************************************************)
(* llama_memory_recurrent (src/llama-memory-recurrent.cpp) with the batch  *)
(* allocator and llama_context::decode, and the graph that moves states    *)
(* (llm_graph_context::build_rs).  A cell holds the state of one or more   *)
(* sequences; cells[s].tail is the cell of sequence s.  A micro-batch      *)
(* needs its states in adjacent cells, so find_slot swaps cells, and the   *)
(* graph then moves the states to where the cells went.                    *)
(*                                                                         *)
(* A state is abstracted to the tokens it was computed from.               *)
(***************************************************************************)
EXTENDS LlamaBatch

CONSTANTS
  Size,       \* number of cells, and of sequences
  NUbatch,    \* tokens per micro-batch
  Shapes,     \* the batches: for each token the list of its sequence ids
  TokOf,      \* the tokens each sequence is given, as first sequence of a batch's tokens
  EmbdModes,  \* are all tokens output, so that batches are split by sequence?
  MaxPos,     \* bound on positions
  MaxText,    \* bound on the number of tokens a state is computed from
  Shifts, Divs,
  AnyRmAll,   \* does the program remove everything with seq_rm(-1)?
  AnyFailure  \* may any micro-batch fail, or only one that touches no other state?

Idx  == 0 .. Size - 1
Seqs == Idx

ASSUME SizeAssumption == Size \in Nat \ {0} /\ NUbatch \in Nat \ {0} /\ MaxPos \in Nat
\* Every token has a sequence, 0 if the caller names none.
ASSUME ShapesAssumption ==
  \A lists \in Shapes : lists \in Seq(Seq(Seqs)) /\ \A i \in DOMAIN lists : lists[i] # <<>>

VARIABLES
  cells,  \* per cell: pos, src, seqs (mem_cell), and tail, which belongs to the sequence
  head,   \* where the search starts, and where the slot is that was found
  used,   \* number of cells with sequences
  data,   \* the buffers: the state in each cell
  todo,   \* micro-batches of the current decode
  batch,  \* and the batch they were split from, with the splits
  fed     \* what the last step computed

vars == <<cells, head, used, data, todo, batch, fed>>

NoCell   == [pos |-> -1, src |-> -1, tail |-> -1, seqs |-> {}]
Garbage  == <<"garbage">>
NoBatch  == [tokens |-> <<>>, splits |-> <<>>]
Resting  == todo = <<>> /\ batch = NoBatch
is_empty(c, i) == c[i].seqs = {}
CountUsed(c)   == Cardinality({i \in Idx : ~is_empty(c, i)})

Store == INSTANCE RecurrentStore WITH
  states <- {[seqs |-> cells[i].seqs, pos |-> cells[i].pos, hist |-> data[i]] :
               i \in {i \in Idx : ~is_empty(cells, i)}}

Init ==
  /\ cells = [i \in Idx |-> NoCell]
  /\ head = 0 /\ used = 0
  /\ data = [i \in Idx |-> Garbage]
  /\ todo = <<>> /\ batch = NoBatch
  /\ fed = {}
-----------------------------------------------------------------------------
(***************************************************************************)
(* The llama_memory_* functions.                                           *)
(***************************************************************************)
Call == Resting /\ fed' = {} /\ UNCHANGED <<todo, batch>>

\* The buffers where no state is: nothing may depend on what is left there.
Settled(c, d) == [i \in Idx |-> IF is_empty(c, i) /\ c[i].src = -1 THEN Garbage ELSE d[i]]
Left == data' = Settled(cells', data)

Emptied(cell) == IF cell.seqs = {} THEN [cell EXCEPT !.pos = -1, !.src = -1] ELSE cell

\* Take s out of cell i.
Detach(c, i, s) == [c EXCEPT ![i] = Emptied([c[i] EXCEPT !.seqs = @ \ {s}])]

\* Sequence s leaves its cell.
Freed(c, s) == IF c[s].tail >= 0 THEN [Detach(c, c[s].tail, s) EXCEPT ![s].tail = -1] ELSE c

\* clear(data), whether the buffers are zeroed or not.
Clear ==
  /\ Call
  /\ cells' = [i \in Idx |-> NoCell]
  /\ head' = 0 /\ used' = 0
  /\ Left

\* seq_rm of a sequence: its state cannot be removed in part.
Refuses(c, s, r) ==
  c[s].tail >= 0 /\ LET p == c[c[s].tail].pos
                    IN (0 < r[1] /\ r[1] <= p) \/ (0 < r[2] /\ r[2] <= p)

\* Faulty: the tail stays.
seq_rm_tail(m, s, r) ==
  LET hit == {i \in Idx : s \in m.cells[i].seqs /\ Store!In(m.cells[i].pos, r)}
      c   == [i \in Idx |-> IF i \in hit THEN Emptied([m.cells[i] EXCEPT !.seqs = @ \ {s}]) ELSE m.cells[i]]
  IN IF Refuses(m.cells, s, r) THEN m ELSE [m EXCEPT !.cells = c, !.used = CountUsed(c)]

seq_rm(m, s, r) ==
  LET t   == m.cells[s].tail
      hit == {i \in Idx : s \in m.cells[i].seqs /\ Store!In(m.cells[i].pos, r)}
      c   == [i \in Idx |-> IF i \in hit THEN Emptied([m.cells[i] EXCEPT !.seqs = @ \ {s}]) ELSE m.cells[i]]
      new == {i \in hit : is_empty(c, i)}
  IN IF Refuses(m.cells, s, r) THEN m
     ELSE [cells |-> IF t >= 0 /\ Store!In(m.cells[t].pos, r) THEN [c EXCEPT ![s].tail = -1] ELSE c,
           head  |-> IF new # {} /\ Min(new) < m.head THEN Min(new) ELSE m.head,
           used  |-> m.used - Cardinality(new)]

Mem == [cells |-> cells, head |-> head, used |-> used]
Become(m) == cells' = m.cells /\ head' = m.head /\ used' = m.used

SeqRm(s, r) == Call /\ Become(seq_rm(Mem, s, r)) /\ Left

\* seq_rm(-1): every cell in the range, which has to be everything or nothing.
SeqRmAll(r) ==
  /\ Call
  /\ AnyRmAll \/ ~Store!Everything(r) \/ used = 0
  /\ LET full == {i \in Idx : Store!Everything(r) /\ cells[i].pos >= 0}
     IN /\ cells' = [i \in Idx |-> IF i \in full THEN Emptied([cells[i] EXCEPT !.seqs = {}]) ELSE cells[i]]
        /\ head' = IF full # {} /\ Min(full) < head THEN Min(full) ELSE head
        /\ used' = used - Cardinality(full)
  /\ Left

\* The copy shares the cell of src, whatever the range.
SeqCp(src, dst) ==
  /\ Call
  /\ LET old  == cells[dst].tail
         free == Freed(cells, dst)
         t    == free[src].tail
     IN /\ cells' = IF t >= 0 THEN [free EXCEPT ![t].seqs = @ \union {dst}, ![dst].tail = t] ELSE free
        /\ used' = IF old >= 0 /\ is_empty(free, old) THEN used - 1 ELSE used
  /\ Left
  /\ UNCHANGED head

SeqKeep(s) ==
  /\ Call
  /\ LET gone == {i \in Idx : s \notin cells[i].seqs}
     IN /\ cells' = [i \in Idx |->
              [IF i \in gone THEN Emptied([cells[i] EXCEPT !.seqs = {}])
               ELSE [cells[i] EXCEPT !.seqs = {s}] EXCEPT !.tail = IF i = s THEN @ ELSE -1]]
        /\ head' = IF gone # {} /\ Min(gone) < head THEN Min(gone) ELSE head
        /\ used' = used - Cardinality({i \in gone : cells[i].pos >= 0})
  /\ Left

\* seq_add and seq_div: only the position of the state changes, whatever it was computed
\* from.  The code does not look at the new position.  That it is not negative is left to the
\* program: a state below 0 counts as none in seq_rm and seq_pos_max, and as one in find_slot.
Move(s, r, to) ==
  /\ Call /\ to \in 0 .. MaxPos
  /\ LET t == cells[s].tail
     IN cells' = IF t >= 0 /\ s \in cells[t].seqs /\ Store!In(cells[t].pos, r)
                 THEN [cells EXCEPT ![t].pos = to] ELSE cells
  /\ UNCHANGED <<head, used, data>>

PosMax(s) == Max({-1} \union {cells[i].pos : i \in {i \in Idx : s \in cells[i].seqs}})
PosMin(s) == IF PosMax(s) = -1 THEN -1
             ELSE Min({cells[i].pos : i \in {i \in Idx : s \in cells[i].seqs}})
SeqAdd(s, r, shift) == PosMax(s) >= 0 /\ Move(s, r, PosMax(s) + shift)
SeqDiv(s, r, d)     == PosMax(s) >= 0 /\ Move(s, r, PosMax(s) \div d)
-----------------------------------------------------------------------------
(***************************************************************************)
(* find_slot(ubatch).  A micro-batch is a sequence of [ids, toks, pos]: a  *)
(* sequence set, its new tokens and the position of the last of them.  The *)
(* result says whether there is a slot (ok), the cells of it (min, max),   *)
(* where each state comes from (src0), the cell to be zeroed (rs_z), and   *)
(* whether the assertions of the function held (sound).                    *)
(***************************************************************************)
\* Faulty: the search does not go round.
EmptyAfter(c, h) ==
  LET free == {i \in h .. Size - 1 : is_empty(c, i)} IN IF free = {} THEN -1 ELSE Min(free)

\* The first empty cell going round from h, -1 if there is none.
EmptyFrom(c, h) ==
  LET free == {k \in Idx : is_empty(c, (h + k) % Size)}
  IN IF free = {} THEN -1 ELSE (h + Min(free)) % Size

\* Sequences that become shared leave their cells.
Unshared(c, ub) ==
  LET others == FlattenSeq([k \in DOMAIN ub |-> Tail(ub[k].ids)])
      after[k \in 0 .. Len(others)] == IF k = 0 THEN c ELSE Freed(after[k - 1], others[k])
  IN after[Len(others)]

\* A cell for each sequence set: its own, or an empty one with a copy of the state
\* that it shares.
Assign(c, h, ub) ==
  LET after[k \in 0 .. Len(ub)] ==
        IF k = 0 THEN [cells |-> c, next |-> EmptyFrom(c, h), sound |-> TRUE]
        ELSE LET a == after[k - 1]
                 s == ub[k].ids[1]
                 t == a.cells[s].tail
                 e == a.next
                 own  == t >= 0 /\ Cardinality(a.cells[t].seqs) = 1
                 part == [a.cells EXCEPT ![e].pos = a.cells[t].pos, ![e].src = a.cells[t].src,
                                         ![e].seqs = {s}, ![t].seqs = a.cells[t].seqs \ {s}, ![s].tail = e]
             IN IF ~a.sound \/ (t >= 0 /\ s \notin a.cells[t].seqs) \/ (~own /\ e = -1)
                THEN [a EXCEPT !.sound = FALSE]
                ELSE IF own THEN a
                ELSE LET d == IF t >= 0 THEN part ELSE [a.cells EXCEPT ![s].tail = e]
                     IN [a EXCEPT !.cells = d, !.next = EmptyFrom(d, (e + 1) % Size)]
  IN after[Len(ub)]

\* Swap what is in two cells, and with it the tails that point to them.
SwapCells(c, i, j) ==
  LET swapped == [c EXCEPT ![i] = [c[j] EXCEPT !.tail = c[i].tail],
                           ![j] = [c[i] EXCEPT !.tail = c[j].tail]]
      turn(t) == IF t = i THEN j ELSE IF t = j THEN i ELSE t
  IN [k \in Idx |-> [swapped[k] EXCEPT !.tail = turn(@)]]

\* The states of the micro-batch in adjacent cells from min on.
Gathered(c, min, ub) ==
  LET after[k \in 0 .. Len(ub)] ==
        IF k = 0 THEN c ELSE SwapCells(after[k - 1], min + k - 1, after[k - 1][ub[k].ids[1]].tail)
  IN after[Len(ub)]

\* The cells of the micro-batch get its positions and its sequences.
Taken(c, min, ub) ==
  LET owner(i) == IF i - min + 1 \in DOMAIN ub THEN ub[i - min + 1] ELSE [ids |-> <<>>, pos |-> -1]
      tail(s)  == {k \in DOMAIN ub : s \in ToSet(ub[k].ids)}
  IN [i \in Idx |->
       [c[i] EXCEPT !.pos  = IF owner(i).ids = <<>> THEN @ ELSE owner(i).pos,
                    !.seqs = IF owner(i).ids = <<>> THEN @ ELSE ToSet(owner(i).ids),
                    !.tail = IF tail(i) = {} THEN @ ELSE min + Max(tail(i)) - 1]]

\* "Find first cell without src refs, to use as the zero-ed state", -1 for none.
ZeroCell(c, slot) ==
  Min({Size} \union {i \in slot : \A j \in Idx : c[j].src # i})

Failed(m, sound) == [ok |-> sound, sound |-> sound, mem |-> m]

Found(c, slot, z, n) ==
  [ok    |-> Cardinality(slot) >= n,
   sound |-> z < Size \/ \A i \in slot : c[i].src >= 0,
   slot  |-> slot,
   rs_z  |-> z,
   src0  |-> [i \in slot |-> IF c[i].src < 0 THEN z ELSE c[i].src],
   mem   |-> [cells |-> [i \in Idx |-> IF i \in slot THEN [c[i] EXCEPT !.src = i] ELSE c[i]],
              head  |-> Min(slot),
              used  |-> CountUsed(c)]]
FoundIn(c, slot, n) == Found(c, slot, ZeroCell(c, slot), n)
FoundAt(c, at, ub)  ==
  FoundIn(Taken(Gathered(c, Min(at), ub), Min(at), ub), Min(at) .. Max(at), Len(ub))
FoundFor(m, a, ub)  ==
  IF a.sound THEN FoundAt(a.cells, {a.cells[ub[k].ids[1]].tail : k \in DOMAIN ub}, ub)
  ELSE Failed(m, FALSE)

find_slot(m, ub) ==
  LET h == IF m.head > m.used + 2 * Len(ub) THEN 0 ELSE m.head
  IN FoundFor(m, Assign(Unshared(m.cells, ub), h, ub), ub)

\* prepare: is there a slot for one micro-batch after the other?  The memory is
\* restored from a copy.
prepare(m, ubs) ==
  LET after[k \in 0 .. Len(ubs)] ==
        IF k = 0 THEN [ok |-> TRUE, sound |-> TRUE, mem |-> m]
        ELSE LET b == after[k - 1] IN IF b.ok /\ b.sound THEN find_slot(b.mem, ubs[k]) ELSE b
  IN after[Len(ubs)]
-----------------------------------------------------------------------------
(***************************************************************************)
(* llama_context::decode.                                                  *)
(***************************************************************************)
\* The micro-batches as find_slot sees them: the ids are those of the first token
\* of each part.
Ubatch(b, u) ==
  LET m == Len(u.idxs) \div u.n_seqs
      token(k) == TokOf[b[u.idxs[k]].ids[1]]
  IN [s \in 1 .. u.n_seqs |->
       [ids  |-> b[u.idxs[(s - 1) * m + 1]].ids,
        toks |-> [k \in 1 .. m |-> token((s - 1) * m + k)],
        first |-> b[u.idxs[(s - 1) * m + 1]].pos,
        pos   |-> b[u.idxs[s * m]].pos]]

SplitOf(b, embd_all) == Splits(b, NUbatch, IF embd_all THEN "seq" ELSE "equal")

\* Bound: no state is computed from more than MaxText tokens.
Short(b) ==
  \A s \in Seqs : cells[s].tail >= 0 =>
    Len(data[cells[s].tail]) + Cardinality({i \in DOMAIN b : s \in ToSet(b[i].ids)}) <= MaxText

Batches ==
  LET lo == [s \in Seqs |-> PosMin(s)]
      hi == [s \in Seqs |-> PosMax(s)]
  IN {b \in {AutoPos(lists, hi) : lists \in Shapes} :
        Accepts(b, lo, hi) /\ Short(b) /\ \A i \in DOMAIN b : b[i].pos <= MaxPos}

\* Without a slot decode returns 1 and nothing has changed.  An assertion that does
\* not hold ends the program: the batch stays, without micro-batches.
Begin(b, embd_all) ==
  /\ Resting
  /\ fed' = {}
  /\ \E us \in {SplitOf(b, embd_all)} :
       LET ubs == [k \in DOMAIN us |-> Ubatch(b, us[k])]
       IN \E p \in {prepare(Mem, ubs)} :
            /\ todo' = IF p.ok /\ p.sound THEN ubs ELSE <<>>
            /\ batch' = IF ~p.sound THEN [tokens |-> b, splits |-> <<>>]
                        ELSE IF p.ok THEN [tokens |-> b, splits |-> us] ELSE NoBatch
  /\ UNCHANGED <<cells, head, used, data>>

\* Faulty: the states beyond those of the micro-batch stay where they are.
StatesMovedFew(d, f, ub) ==
  LET zeroed == IF f.rs_z \in Idx THEN [d EXCEPT ![f.rs_z] = <<>>] ELSE d
  IN [i \in Idx |-> IF i \in f.slot /\ i - f.mem.head < Len(ub)
                    THEN zeroed[f.src0[i]] \o ub[i - f.mem.head + 1].toks ELSE zeroed[i]]

\* build_rs: zero one state, read the states of the micro-batch, move the others of
\* the slot, write the new states.
StatesMoved(d, f, ub) ==
  LET zeroed == IF f.rs_z \in Idx THEN [d EXCEPT ![f.rs_z] = <<>>] ELSE d
  IN [i \in Idx |->
       IF i \notin f.slot THEN zeroed[i]
       ELSE IF i - f.mem.head < Len(ub) THEN zeroed[f.src0[i]] \o ub[i - f.mem.head + 1].toks
       ELSE zeroed[f.src0[i]]]

Compute ==
  /\ todo # <<>>
  /\ \E ub \in {todo[1]}, f \in {find_slot(Mem, todo[1])} :
        /\ Become(f.mem)
        /\ data' = Settled(f.mem.cells, StatesMoved(data, f, ub))
        /\ fed' = {[ids |-> ub[k].ids, toks |-> ub[k].toks] : k \in DOMAIN ub}
  /\ todo' = Tail(todo)
  /\ batch' = IF Len(todo) = 1 THEN NoBatch ELSE batch

\* A failure that is made good by removing the tokens: the sequences are new, and
\* the slot has no cell but theirs.
Harmless(f, ub) ==
  /\ Cardinality(f.slot) = Len(ub)
  /\ \A k \in DOMAIN ub : /\ Len(ub[k].ids) = 1 /\ cells[ub[k].ids[1]].tail = -1
                          /\ ub[k].first = 0
  /\ \A i \in f.slot : is_empty(cells, i)

\* The graph is not computed, or only in part.  "remove all positions of that
\* ubatch from the memory module": the result of seq_rm is not looked at.
Removed(m, ub) ==
  LET after[k \in 0 .. Len(ub)] ==
        IF k = 0 THEN m ELSE seq_rm(after[k - 1], ub[k].ids[1], <<ub[k].first, -1>>)
  IN after[Len(ub)]

ComputeFails ==
  /\ todo # <<>>
  /\ \E ub \in {todo[1]}, f \in {find_slot(Mem, todo[1])} :
        /\ AnyFailure \/ Harmless(f, ub)
        /\ \E m \in {Removed(f.mem, ub)},
              d \in {data, [i \in Idx |-> IF i \in f.slot THEN Garbage ELSE data[i]]} :
             Become(m) /\ data' = Settled(m.cells, d)
  /\ todo' = <<>>
  /\ fed' = {}
  /\ batch' = NoBatch
-----------------------------------------------------------------------------
(***************************************************************************)
(* Saving and loading.                                                     *)
(***************************************************************************)
\* llama_state_seq_set_data(dst) of what llama_state_seq_get_data(src) returned.
LoadSeq(src, dst) ==
  /\ Call /\ cells[src].tail >= 0
  /\ LET from == cells[src].tail
         one  == [ids |-> <<dst>>, toks |-> <<>>, first |-> -1, pos |-> cells[from].pos]
     IN \E f \in {find_slot(seq_rm(Mem, dst, <<0, -1>>), <<one>>)} :
          /\ Become(f.mem)
          /\ data' = Settled(f.mem.cells, [data EXCEPT ![f.mem.head] = data[from]])

\* llama_state_set_data of what llama_state_get_data returned, in another process:
\* the cells are filled from the first one on.
Reload ==
  /\ Call
  /\ LET q == InOrder({i \in 1 .. Size : ~is_empty(cells, i - 1)}, Size)
         saved(i) == q[i + 1] - 1
         tail(s)  == {i \in 0 .. Len(q) - 1 : s \in cells[saved(i)].seqs}
     IN /\ cells' = [i \in Idx |->
              [pos  |-> IF i < Len(q) THEN cells[saved(i)].pos ELSE -1,
               seqs |-> IF i < Len(q) THEN cells[saved(i)].seqs ELSE {},
               src  |-> IF i < Len(q) THEN i ELSE -1,
               tail |-> IF tail(i) = {} THEN -1 ELSE Min(tail(i))]]
        /\ data' = [i \in Idx |-> IF i < Len(q) THEN data[saved(i)] ELSE Garbage]
        /\ head' = 0
        /\ used' = Len(q)

Ranges == Store!Ranges

Next ==
  \/ Clear
  \/ \E r \in Ranges :
       \/ SeqRmAll(r)
       \/ \E s \in Seqs :
            \/ SeqRm(s, r)
            \/ \E d \in Shifts : SeqAdd(s, r, d)
            \/ \E d \in Divs : SeqDiv(s, r, d)
  \/ \E s \in Seqs : \/ SeqKeep(s)
                     \/ \E t \in Seqs \ {s} : SeqCp(s, t) \/ LoadSeq(s, t)
  \/ \E b \in Batches, embd_all \in EmbdModes : Begin(b, embd_all)
  \/ Compute \/ ComputeFails \/ Reload

Spec == Init /\ [][Next]_vars
-----------------------------------------------------------------------------
(***************************************************************************)
(* Properties.                                                             *)
(***************************************************************************)
\* The type invariant; head, used and the tails are what find_slot's debug code
\* ("wrong tail for seq_id", "duplicate tail for seq_id") takes them for.
TypeOK ==
  /\ head \in Idx
  /\ used = CountUsed(cells)
  /\ \A i \in Idx :
       /\ cells[i].pos \in -1 .. MaxPos
       /\ cells[i].src \in {-1, i}
       /\ cells[i].seqs \subseteq Seqs
       /\ cells[i].tail = -1 \/ i \in cells[cells[i].tail].seqs
       /\ \A s \in cells[i].seqs : cells[s].tail = i

\* The assertions of find_slot hold for every batch that comes, and a batch that
\* prepare has accepted never fails to find its cells when its turn comes: apply does
\* not look at the result.
SlotsSound ==
  ~Resting => /\ todo # <<>>
              /\ \E f \in {find_slot(Mem, todo[1])} : f.ok /\ f.sound

\* However a batch is split, no token is lost, repeated, or computed before an earlier
\* one of its sequences, and each part of a micro-batch has the tokens of one sequence
\* set only, for find_slot looks at the first of them.
Whole(b, us) ==
  LET o == ComputedOrder(us)
  IN /\ Len(o) = Len(b) /\ ToSet(o) = DOMAIN b
     /\ \A i, j \in DOMAIN o : i < j /\ SeqSet(b[o[i]]) \intersect SeqSet(b[o[j]]) # {} => o[i] < o[j]
     /\ \A k \in DOMAIN us :
          LET m == Len(us[k].idxs) \div us[k].n_seqs
          IN /\ m * us[k].n_seqs = Len(us[k].idxs)
             /\ \A x \in DOMAIN us[k].idxs :
                  SeqSet(b[us[k].idxs[x]]) = SeqSet(b[us[k].idxs[((x - 1) \div m) * m + 1]])
SplitsWhole ==
  todo # <<>> =>
    \A mode \in {"simple", "equal", "seq"} \union (IF Coupled(batch.tokens) = {} THEN {"sequential"} ELSE {}) :
      Whole(batch.tokens, Splits(batch.tokens, NUbatch, mode))

\* The output of each token that has one is found where the caller looks for it,
\* whichever tokens of the batch have outputs.
OutputsInPlace ==
  LET o == ComputedOrder(batch.splits)
  IN \A out \in SUBSET ToSet(o) :
       \A t \in out : LogitsOf(OutIds(o, out))[t] = t

\* The state of a sequence is the result of its tokens, of all of them and of no
\* others, whatever cells were shared, swapped and moved on the way.
Implements == Store!Spec

\* "the ubatches that managed to be been processed will remain in the memory state":
\* what a caller finds in the memory after a failed decode was computed.
OnlyProcessed == \A i \in Idx : ~is_empty(cells, i) => data[i] # Garbage
=============================================================================
