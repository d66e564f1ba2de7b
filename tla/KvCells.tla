------------------------------- MODULE KvCells -------------------------------
(***************************************************************************)
(* llama_kv_cells (src/llama-kv-cells.h): what the cache knows about the   *)
(* cells of one stream.  A cell is empty (pos = -1) or holds a token at a  *)
(* position that belongs to one or more sequences.  Derived from that the  *)
(* class keeps the used cells and, per sequence, how often each position   *)
(* occurs; every operation has to update them as well.                     *)
(*                                                                         *)
(* A value of the class is a record, a method maps it to the record after  *)
(* the call.  The methods assert what their callers have to respect;       *)
(* release builds do not evaluate the assertions.                          *)
(***************************************************************************)
EXTENDS Integers, FiniteSets, FiniteSetsExt, Bags

CONSTANTS
  Seqs,    \* sequence ids
  NCells   \* number of cells of a stream

ASSUME CellsAssumption == NCells \in Nat \ {0}
ASSUME SeqsAssumption  == Seqs \subseteq Nat /\ IsFiniteSet(Seqs)

Idx == 0 .. NCells - 1

\* reset()
Reset == [ pos       |-> [i \in Idx |-> -1],
           shift     |-> [i \in Idx |-> 0],    \* not yet applied to the keys
           seq       |-> [i \in Idx |-> {}],
           used      |-> {},
           seq_pos   |-> [s \in Seqs |-> EmptyBag],
           has_shift |-> FALSE ]

is_empty(c, i)       == c.pos[i] = -1
seq_has(c, i, s)     == s \in c.seq[i]
pos_in(c, i, p0, p1) == c.pos[i] >= p0 /\ (p1 < 0 \/ c.pos[i] < p1)

\* -1 if the sequence is not present.
seq_pos_min(c, s) == LET P == BagToSet(c.seq_pos[s]) IN IF P = {} THEN -1 ELSE Min(P)
seq_pos_max(c, s) == LET P == BagToSet(c.seq_pos[s]) IN IF P = {} THEN -1 ELSE Max(P)

\* Faulty: the last used cell itself is left out.
used_max(c) == IF c.used = {} THEN 0 ELSE Max(c.used)

get_used(c)    == Cardinality(c.used)
used_max_p1(c) == IF c.used = {} THEN 0 ELSE Max(c.used) + 1

seq_pos_inc(c, s, p) == [c EXCEPT !.seq_pos[s] = @ (+) SetToBag({p})]
seq_pos_dec(c, s, p) == [c EXCEPT !.seq_pos[s] = @ (-) SetToBag({p})]

seq_pos_rm(c, i) ==
  [c EXCEPT !.seq_pos = [s \in Seqs |-> IF s \in c.seq[i] THEN @[s] (-) SetToBag({c.pos[i]}) ELSE @[s]]]
seq_pos_add(c, i) ==
  [c EXCEPT !.seq_pos = [s \in Seqs |-> IF s \in c.seq[i] THEN @[s] (+) SetToBag({c.pos[i]}) ELSE @[s]]]

\* A cell that is not used any more.
Emptied(c, i) == [c EXCEPT !.pos[i] = -1, !.shift[i] = 0, !.seq[i] = {}, !.used = @ \ {i}]
-----------------------------------------------------------------------------
reset_shift(c) == [c EXCEPT !.has_shift = FALSE, !.shift = [i \in Idx |-> 0]]

rm(c, i) == Emptied(seq_pos_rm(c, i), i)

\* Faulty: an emptied cell counts as used.
seq_rm_used(c, i, s) ==
  LET d == seq_pos_dec([c EXCEPT !.seq[i] = @ \ {s}], s, c.pos[i])
  IN IF d.seq[i] = {} THEN [Emptied(d, i) EXCEPT !.used = d.used] ELSE d

seq_rm(c, i, s) ==
  LET d == seq_pos_dec([c EXCEPT !.seq[i] = @ \ {s}], s, c.pos[i])
  IN IF d.seq[i] = {} THEN Emptied(d, i) ELSE d

seq_keep(c, i, s) ==
  IF seq_has(c, i, s)
  THEN seq_pos_inc([seq_pos_rm(c, i) EXCEPT !.seq[i] = {s}], s, c.pos[i])
  ELSE IF c.seq[i] # {} THEN Emptied(seq_pos_rm(c, i), i) ELSE c

\* "Call only if the cell is not empty and the seq_id is not in the cell."
seq_add(c, i, s) == seq_pos_inc([c EXCEPT !.seq[i] = @ \union {s}], s, c.pos[i])

pos_set(c, i, p) == [c EXCEPT !.pos[i] = p, !.used = @ \union {i}]

\* Faulty: the shift is not accumulated over calls.
pos_add_once(c, i, d) ==
  LET moved == [seq_pos_rm(c, i) EXCEPT !.pos[i] = @ + d, !.shift[i] = d, !.has_shift = TRUE]
  IN IF moved.pos[i] < 0 THEN Emptied(moved, i) ELSE seq_pos_add(moved, i)

\* A position below 0 empties the cell.
pos_add(c, i, d) ==
  LET moved == [seq_pos_rm(c, i) EXCEPT !.pos[i] = @ + d, !.shift[i] = @ + d, !.has_shift = TRUE]
  IN IF moved.pos[i] < 0 THEN Emptied(moved, i) ELSE seq_pos_add(moved, i)

pos_div(c, i, d) ==
  LET q == c.pos[i] \div d
  IN seq_pos_add([seq_pos_rm(c, i) EXCEPT !.pos[i] = q, !.shift[i] = @ + (c.pos[i] - q),
                                          !.has_shift = TRUE], i)

\* Faulty: a cell that was empty stays among the used ones.
set_cell_used(c, i, old) ==
  LET gone == IF is_empty(c, i) THEN c ELSE seq_pos_rm(c, i)
      back == [gone EXCEPT !.pos[i] = old.pos[i], !.seq[i] = old.seq[i], !.used = @ \union {i}]
  IN IF is_empty(back, i) THEN back ELSE seq_pos_add(back, i)

\* One cell of set(idxs, other): take over what it was in old.
set_cell(c, i, old) ==
  LET gone == IF is_empty(c, i) THEN c ELSE seq_pos_rm(c, i)
      back == [gone EXCEPT !.pos[i] = old.pos[i], !.seq[i] = old.seq[i],
                           !.used = IF is_empty(old, i) THEN @ \ {i} ELSE @ \union {i}]
  IN IF is_empty(back, i) THEN back ELSE seq_pos_add(back, i)

\* cells.set(idxs, cells_old.cp(idxs))
set(c, idxs, old) == FoldSet(LAMBDA i, d : set_cell(d, i, old), c, idxs)
-----------------------------------------------------------------------------
\* What the derived members have to be.
Occurrences(c, s, p) == Cardinality({i \in Idx : c.pos[i] = p /\ s \in c.seq[i]})

CountsExactIn(c) ==
  /\ c.used = {i \in Idx : c.pos[i] # -1}
  /\ \A s \in Seqs :
       c.seq_pos[s] = [p \in {c.pos[i] : i \in {j \in Idx : s \in c.seq[j]}} |-> Occurrences(c, s, p)]
  /\ (\E i \in Idx : c.shift[i] # 0) => c.has_shift
=============================================================================
