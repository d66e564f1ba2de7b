------------------------------ MODULE LlamaBatch ------------------------------
(***************************************************************************)
(* llama_batch_allocr (src/llama-batch.cpp): a batch is a sequence of      *)
(* tokens [ids, pos], ids being the sequences a token belongs to, in the   *)
(* order given.  It is checked against the memory, then split into         *)
(* micro-batches, each a list of indices of the batch in n_seqs parts of   *)
(* equal length.  The rows of the output come in the order in which tokens *)
(* were computed, and are put back in the order of the batch.              *)
(***************************************************************************)
EXTENDS Integers, Sequences, FiniteSets, FiniteSetsExt, SequencesExt

SeqSet(t) == ToSet(t.ids)
Ids(b)    == UNION {SeqSet(b[i]) : i \in DOMAIN b}
PosOf(b, s) == {b[i].pos : i \in {i \in DOMAIN b : s \in SeqSet(b[i])}}

\* Positions that the caller leaves out go on from the memory (hi), for all the
\* sequences of a token at once.
AutoPos(lists, hi) ==
  LET next[i \in 0 .. Len(lists)] ==
        IF i = 0 THEN [s \in DOMAIN hi |-> hi[s] + 1]
        ELSE [s \in DOMAIN hi |-> IF s \in ToSet(lists[i]) THEN next[i - 1][lists[i][1]] + 1
                                  ELSE next[i - 1][s]]
  IN [i \in DOMAIN lists |-> [ids |-> lists[i], pos |-> next[i - 1][lists[i][1]]]]

\* s1 is coupled to s0 by a token of both.
Coupled(b) == {p \in Ids(b) \X Ids(b) : \E i \in DOMAIN b :
                 b[i].ids[1] = p[2] /\ p[1] \in ToSet(Tail(b[i].ids))}
-----------------------------------------------------------------------------
(***************************************************************************)
(* The consistency checks of init; lo and hi are the first and the last    *)
(* position of each sequence in the memory, -1 for none.                   *)
(***************************************************************************)
GoesOn(b, hi)     == \A s \in Ids(b) : hi[s] >= 0 => Min(PosOf(b, s)) = hi[s] + 1
Continuous(b)     == \A s \in Ids(b) : Max(PosOf(b, s)) - Min(PosOf(b, s)) + 1 <= Cardinality(PosOf(b, s))
Together(b, lo, hi) == \A p \in Coupled(b) : lo[p[1]] = lo[p[2]] /\ hi[p[1]] = hi[p[2]]

\* cur_seq_set: what the sequence sets of the tokens of s so far have in common.
CurSeqSet(b, s, i) ==
  {x \in Ids(b) : \A j \in 1 .. i : s \in SeqSet(b[j]) => x \in SeqSet(b[j])}
\* "disallow partial sequence sub-sets"
Compatible(b) == \A i \in DOMAIN b : \A s \in SeqSet(b[i]) : CurSeqSet(b, s, i) # {}
\* "disallow decreasing sequence positions": cur_seq_pos stays what it was set to.
CurSeqPos     == -1
Increasing(b) == \A i \in DOMAIN b : b[i].pos >= CurSeqPos

Accepts(b, lo, hi) ==
  GoesOn(b, hi) /\ Continuous(b) /\ Together(b, lo, hi) /\ Compatible(b) /\ Increasing(b)
-----------------------------------------------------------------------------
(***************************************************************************)
(* The splits: the next micro-batch of the tokens that are not yet used,   *)
(* [idxs, n_seqs], without tokens when all are used or none can be taken.  *)
(***************************************************************************)
Empty == [idxs |-> <<>>, n_seqs |-> 1]
Unused(b, used) == DOMAIN b \ used

split_simple(b, used, n_ubatch) ==
  IF Unused(b, used) = {} THEN Empty
  ELSE LET first == Min(Unused(b, used))
           last  == Min({first + n_ubatch - 1, Len(b)})
       IN [idxs |-> [k \in 1 .. last - first + 1 |-> first + k - 1], n_seqs |-> last - first + 1]

\* (split_equal) The first unused token of each of some sequence sets that do not
\* overlap, at most n_ubatch + 1 of them; with sequential, of successive ids.
Firsts(b, used, n_ubatch, sequential) ==
  LET after[i \in 0 .. Len(b)] ==
        IF i = 0 THEN <<>>
        ELSE LET q == after[i - 1]
                 joins == /\ i \notin used /\ Len(q) <= n_ubatch
                          /\ \A k \in DOMAIN q : SeqSet(b[q[k]]) \intersect SeqSet(b[i]) = {}
                          /\ sequential /\ q # <<>> => b[i].ids[1] = b[Last(q)].ids[1] + 1
             IN IF joins THEN Append(q, i) ELSE q
  IN after[Len(b)]

\* cur_seq_set.
SeqSets(b, firsts) == [k \in DOMAIN firsts |-> SeqSet(b[firsts[k]])]

\* The elements of I among 1 .. n, as they are met.
InOrder(I, n) ==
  LET after[i \in 0 .. n] ==
        IF i = 0 THEN <<>> ELSE IF i \in I THEN Append(after[i - 1], i) ELSE after[i - 1]
  IN after[n]

\* seq_set_map: the tokens of a sequence set.
SeqSetMap(b, S) == InOrder({i \in DOMAIN b : SeqSet(b[i]) = S}, Len(b))

\* Faulty: from the first one on.
RestFromStart(b, used, S) == SeqSetMap(b, S)

\* The tokens of a sequence set from the first unused one on.
RestOf(b, used, S) ==
  LET all   == SeqSetMap(b, S)
      first == Min({k \in DOMAIN all : all[k] \notin used})
  IN SubSeq(all, first, Len(all))

\* Tokens taken of each set: one at least, and as many as all have and n_ubatch allows.
Rounds(rest, n_ubatch) ==
  Min({Len(rest[k]) : k \in DOMAIN rest} \union {Max({1, n_ubatch \div Len(rest)})})

FirstOf(rest, m) ==
  [idxs |-> FlattenSeq([k \in DOMAIN rest |-> SubSeq(rest[k], 1, m)]), n_seqs |-> Len(rest)]
EqualParts(b, used, n_ubatch, sets) ==
  LET rest == [k \in DOMAIN sets |-> RestOf(b, used, sets[k])]
  IN IF sets = <<>> THEN Empty ELSE FirstOf(rest, Rounds(rest, n_ubatch))

split_equal(b, used, n_ubatch, sequential) ==
  IF sequential /\ Coupled(b) # {} THEN Empty
  ELSE EqualParts(b, used, n_ubatch, SeqSets(b, Firsts(b, used, n_ubatch, sequential)))

\* From the first unused token on, each token whose sequences are among those of
\* the one before.
split_seq(b, used, n_ubatch) ==
  LET after[i \in 0 .. Len(b)] ==
        IF i = 0 THEN <<>>
        ELSE LET q == after[i - 1]
             IN IF i \notin used /\ Len(q) < n_ubatch
                   /\ (q # <<>> => SeqSet(b[i]) \subseteq SeqSet(b[Last(q)]))
                THEN Append(q, i) ELSE q
  IN [idxs |-> after[Len(b)], n_seqs |-> 1]

\* Split(used) until nothing more comes.
Extended(q, u) == IF u.idxs = <<>> THEN q ELSE Append(q, u)

Splits(b, n_ubatch, mode) ==
  LET next(used) == CASE mode = "simple"     -> split_simple(b, used, n_ubatch)
                      [] mode = "equal"      -> split_equal(b, used, n_ubatch, FALSE)
                      [] mode = "sequential" -> split_equal(b, used, n_ubatch, TRUE)
                      [] mode = "seq"        -> split_seq(b, used, n_ubatch)
      taken(q)   == UNION {ToSet(q[k].idxs) : k \in DOMAIN q}
      after[i \in 0 .. Len(b)] ==
        IF i = 0 THEN <<>> ELSE Extended(after[i - 1], next(taken(after[i - 1])))
  IN after[Len(b)]

\* The order in which the tokens are computed.
ComputedOrder(us) == FlattenSeq([k \in DOMAIN us |-> us[k].idxs])

\* out_ids: those among them that have an output.
OutIds(o, outputs) ==
  LET at == InOrder({k \in DOMAIN o : o[k] \in outputs}, Len(o)) IN [k \in DOMAIN at |-> o[at[k]]]
-----------------------------------------------------------------------------
(***************************************************************************)
(* llama_context::decode: rows of the output are in the order out_ids.  It *)
(* is sorted by selection, and the swaps are kept for output_reorder,      *)
(* which makes them on the rows when the output is asked for.              *)
(***************************************************************************)
Swap(q, i, j) == [q EXCEPT ![i] = q[j], ![j] = q[i]]

\* Faulty: the swaps are made in the wrong order.
SwappedBack(rows, swaps) ==
  LET after[k \in 0 .. Len(swaps)] ==
        IF k = 0 THEN rows
        ELSE Swap(after[k - 1], swaps[Len(swaps) + 1 - k][1], swaps[Len(swaps) + 1 - k][2])
  IN after[Len(swaps)]

output_reorder(rows, swaps) ==
  LET after[k \in 0 .. Len(swaps)] ==
        IF k = 0 THEN rows ELSE Swap(after[k - 1], swaps[k][1], swaps[k][2])
  IN after[Len(swaps)]

OutputSwaps(out_ids) ==
  LET n == Len(out_ids)
      after[i \in 0 .. n] ==
        IF i = 0 THEN [ids |-> out_ids, swaps |-> <<>>]
        ELSE LET x == after[i - 1]
                 j == CHOOSE j \in i .. n : \A k \in i .. n : x.ids[j] <= x.ids[k]
             IN IF j = i THEN x
                ELSE [ids |-> Swap(x.ids, i, j), swaps |-> Append(x.swaps, <<i, j>>)]
  IN after[n]

\* output_ids: the row of each token that has one.
OutputIds(out_ids) ==
  [t \in ToSet(out_ids) |-> CHOOSE i \in DOMAIN out_ids : OutputSwaps(out_ids).ids[i] = t]

\* What llama_get_logits_ith returns for each token: the token a row was computed for.
LogitsOf(out_ids) ==
  [t \in ToSet(out_ids) |-> output_reorder(out_ids, OutputSwaps(out_ids).swaps)[OutputIds(out_ids)[t]]]
=============================================================================
