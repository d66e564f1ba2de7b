---------------------------- MODULE KvCacheProofs ----------------------------
(***************************************************************************)
(* What the cache keeps whatever the number of cells, streams, sequences   *)
(* and tokens: the methods of llama_kv_cells keep the derived members of   *)
(* the cells exact, each method under what it asserts, and every call of   *)
(* the cache keeps to that; what is in a cell was computed for it, with    *)
(* its key where the cell says; and a dry run leaves the cells alone.      *)
(***************************************************************************)
EXTENDS KvCache, FiniteSetTheorems, Recursion, SequenceTheorems

(***************************************************************************)
(* How often a position occurs in a sequence.                              *)
(***************************************************************************)
At(pos, seq, s, p) == {i \in Idx : pos[i] = p /\ s \in seq[i]}
Seen(pos, seq, s)  == {pos[i] : i \in {j \in Idx : s \in seq[j]}}
Hist(pos, seq, s)  == [p \in Seen(pos, seq, s) |-> Cardinality(At(pos, seq, s, p))]

\* Bags of positions.
Counts == UNION {[P -> Nat \ {0}] : P \in SUBSET Int}
Members == {"pos", "shift", "seq", "used", "seq_pos", "has_shift"}
Shape(c) == c = [m \in Members |-> c[m]]
CellsType(c) ==
  /\ Shape(c)
  /\ c.pos \in [Idx -> Int] /\ c.shift \in [Idx -> Int] /\ c.seq \in [Idx -> SUBSET Seqs]
  /\ c.used \in SUBSET Idx /\ c.seq_pos \in [Seqs -> Counts] /\ c.has_shift \in BOOLEAN

\* The derived members are exact; a cell with a sequence has a position, and only used
\* cells are shifted.
Exact(c) ==
  /\ CellsType(c)
  /\ CountsExactIn(c)
  /\ \A i \in Idx : /\ c.pos[i] >= -1
                    /\ c.pos[i] = -1 => c.seq[i] = {} /\ c.shift[i] = 0
\* d is c but for the cell i, which holds p, q and the shift sh now.
Cell(c, d, i, p, q, sh) ==
  /\ d.pos = [c.pos EXCEPT ![i] = p]
  /\ d.seq = [c.seq EXCEPT ![i] = q]
  /\ d.shift = [c.shift EXCEPT ![i] = sh]

-----------------------------------------------------------------------------
\* There are finitely many cells.
LEMMA IdxFinite == IsFiniteSet(Idx) /\ Idx \subseteq Int
BY FS_Interval, CellsAssumption DEF Idx

\* A position is seen in a sequence when some cell has it.
LEMMA AtFacts ==
  ASSUME NEW pos, NEW seq, NEW s, NEW p
  PROVE  /\ IsFiniteSet(At(pos, seq, s, p))
         /\ Cardinality(At(pos, seq, s, p)) \in Nat
         /\ p \in Seen(pos, seq, s) <=> At(pos, seq, s, p) # {}
         /\ p \in Seen(pos, seq, s) <=> Cardinality(At(pos, seq, s, p)) > 0
<1>1. IsFiniteSet(At(pos, seq, s, p))
  BY IdxFinite, FS_Subset DEF At
<1>2. p \in Seen(pos, seq, s) <=> At(pos, seq, s, p) # {}
  BY DEF At, Seen
<1> HIDE DEF At, Seen
<1>3. Cardinality(At(pos, seq, s, p)) \in Nat
  BY <1>1, FS_CardinalityType
<1>4. At(pos, seq, s, p) = {} <=> Cardinality(At(pos, seq, s, p)) = 0
  BY <1>1, FS_EmptySet
<1> QED BY <1>1, <1>2, <1>3, <1>4

\* A cell that changes, but not for s.
LEMMA HistSame ==
  ASSUME NEW pos, NEW seq, NEW pos2, NEW seq2, NEW s, NEW i \in Idx,
         \A j \in Idx \ {i} : pos2[j] = pos[j] /\ seq2[j] = seq[j],
         s \notin seq[i], s \notin seq2[i]
  PROVE  Hist(pos2, seq2, s) = Hist(pos, seq, s)
<1>1. \A p : At(pos2, seq2, s, p) = At(pos, seq, s, p)
  BY DEF At
<1>2. \A p : p \in Seen(pos2, seq2, s) <=> p \in Seen(pos, seq, s)
  <2> TAKE p
  <2> QED BY <1>1, AtFacts
<1>3. Seen(pos2, seq2, s) = Seen(pos, seq, s)
  BY <1>2
<1> QED BY <1>1, <1>3 DEF Hist

\* The token of s in the cell i is gone.
LEMMA HistRm ==
  ASSUME NEW pos, NEW seq, NEW pos2, NEW seq2, NEW s, NEW i \in Idx,
         \A j \in Idx \ {i} : pos2[j] = pos[j] /\ seq2[j] = seq[j],
         s \in seq[i], s \notin seq2[i]
  PROVE  Hist(pos2, seq2, s) = Hist(pos, seq, s) (-) SetToBag({pos[i]})
<1> DEFINE H == Hist(pos, seq, s)
           H2 == Hist(pos2, seq2, s)
           N(p)  == Cardinality(At(pos, seq, s, p))
           N2(p) == Cardinality(At(pos2, seq2, s, p))
<1>1. \A p : p # pos[i] => At(pos2, seq2, s, p) = At(pos, seq, s, p)
  BY DEF At
<1>2. At(pos2, seq2, s, pos[i]) = At(pos, seq, s, pos[i]) \ {i} /\ i \in At(pos, seq, s, pos[i])
  BY DEF At
<1>3. N2(pos[i]) = N(pos[i]) - 1
  BY <1>2, AtFacts, FS_RemoveElement, ZenonT(60)
<1>4. \A p : N(p) \in Nat /\ N2(p) \in Nat /\ (p \in Seen(pos, seq, s) <=> N(p) > 0) /\ (p \in Seen(pos2, seq2, s) <=> N2(p) > 0)
  BY AtFacts
<1>5. \A p : p # pos[i] => N2(p) = N(p)
  BY <1>1
<1>6. H = [p \in Seen(pos, seq, s) |-> N(p)] /\ H2 = [p \in Seen(pos2, seq2, s) |-> N2(p)]
  BY DEF Hist
<1> HIDE DEF N, N2, H, H2
<1>7. DOMAIN SetToBag({pos[i]}) = {pos[i]} /\ SetToBag({pos[i]})[pos[i]] = 1
  BY DEF SetToBag
<1>8. H (-) SetToBag({pos[i]}) = [p \in {q \in Seen(pos, seq, s) : N2(q) > 0} |-> N2(p)]
  <2> DEFINE B == [e \in Seen(pos, seq, s) |-> IF e \in {pos[i]} THEN H[e] - SetToBag({pos[i]})[e] ELSE H[e]]
  <2>1. \A e \in Seen(pos, seq, s) : B[e] = N2(e)
    BY <1>3, <1>5, <1>6, <1>7
  <2>2. H (-) SetToBag({pos[i]}) = [e \in {d \in DOMAIN B : B[d] > 0} |-> B[e]]
    BY <1>6, <1>7 DEF (-)
  <2>3. DOMAIN B = Seen(pos, seq, s)
    OBVIOUS
  <2> HIDE DEF B
  <2> QED BY <2>1, <2>2, <2>3
<1>9. {q \in Seen(pos, seq, s) : N2(q) > 0} = Seen(pos2, seq2, s)
  BY <1>3, <1>4, <1>5
<1>10. H2 = H (-) SetToBag({pos[i]})
  BY <1>6, <1>8, <1>9
<1> QED BY <1>10 DEF H, H2

\* The cell i gets a token of s.
LEMMA HistAdd ==
  ASSUME NEW pos, NEW seq, NEW pos2, NEW seq2, NEW s, NEW i \in Idx,
         \A j \in Idx \ {i} : pos2[j] = pos[j] /\ seq2[j] = seq[j],
         s \notin seq[i], s \in seq2[i]
  PROVE  Hist(pos2, seq2, s) = Hist(pos, seq, s) (+) SetToBag({pos2[i]})
<1> DEFINE H == Hist(pos, seq, s)
           H2 == Hist(pos2, seq2, s)
           N(p)  == Cardinality(At(pos, seq, s, p))
           N2(p) == Cardinality(At(pos2, seq2, s, p))
<1>1. \A p : p # pos2[i] => At(pos2, seq2, s, p) = At(pos, seq, s, p)
  BY DEF At
<1>2. At(pos2, seq2, s, pos2[i]) = At(pos, seq, s, pos2[i]) \cup {i} /\ i \notin At(pos, seq, s, pos2[i])
  BY DEF At
<1>3. N2(pos2[i]) = N(pos2[i]) + 1
  BY <1>2, AtFacts, FS_AddElement
<1>4. \A p : N(p) \in Nat /\ N2(p) \in Nat /\ (p \in Seen(pos, seq, s) <=> N(p) > 0) /\ (p \in Seen(pos2, seq2, s) <=> N2(p) > 0)
  BY AtFacts
<1>5. \A p : p # pos2[i] => N2(p) = N(p)
  BY <1>1
<1>6. H = [p \in Seen(pos, seq, s) |-> N(p)] /\ H2 = [p \in Seen(pos2, seq2, s) |-> N2(p)]
  BY DEF Hist
<1> HIDE DEF N, N2, H, H2
<1>7. DOMAIN SetToBag({pos2[i]}) = {pos2[i]} /\ SetToBag({pos2[i]})[pos2[i]] = 1
  BY DEF SetToBag
<1>8. DOMAIN H = Seen(pos, seq, s) /\ \A p \in Seen(pos, seq, s) : H[p] = N(p)
  BY <1>6
<1>9. Seen(pos, seq, s) \cup {pos2[i]} = Seen(pos2, seq2, s)
  BY <1>3, <1>4, <1>5
<1>10. H (+) SetToBag({pos2[i]}) = [p \in Seen(pos2, seq2, s) |->
          (IF p \in Seen(pos, seq, s) THEN H[p] ELSE 0) + (IF p \in {pos2[i]} THEN SetToBag({pos2[i]})[p] ELSE 0)]
  BY <1>7, <1>8, <1>9 DEF (+)
<1>11. \A p \in Seen(pos2, seq2, s) :
          (IF p \in Seen(pos, seq, s) THEN H[p] ELSE 0) + (IF p \in {pos2[i]} THEN SetToBag({pos2[i]})[p] ELSE 0) = N2(p)
  <2> TAKE p \in Seen(pos2, seq2, s)
  <2>1. CASE p = pos2[i]
    <3>1. (IF p \in Seen(pos, seq, s) THEN H[p] ELSE 0) = N(p)
      BY <1>4, <1>8
    <3> QED BY <1>3, <1>4, <1>7, <2>1, <3>1
  <2>2. CASE p # pos2[i]
    BY <1>4, <1>5, <1>8, <1>9, <2>2
  <2> QED BY <2>1, <2>2
<1>12. H2 = H (+) SetToBag({pos2[i]})
  BY <1>6, <1>10, <1>11
<1> QED BY <1>12 DEF H, H2

\* CountsExactIn in terms of the histogram of a sequence.
LEMMA ExactIs ==
  ASSUME NEW c
  PROVE  CountsExactIn(c) <=> /\ c.used = {i \in Idx : c.pos[i] # -1}
                              /\ \A s \in Seqs : c.seq_pos[s] = Hist(c.pos, c.seq, s)
                              /\ (\E i \in Idx : c.shift[i] # 0) => c.has_shift
<1>1. \A s : Hist(c.pos, c.seq, s) =
              [p \in {c.pos[i] : i \in {j \in Idx : s \in c.seq[j]}} |-> Occurrences(c, s, p)]
  BY DEF Hist, Seen, At, Occurrences
<1> QED BY <1>1 DEF CountsExactIn

\* A histogram is a bag of positions.
LEMMA HistCounts ==
  ASSUME NEW pos \in [Idx -> Int], NEW seq, NEW s
  PROVE  Hist(pos, seq, s) \in Counts
<1>1. Seen(pos, seq, s) \in SUBSET Int
  BY DEF Seen
<1>2. \A p \in Seen(pos, seq, s) : Cardinality(At(pos, seq, s, p)) \in Nat \ {0}
  BY AtFacts
<1>3. Hist(pos, seq, s) \in [Seen(pos, seq, s) -> Nat \ {0}]
  BY <1>2 DEF Hist
<1> HIDE DEF Seen
<1> QED BY <1>1, <1>3 DEF Counts

\* How the count of a sequence changes with a cell that had a token of s, or gets one.
Recount(P, had, p0, has, p) ==
  LET gone == IF had THEN P (-) SetToBag({p0}) ELSE P
  IN IF has THEN gone (+) SetToBag({p}) ELSE gone

\* A cell that had a token of s or gets one: what seq_pos_dec and seq_pos_inc do.
LEMMA HistMoved ==
  ASSUME NEW pos, NEW seq, NEW i \in Idx, NEW pos2, NEW seq2, NEW s,
         DOMAIN seq = Idx, \A j \in Idx \ {i} : pos2[j] = pos[j] /\ seq2[j] = seq[j]
  PROVE  Hist(pos2, seq2, s) = Recount(Hist(pos, seq, s), s \in seq[i], pos[i], s \in seq2[i], pos2[i])
<1> DEFINE seq1 == [seq EXCEPT ![i] = {}]
<1>1. s \notin seq1[i] /\ \A j \in Idx \ {i} : seq1[j] = seq[j]
  OBVIOUS
<1> HIDE DEF seq1
<1>2. Hist(pos, seq1, s) = IF s \in seq[i] THEN Hist(pos, seq, s) (-) SetToBag({pos[i]}) ELSE Hist(pos, seq, s)
  BY <1>1, HistSame, HistRm
<1>3. Hist(pos2, seq2, s) = IF s \in seq2[i] THEN Hist(pos, seq1, s) (+) SetToBag({pos2[i]}) ELSE Hist(pos, seq1, s)
  <2>1. \A j \in Idx \ {i} : pos2[j] = pos[j] /\ seq2[j] = seq1[j]
    BY <1>1
  <2> QED BY <1>1, <2>1, HistSame, HistAdd
<1> QED BY <1>2, <1>3 DEF Recount

\* The derived members of d follow the change of the cell i.
Follows(c, d, i) ==
  /\ \E p \in Int, q \in SUBSET Seqs, sh \in Int : Cell(c, d, i, p, q, sh)
  /\ d.pos[i] >= -1 /\ (d.pos[i] = -1 => d.seq[i] = {} /\ d.shift[i] = 0)
  /\ d.used = IF d.pos[i] = -1 THEN c.used \ {i} ELSE c.used \cup {i}
  /\ d.has_shift \in BOOLEAN /\ (c.has_shift \/ d.shift[i] # 0 => d.has_shift)
  /\ d.seq_pos = [s \in Seqs |-> d.seq_pos[s]]
  /\ \A s \in Seqs : \/ d.seq_pos[s] = Recount(c.seq_pos[s], s \in c.seq[i], c.pos[i], s \in d.seq[i], d.pos[i])
                     \/ /\ d.seq_pos[s] = c.seq_pos[s] /\ (s \in d.seq[i] <=> s \in c.seq[i])
                        /\ s \in d.seq[i] => d.pos[i] = c.pos[i]

\* One cell changes: the derived members are exact again if they follow it.
LEMMA CellChanged ==
  ASSUME NEW c, Exact(c), NEW i \in Idx, NEW d, Shape(d), Follows(c, d, i)
  PROVE  Exact(d)
<1> DEFINE p == d.pos[i]
           q == d.seq[i]
           sh == d.shift[i]
<1>1. /\ c.pos \in [Idx -> Int] /\ c.shift \in [Idx -> Int] /\ c.seq \in [Idx -> SUBSET Seqs]
      /\ c.used \in SUBSET Idx /\ c.has_shift \in BOOLEAN
  BY DEF Exact, CellsType
<1>2. /\ c.used = {j \in Idx : c.pos[j] # -1}
      /\ \A s \in Seqs : c.seq_pos[s] = Hist(c.pos, c.seq, s)
      /\ (\E j \in Idx : c.shift[j] # 0) => c.has_shift
      /\ \A j \in Idx : c.pos[j] >= -1 /\ (c.pos[j] = -1 => c.seq[j] = {} /\ c.shift[j] = 0)
  BY ExactIs DEF Exact
<1>3. /\ d.pos \in [Idx -> Int] /\ d.shift \in [Idx -> Int] /\ d.seq \in [Idx -> SUBSET Seqs]
      /\ p \in Int /\ q \in SUBSET Seqs /\ sh \in Int
      /\ \A j \in Idx \ {i} : d.pos[j] = c.pos[j] /\ d.seq[j] = c.seq[j] /\ d.shift[j] = c.shift[j]
  BY <1>1 DEF Follows, Cell
<1>0. /\ d.pos[i] >= -1 /\ (d.pos[i] = -1 => d.seq[i] = {} /\ d.shift[i] = 0)
      /\ d.used = IF d.pos[i] = -1 THEN c.used \ {i} ELSE c.used \cup {i}
      /\ d.has_shift \in BOOLEAN /\ (c.has_shift \/ d.shift[i] # 0 => d.has_shift)
      /\ d.seq_pos = [s \in Seqs |-> d.seq_pos[s]]
      /\ \A s \in Seqs : \/ d.seq_pos[s] = Recount(c.seq_pos[s], s \in c.seq[i], c.pos[i], s \in q, p)
                         \/ d.seq_pos[s] = c.seq_pos[s] /\ (s \in q <=> s \in c.seq[i]) /\ (s \in q => p = c.pos[i])
  BY DEF Follows
<1>4. \A s : Hist(d.pos, d.seq, s) = Recount(Hist(c.pos, c.seq, s), s \in c.seq[i], c.pos[i], s \in q, p)
  BY <1>1, <1>3, HistMoved
<1>5. ASSUME NEW s \in Seqs PROVE d.seq_pos[s] = Hist(d.pos, d.seq, s)
  <2>1. CASE d.seq_pos[s] = Recount(c.seq_pos[s], s \in c.seq[i], c.pos[i], s \in q, p)
    BY <1>2, <1>4, <2>1
  <2>2. CASE d.seq_pos[s] = c.seq_pos[s] /\ (s \in q <=> s \in c.seq[i]) /\ (s \in q => p = c.pos[i])
    <3>1. \A r : At(d.pos, d.seq, s, r) = At(c.pos, c.seq, s, r)
      BY <1>3, <2>2 DEF At
    <3>2. \A r : r \in Seen(d.pos, d.seq, s) <=> r \in Seen(c.pos, c.seq, s)
      <4> TAKE r
      <4> QED BY <3>1, AtFacts
    <3>3. Seen(d.pos, d.seq, s) = Seen(c.pos, c.seq, s)
      BY <3>2
    <3>4. Hist(d.pos, d.seq, s) = Hist(c.pos, c.seq, s)
      BY <3>1, <3>3 DEF Hist
    <3> QED BY <1>2, <2>2, <3>4
  <2> QED BY <1>0, <2>1, <2>2
<1>6. d.used = {j \in Idx : d.pos[j] # -1}
  BY <1>0, <1>1, <1>2, <1>3
<1>7. (\E j \in Idx : d.shift[j] # 0) => d.has_shift
  BY <1>0, <1>1, <1>2, <1>3
<1>8. \A s \in Seqs : d.seq_pos[s] \in Counts
  BY <1>3, <1>5, HistCounts
<1>9. d.seq_pos \in [Seqs -> Counts]
  BY <1>0, <1>8
<1>10. CellsType(d)
  BY <1>0, <1>3, <1>6, <1>9 DEF CellsType
<1>11. \A j \in Idx : d.pos[j] >= -1 /\ (d.pos[j] = -1 => d.seq[j] = {} /\ d.shift[j] = 0)
  BY <1>0, <1>2, <1>3
<1> QED BY <1>5, <1>6, <1>7, <1>10, <1>11, ExactIs DEF Exact
-----------------------------------------------------------------------------
(***************************************************************************)
(* The methods.                                                            *)
(***************************************************************************)
LEMMA UsedFacts ==
  ASSUME NEW c, Exact(c), NEW i \in Idx
  PROVE  /\ c.pos[i] \in Int /\ c.pos[i] >= -1 /\ c.seq[i] \in SUBSET Seqs /\ c.shift[i] \in Int
         /\ i \in c.used <=> c.pos[i] # -1
         /\ c.pos[i] = -1 => c.seq[i] = {} /\ c.shift[i] = 0
         /\ c.shift[i] # 0 => c.has_shift
BY ExactIs DEF Exact, CellsType

\* After reset() nothing is used and nothing is counted.
LEMMA ResetExact == Exact(Reset)
<1>1. \A s : Hist(Reset.pos, Reset.seq, s) = EmptyBag
  <2> TAKE s
  <2>1. Seen(Reset.pos, Reset.seq, s) = {}
    BY DEF Reset, Seen
  <2> QED BY <2>1 DEF Hist, EmptyBag, SetToBag
<1>2. EmptyBag \in Counts
  <2>1. Reset.pos \in [Idx -> Int]
    BY DEF Reset
  <2> QED BY <1>1, <2>1, HistCounts
<1>3. Reset.seq_pos = [s \in Seqs |-> EmptyBag]
  BY DEF Reset
<1>4. CellsType(Reset)
  <2>1. Shape(Reset)
    BY DEF Reset, Shape, Members
  <2>2. Reset.pos \in [Idx -> Int] /\ Reset.shift \in [Idx -> Int] /\ Reset.seq \in [Idx -> SUBSET Seqs]
    BY DEF Reset
  <2>3. Reset.used \in SUBSET Idx /\ Reset.seq_pos \in [Seqs -> Counts] /\ Reset.has_shift \in BOOLEAN
    BY <1>2 DEF Reset
  <2> QED BY <2>1, <2>2, <2>3 DEF CellsType
<1>5. Reset.used = {i \in Idx : Reset.pos[i] # -1} /\ ~(\E i \in Idx : Reset.shift[i] # 0)
  BY DEF Reset
<1>6. \A i \in Idx : Reset.pos[i] = -1 /\ Reset.seq[i] = {} /\ Reset.shift[i] = 0
  BY DEF Reset
<1>7. \A s \in Seqs : Reset.seq_pos[s] = Hist(Reset.pos, Reset.seq, s)
  BY <1>1, <1>3
<1> QED BY <1>4, <1>5, <1>6, <1>7, ExactIs DEF Exact

\* reset_shift() touches shifts only.
LEMMA ResetShiftExact ==
  ASSUME NEW c, Exact(c)
  PROVE  /\ Exact(reset_shift(c))
         /\ reset_shift(c).pos = c.pos /\ reset_shift(c).seq = c.seq
         /\ ~reset_shift(c).has_shift /\ reset_shift(c).shift = [i \in Idx |-> 0]
<1>0. CellsType(c)
  BY DEF Exact
<1> DEFINE d == reset_shift(c)
<1>1. /\ d.pos = c.pos /\ d.seq = c.seq /\ d.used = c.used /\ d.seq_pos = c.seq_pos
      /\ d.has_shift = FALSE /\ d.shift = [i \in Idx |-> 0]
      /\ Shape(d)
  BY <1>0 DEF reset_shift, CellsType, Shape, Members
<1> HIDE DEF d
<1>2. CellsType(d)
  <2>1. d.shift \in [Idx -> Int]
    BY <1>1
  <2> QED BY <1>0, <1>1, <2>1 DEF CellsType
<1>3. Exact(d)
  BY <1>1, <1>2, ExactIs DEF Exact
<1> QED BY <1>1, <1>3 DEF d

\* A cell is emptied.
LEMMA RmExact ==
  ASSUME NEW c, Exact(c), NEW i \in Idx
  PROVE  /\ Exact(rm(c, i))
         /\ Cell(c, rm(c, i), i, -1, {}, 0)
         /\ rm(c, i).has_shift = c.has_shift
<1> DEFINE d == rm(c, i)
<1>0. CellsType(c) /\ c.pos[i] \in Int /\ c.pos[i] >= -1 /\ c.seq[i] \in SUBSET Seqs /\ c.shift[i] \in Int
      /\ (i \in c.used <=> c.pos[i] # -1) /\ (c.pos[i] = -1 => c.seq[i] = {} /\ c.shift[i] = 0)
      /\ c.used \in SUBSET Idx /\ c.has_shift \in BOOLEAN /\ (c.shift[i] # 0 => c.has_shift)
  BY UsedFacts DEF Exact, CellsType
<1>1. /\ Shape(d) /\ Cell(c, d, i, -1, {}, 0)
      /\ d.used = c.used \ {i} /\ d.has_shift = c.has_shift
      /\ d.seq_pos = [s_ \in Seqs |-> IF s_ \in c.seq[i] THEN c.seq_pos[s_] (-) SetToBag({c.pos[i]}) ELSE c.seq_pos[s_]]
  BY <1>0 DEF rm, Emptied, seq_pos_rm, CellsType, Shape, Members, Cell
<1> HIDE DEF d
<1>2. d.pos[i] = -1 /\ d.seq[i] = {} /\ d.shift[i] = 0
  BY <1>0, <1>1 DEF CellsType, Cell
<1>3. Follows(c, d, i)
  <2>1. \E p_ \in Int, q_ \in SUBSET Seqs, sh_ \in Int : Cell(c, d, i, p_, q_, sh_)
    BY <1>0, <1>1
  <2>2. /\ d.pos[i] >= -1 /\ (d.pos[i] = -1 => d.seq[i] = {} /\ d.shift[i] = 0)
        /\ d.used = IF d.pos[i] = -1 THEN c.used \ {i} ELSE c.used \cup {i}
        /\ d.has_shift \in BOOLEAN /\ (c.has_shift \/ d.shift[i] # 0 => d.has_shift)
    BY <1>0, <1>1, <1>2
  <2>3. d.seq_pos = [s_ \in Seqs |-> d.seq_pos[s_]]
    BY <1>0, <1>1 DEF CellsType
  <2>4. \A s_ \in Seqs : \/ d.seq_pos[s_] = Recount(c.seq_pos[s_], s_ \in c.seq[i], c.pos[i], s_ \in d.seq[i], d.pos[i])
                        \/ /\ d.seq_pos[s_] = c.seq_pos[s_] /\ (s_ \in d.seq[i] <=> s_ \in c.seq[i])
                           /\ s_ \in d.seq[i] => d.pos[i] = c.pos[i]
    BY <1>0, <1>1, <1>2 DEF Recount, CellsType
  <2> QED BY <2>1, <2>2, <2>3, <2>4 DEF Follows
<1>4. Exact(d)
  BY <1>1, <1>3, CellChanged
<1> QED BY <1>1, <1>4 DEF d

\* A sequence that keeps the cell has others beside it.
LEMMA SeqRmSome ==
  ASSUME NEW c, Exact(c), NEW i \in Idx, NEW s \in c.seq[i], c.seq[i] # {s}
  PROVE  /\ Exact(seq_rm(c, i, s))
         /\ Cell(c, seq_rm(c, i, s), i, c.pos[i], c.seq[i] \ {s}, c.shift[i])
         /\ seq_rm(c, i, s).has_shift = c.has_shift
<1> DEFINE d == seq_rm(c, i, s)
<1>0. CellsType(c) /\ c.pos[i] \in Int /\ c.pos[i] >= -1 /\ c.seq[i] \in SUBSET Seqs /\ c.shift[i] \in Int
      /\ (i \in c.used <=> c.pos[i] # -1) /\ (c.pos[i] = -1 => c.seq[i] = {} /\ c.shift[i] = 0)
      /\ c.used \in SUBSET Idx /\ c.has_shift \in BOOLEAN /\ (c.shift[i] # 0 => c.has_shift)
  BY UsedFacts DEF Exact, CellsType
<1>1. /\ Shape(d) /\ Cell(c, d, i, c.pos[i], c.seq[i] \ {s}, c.shift[i])
      /\ d.used = c.used /\ d.has_shift = c.has_shift
      /\ d.seq_pos = [c.seq_pos EXCEPT ![s] = @ (-) SetToBag({c.pos[i]})]
  BY <1>0 DEF seq_rm, Emptied, seq_pos_dec, CellsType, Shape, Members, Cell
<1> HIDE DEF d
<1>2. d.pos[i] = c.pos[i] /\ d.seq[i] = c.seq[i] \ {s} /\ d.shift[i] = c.shift[i]
  BY <1>0, <1>1 DEF CellsType, Cell
<1>3. Follows(c, d, i)
  <2>1. \E p_ \in Int, q_ \in SUBSET Seqs, sh_ \in Int : Cell(c, d, i, p_, q_, sh_)
    BY <1>0, <1>1
  <2>2. /\ d.pos[i] >= -1 /\ (d.pos[i] = -1 => d.seq[i] = {} /\ d.shift[i] = 0)
        /\ d.used = IF d.pos[i] = -1 THEN c.used \ {i} ELSE c.used \cup {i}
        /\ d.has_shift \in BOOLEAN /\ (c.has_shift \/ d.shift[i] # 0 => d.has_shift)
    BY <1>0, <1>1, <1>2
  <2>3. d.seq_pos = [s_ \in Seqs |-> d.seq_pos[s_]]
    BY <1>0, <1>1 DEF CellsType
  <2>4. \A s_ \in Seqs : \/ d.seq_pos[s_] = Recount(c.seq_pos[s_], s_ \in c.seq[i], c.pos[i], s_ \in d.seq[i], d.pos[i])
                        \/ /\ d.seq_pos[s_] = c.seq_pos[s_] /\ (s_ \in d.seq[i] <=> s_ \in c.seq[i])
                           /\ s_ \in d.seq[i] => d.pos[i] = c.pos[i]
    BY <1>0, <1>1, <1>2 DEF Recount, CellsType
  <2> QED BY <2>1, <2>2, <2>3, <2>4 DEF Follows
<1>4. Exact(d)
  BY <1>1, <1>3, CellChanged
<1> QED BY <1>1, <1>4 DEF d

\* The last sequence leaves the cell.
LEMMA SeqRmLast ==
  ASSUME NEW c, Exact(c), NEW i \in Idx, NEW s \in c.seq[i], c.seq[i] = {s}
  PROVE  /\ Exact(seq_rm(c, i, s))
         /\ Cell(c, seq_rm(c, i, s), i, -1, {}, 0)
         /\ seq_rm(c, i, s).has_shift = c.has_shift
<1> DEFINE d == seq_rm(c, i, s)
<1>0. CellsType(c) /\ c.pos[i] \in Int /\ c.pos[i] >= -1 /\ c.seq[i] \in SUBSET Seqs /\ c.shift[i] \in Int
      /\ (i \in c.used <=> c.pos[i] # -1) /\ (c.pos[i] = -1 => c.seq[i] = {} /\ c.shift[i] = 0)
      /\ c.used \in SUBSET Idx /\ c.has_shift \in BOOLEAN /\ (c.shift[i] # 0 => c.has_shift)
  BY UsedFacts DEF Exact, CellsType
<1>1. /\ Shape(d) /\ Cell(c, d, i, -1, {}, 0)
      /\ d.used = c.used \ {i} /\ d.has_shift = c.has_shift
      /\ d.seq_pos = [c.seq_pos EXCEPT ![s] = @ (-) SetToBag({c.pos[i]})]
  BY <1>0 DEF seq_rm, Emptied, seq_pos_dec, CellsType, Shape, Members, Cell
<1> HIDE DEF d
<1>2. d.pos[i] = -1 /\ d.seq[i] = {} /\ d.shift[i] = 0
  BY <1>0, <1>1 DEF CellsType, Cell
<1>3. Follows(c, d, i)
  <2>1. \E p_ \in Int, q_ \in SUBSET Seqs, sh_ \in Int : Cell(c, d, i, p_, q_, sh_)
    BY <1>0, <1>1
  <2>2. /\ d.pos[i] >= -1 /\ (d.pos[i] = -1 => d.seq[i] = {} /\ d.shift[i] = 0)
        /\ d.used = IF d.pos[i] = -1 THEN c.used \ {i} ELSE c.used \cup {i}
        /\ d.has_shift \in BOOLEAN /\ (c.has_shift \/ d.shift[i] # 0 => d.has_shift)
    BY <1>0, <1>1, <1>2
  <2>3. d.seq_pos = [s_ \in Seqs |-> d.seq_pos[s_]]
    BY <1>0, <1>1 DEF CellsType
  <2>4. \A s_ \in Seqs : \/ d.seq_pos[s_] = Recount(c.seq_pos[s_], s_ \in c.seq[i], c.pos[i], s_ \in d.seq[i], d.pos[i])
                        \/ /\ d.seq_pos[s_] = c.seq_pos[s_] /\ (s_ \in d.seq[i] <=> s_ \in c.seq[i])
                           /\ s_ \in d.seq[i] => d.pos[i] = c.pos[i]
    BY <1>0, <1>1, <1>2 DEF Recount, CellsType
  <2> QED BY <2>1, <2>2, <2>3, <2>4 DEF Follows
<1>4. Exact(d)
  BY <1>1, <1>3, CellChanged
<1> QED BY <1>1, <1>4 DEF d

\* A sequence is added to a cell that is used.
LEMMA SeqAddExact ==
  ASSUME NEW c, Exact(c), NEW i \in Idx, NEW s \in Seqs, c.pos[i] # -1, s \notin c.seq[i]
  PROVE  /\ Exact(seq_add(c, i, s))
         /\ Cell(c, seq_add(c, i, s), i, c.pos[i], c.seq[i] \cup {s}, c.shift[i])
         /\ seq_add(c, i, s).has_shift = c.has_shift
<1> DEFINE d == seq_add(c, i, s)
<1>0. CellsType(c) /\ c.pos[i] \in Int /\ c.pos[i] >= -1 /\ c.seq[i] \in SUBSET Seqs /\ c.shift[i] \in Int
      /\ (i \in c.used <=> c.pos[i] # -1) /\ (c.pos[i] = -1 => c.seq[i] = {} /\ c.shift[i] = 0)
      /\ c.used \in SUBSET Idx /\ c.has_shift \in BOOLEAN /\ (c.shift[i] # 0 => c.has_shift)
  BY UsedFacts DEF Exact, CellsType
<1>1. /\ Shape(d) /\ Cell(c, d, i, c.pos[i], c.seq[i] \cup {s}, c.shift[i])
      /\ d.used = c.used /\ d.has_shift = c.has_shift
      /\ d.seq_pos = [c.seq_pos EXCEPT ![s] = @ (+) SetToBag({c.pos[i]})]
  BY <1>0 DEF seq_add, seq_pos_inc, CellsType, Shape, Members, Cell
<1> HIDE DEF d
<1>2. d.pos[i] = c.pos[i] /\ d.seq[i] = c.seq[i] \cup {s} /\ d.shift[i] = c.shift[i]
  BY <1>0, <1>1 DEF CellsType, Cell
<1>3. Follows(c, d, i)
  <2>1. \E p_ \in Int, q_ \in SUBSET Seqs, sh_ \in Int : Cell(c, d, i, p_, q_, sh_)
    BY <1>0, <1>1
  <2>2. /\ d.pos[i] >= -1 /\ (d.pos[i] = -1 => d.seq[i] = {} /\ d.shift[i] = 0)
        /\ d.used = IF d.pos[i] = -1 THEN c.used \ {i} ELSE c.used \cup {i}
        /\ d.has_shift \in BOOLEAN /\ (c.has_shift \/ d.shift[i] # 0 => d.has_shift)
    BY <1>0, <1>1, <1>2
  <2>3. d.seq_pos = [s_ \in Seqs |-> d.seq_pos[s_]]
    BY <1>0, <1>1 DEF CellsType
  <2>4. \A s_ \in Seqs : \/ d.seq_pos[s_] = Recount(c.seq_pos[s_], s_ \in c.seq[i], c.pos[i], s_ \in d.seq[i], d.pos[i])
                        \/ /\ d.seq_pos[s_] = c.seq_pos[s_] /\ (s_ \in d.seq[i] <=> s_ \in c.seq[i])
                           /\ s_ \in d.seq[i] => d.pos[i] = c.pos[i]
    BY <1>0, <1>1, <1>2 DEF Recount, CellsType
  <2> QED BY <2>1, <2>2, <2>3, <2>4 DEF Follows
<1>4. Exact(d)
  BY <1>1, <1>3, CellChanged
<1> QED BY <1>1, <1>4 DEF d

\* A position is set in an empty cell.
LEMMA PosSetExact ==
  ASSUME NEW c, Exact(c), NEW i \in Idx, NEW p \in Nat, c.pos[i] = -1
  PROVE  /\ Exact(pos_set(c, i, p))
         /\ Cell(c, pos_set(c, i, p), i, p, {}, 0)
         /\ pos_set(c, i, p).has_shift = c.has_shift
<1> DEFINE d == pos_set(c, i, p)
<1>0. CellsType(c) /\ c.pos[i] \in Int /\ c.pos[i] >= -1 /\ c.seq[i] \in SUBSET Seqs /\ c.shift[i] \in Int
      /\ (i \in c.used <=> c.pos[i] # -1) /\ (c.pos[i] = -1 => c.seq[i] = {} /\ c.shift[i] = 0)
      /\ c.used \in SUBSET Idx /\ c.has_shift \in BOOLEAN /\ (c.shift[i] # 0 => c.has_shift)
  BY UsedFacts DEF Exact, CellsType
<1>1. /\ Shape(d) /\ Cell(c, d, i, p, {}, 0)
      /\ d.used = c.used \cup {i} /\ d.has_shift = c.has_shift
      /\ d.seq_pos = c.seq_pos
  BY <1>0 DEF pos_set, CellsType, Shape, Members, Cell
<1> HIDE DEF d
<1>2. d.pos[i] = p /\ d.seq[i] = {} /\ d.shift[i] = 0
  BY <1>0, <1>1 DEF CellsType, Cell
<1>3. Follows(c, d, i)
  <2>1. \E p_ \in Int, q_ \in SUBSET Seqs, sh_ \in Int : Cell(c, d, i, p_, q_, sh_)
    BY <1>0, <1>1
  <2>2. /\ d.pos[i] >= -1 /\ (d.pos[i] = -1 => d.seq[i] = {} /\ d.shift[i] = 0)
        /\ d.used = IF d.pos[i] = -1 THEN c.used \ {i} ELSE c.used \cup {i}
        /\ d.has_shift \in BOOLEAN /\ (c.has_shift \/ d.shift[i] # 0 => d.has_shift)
    BY <1>0, <1>1, <1>2
  <2>3. d.seq_pos = [s_ \in Seqs |-> d.seq_pos[s_]]
    BY <1>0, <1>1 DEF CellsType
  <2>4. \A s_ \in Seqs : \/ d.seq_pos[s_] = Recount(c.seq_pos[s_], s_ \in c.seq[i], c.pos[i], s_ \in d.seq[i], d.pos[i])
                        \/ /\ d.seq_pos[s_] = c.seq_pos[s_] /\ (s_ \in d.seq[i] <=> s_ \in c.seq[i])
                           /\ s_ \in d.seq[i] => d.pos[i] = c.pos[i]
    BY <1>0, <1>1, <1>2 DEF Recount, CellsType
  <2> QED BY <2>1, <2>2, <2>3, <2>4 DEF Follows
<1>4. Exact(d)
  BY <1>1, <1>3, CellChanged
<1> QED BY <1>1, <1>4 DEF d

\* A cell that has s keeps s alone.
LEMMA SeqKeepHas ==
  ASSUME NEW c, Exact(c), NEW i \in Idx, NEW s \in c.seq[i]
  PROVE  /\ Exact(seq_keep(c, i, s))
         /\ Cell(c, seq_keep(c, i, s), i, c.pos[i], {s}, c.shift[i])
         /\ seq_keep(c, i, s).has_shift = c.has_shift
<1> DEFINE d == seq_keep(c, i, s)
<1>0. CellsType(c) /\ c.pos[i] \in Int /\ c.pos[i] >= -1 /\ c.seq[i] \in SUBSET Seqs /\ c.shift[i] \in Int
      /\ (i \in c.used <=> c.pos[i] # -1) /\ (c.pos[i] = -1 => c.seq[i] = {} /\ c.shift[i] = 0)
      /\ c.used \in SUBSET Idx /\ c.has_shift \in BOOLEAN /\ (c.shift[i] # 0 => c.has_shift)
  BY UsedFacts DEF Exact, CellsType
<1>1. /\ Shape(d) /\ Cell(c, d, i, c.pos[i], {s}, c.shift[i])
      /\ d.used = c.used /\ d.has_shift = c.has_shift
      /\ d.seq_pos = [s_ \in Seqs |-> Recount(c.seq_pos[s_], s_ \in c.seq[i], c.pos[i], s_ = s, c.pos[i])]
  BY <1>0 DEF seq_keep, seq_has, seq_pos_inc, seq_pos_rm, Recount, CellsType, Shape, Members, Cell
<1> HIDE DEF d
<1>2. d.pos[i] = c.pos[i] /\ d.seq[i] = {s} /\ d.shift[i] = c.shift[i]
  BY <1>0, <1>1 DEF CellsType, Cell
<1>3. Follows(c, d, i)
  <2>1. \E p_ \in Int, q_ \in SUBSET Seqs, sh_ \in Int : Cell(c, d, i, p_, q_, sh_)
    BY <1>0, <1>1
  <2>2. /\ d.pos[i] >= -1 /\ (d.pos[i] = -1 => d.seq[i] = {} /\ d.shift[i] = 0)
        /\ d.used = IF d.pos[i] = -1 THEN c.used \ {i} ELSE c.used \cup {i}
        /\ d.has_shift \in BOOLEAN /\ (c.has_shift \/ d.shift[i] # 0 => d.has_shift)
    BY <1>0, <1>1, <1>2
  <2>3. d.seq_pos = [s_ \in Seqs |-> d.seq_pos[s_]]
    BY <1>0, <1>1 DEF CellsType
  <2>4. \A s_ \in Seqs : \/ d.seq_pos[s_] = Recount(c.seq_pos[s_], s_ \in c.seq[i], c.pos[i], s_ \in d.seq[i], d.pos[i])
                        \/ /\ d.seq_pos[s_] = c.seq_pos[s_] /\ (s_ \in d.seq[i] <=> s_ \in c.seq[i])
                           /\ s_ \in d.seq[i] => d.pos[i] = c.pos[i]
    BY <1>0, <1>1, <1>2 DEF Recount, CellsType
  <2> QED BY <2>1, <2>2, <2>3, <2>4 DEF Follows
<1>4. Exact(d)
  BY <1>1, <1>3, CellChanged
<1> QED BY <1>1, <1>4 DEF d

\* A cell that is used, but not by s, is emptied.
LEMMA SeqKeepOther ==
  ASSUME NEW c, Exact(c), NEW i \in Idx, NEW s \in Seqs, s \notin c.seq[i], c.seq[i] # {}
  PROVE  /\ Exact(seq_keep(c, i, s))
         /\ Cell(c, seq_keep(c, i, s), i, -1, {}, 0)
         /\ seq_keep(c, i, s).has_shift = c.has_shift
<1> DEFINE d == seq_keep(c, i, s)
<1>0. CellsType(c) /\ c.pos[i] \in Int /\ c.pos[i] >= -1 /\ c.seq[i] \in SUBSET Seqs /\ c.shift[i] \in Int
      /\ (i \in c.used <=> c.pos[i] # -1) /\ (c.pos[i] = -1 => c.seq[i] = {} /\ c.shift[i] = 0)
      /\ c.used \in SUBSET Idx /\ c.has_shift \in BOOLEAN /\ (c.shift[i] # 0 => c.has_shift)
  BY UsedFacts DEF Exact, CellsType
<1>1. /\ Shape(d) /\ Cell(c, d, i, -1, {}, 0)
      /\ d.used = c.used \ {i} /\ d.has_shift = c.has_shift
      /\ d.seq_pos = [s_ \in Seqs |-> IF s_ \in c.seq[i] THEN c.seq_pos[s_] (-) SetToBag({c.pos[i]}) ELSE c.seq_pos[s_]]
  BY <1>0 DEF seq_keep, seq_has, Emptied, seq_pos_rm, CellsType, Shape, Members, Cell
<1> HIDE DEF d
<1>2. d.pos[i] = -1 /\ d.seq[i] = {} /\ d.shift[i] = 0
  BY <1>0, <1>1 DEF CellsType, Cell
<1>3. Follows(c, d, i)
  <2>1. \E p_ \in Int, q_ \in SUBSET Seqs, sh_ \in Int : Cell(c, d, i, p_, q_, sh_)
    BY <1>0, <1>1
  <2>2. /\ d.pos[i] >= -1 /\ (d.pos[i] = -1 => d.seq[i] = {} /\ d.shift[i] = 0)
        /\ d.used = IF d.pos[i] = -1 THEN c.used \ {i} ELSE c.used \cup {i}
        /\ d.has_shift \in BOOLEAN /\ (c.has_shift \/ d.shift[i] # 0 => d.has_shift)
    BY <1>0, <1>1, <1>2
  <2>3. d.seq_pos = [s_ \in Seqs |-> d.seq_pos[s_]]
    BY <1>0, <1>1 DEF CellsType
  <2>4. \A s_ \in Seqs : \/ d.seq_pos[s_] = Recount(c.seq_pos[s_], s_ \in c.seq[i], c.pos[i], s_ \in d.seq[i], d.pos[i])
                        \/ /\ d.seq_pos[s_] = c.seq_pos[s_] /\ (s_ \in d.seq[i] <=> s_ \in c.seq[i])
                           /\ s_ \in d.seq[i] => d.pos[i] = c.pos[i]
    BY <1>0, <1>1, <1>2 DEF Recount, CellsType
  <2> QED BY <2>1, <2>2, <2>3, <2>4 DEF Follows
<1>4. Exact(d)
  BY <1>1, <1>3, CellChanged
<1> QED BY <1>1, <1>4 DEF d

\* A position is shifted below 0.
LEMMA PosAddBelow ==
  ASSUME NEW c, Exact(c), NEW i \in Idx, NEW m \in Int, c.pos[i] # -1, c.pos[i] + m < 0
  PROVE  /\ Exact(pos_add(c, i, m))
         /\ Cell(c, pos_add(c, i, m), i, -1, {}, 0)
         /\ pos_add(c, i, m).has_shift = TRUE
<1> DEFINE d == pos_add(c, i, m)
<1>0. CellsType(c) /\ c.pos[i] \in Int /\ c.pos[i] >= -1 /\ c.seq[i] \in SUBSET Seqs /\ c.shift[i] \in Int
      /\ (i \in c.used <=> c.pos[i] # -1) /\ (c.pos[i] = -1 => c.seq[i] = {} /\ c.shift[i] = 0)
      /\ c.used \in SUBSET Idx /\ c.has_shift \in BOOLEAN /\ (c.shift[i] # 0 => c.has_shift)
  BY UsedFacts DEF Exact, CellsType
<1>1. /\ Shape(d) /\ Cell(c, d, i, -1, {}, 0)
      /\ d.used = c.used \ {i} /\ d.has_shift = TRUE
      /\ d.seq_pos = [s_ \in Seqs |-> IF s_ \in c.seq[i] THEN c.seq_pos[s_] (-) SetToBag({c.pos[i]}) ELSE c.seq_pos[s_]]
  <2> DEFINE moved == [seq_pos_rm(c, i) EXCEPT !.pos[i] = @ + m, !.shift[i] = @ + m, !.has_shift = TRUE]
  <2>1. /\ Shape(moved)
        /\ moved.pos = [c.pos EXCEPT ![i] = c.pos[i] + m] /\ moved.seq = c.seq
        /\ moved.shift = [c.shift EXCEPT ![i] = c.shift[i] + m] /\ moved.used = c.used
        /\ moved.has_shift = TRUE
        /\ moved.seq_pos = [s_ \in Seqs |-> IF s_ \in c.seq[i] THEN c.seq_pos[s_] (-) SetToBag({c.pos[i]}) ELSE c.seq_pos[s_]]
    BY <1>0 DEF seq_pos_rm, CellsType, Shape, Members
  <2>2. moved.pos[i] = c.pos[i] + m
    BY <1>0, <2>1 DEF CellsType
  <2>3. d = IF moved.pos[i] < 0 THEN Emptied(moved, i) ELSE seq_pos_add(moved, i)
    BY DEF pos_add
  <2> HIDE DEF moved, d
  <2>4. d = Emptied(moved, i)
    BY <2>2, <2>3
  <2>5. Shape(d) /\ d.used = c.used \ {i} /\ d.has_shift = TRUE /\ d.seq_pos = moved.seq_pos
    BY <2>1, <2>4 DEF Emptied, Shape, Members
  <2>6. d.pos = [moved.pos EXCEPT ![i] = -1] /\ d.seq = [moved.seq EXCEPT ![i] = {}] /\ d.shift = [moved.shift EXCEPT ![i] = 0]
    BY <2>1, <2>4 DEF Emptied, Shape, Members
  <2>7. Cell(c, d, i, -1, {}, 0)
    BY <1>0, <2>1, <2>6 DEF Cell, CellsType
  <2> QED BY <2>1, <2>5, <2>7
<1> HIDE DEF d
<1>2. d.pos[i] = -1 /\ d.seq[i] = {} /\ d.shift[i] = 0
  BY <1>0, <1>1 DEF CellsType, Cell
<1>3. Follows(c, d, i)
  <2>1. \E p_ \in Int, q_ \in SUBSET Seqs, sh_ \in Int : Cell(c, d, i, p_, q_, sh_)
    BY <1>0, <1>1
  <2>2. /\ d.pos[i] >= -1 /\ (d.pos[i] = -1 => d.seq[i] = {} /\ d.shift[i] = 0)
        /\ d.used = IF d.pos[i] = -1 THEN c.used \ {i} ELSE c.used \cup {i}
    BY <1>0, <1>1, <1>2
  <2>5. d.has_shift \in BOOLEAN /\ (c.has_shift \/ d.shift[i] # 0 => d.has_shift)
    BY <1>1, Zenon
  <2>3. d.seq_pos = [s_ \in Seqs |-> d.seq_pos[s_]]
    BY <1>0, <1>1 DEF CellsType
  <2>4. \A s_ \in Seqs : \/ d.seq_pos[s_] = Recount(c.seq_pos[s_], s_ \in c.seq[i], c.pos[i], s_ \in d.seq[i], d.pos[i])
                        \/ /\ d.seq_pos[s_] = c.seq_pos[s_] /\ (s_ \in d.seq[i] <=> s_ \in c.seq[i])
                           /\ s_ \in d.seq[i] => d.pos[i] = c.pos[i]
    BY <1>0, <1>1, <1>2 DEF Recount, CellsType
  <2> QED BY <2>1, <2>2, <2>3, <2>4, <2>5 DEF Follows
<1>4. Exact(d)
  BY <1>1, <1>3, CellChanged
<1> QED BY <1>1, <1>4 DEF d

\* A position is shifted.
LEMMA PosAddExact ==
  ASSUME NEW c, Exact(c), NEW i \in Idx, NEW m \in Int, c.pos[i] # -1, c.pos[i] + m >= 0
  PROVE  /\ Exact(pos_add(c, i, m))
         /\ Cell(c, pos_add(c, i, m), i, c.pos[i] + m, c.seq[i], c.shift[i] + m)
         /\ pos_add(c, i, m).has_shift = TRUE
<1> DEFINE d == pos_add(c, i, m)
<1>0. CellsType(c) /\ c.pos[i] \in Int /\ c.pos[i] >= -1 /\ c.seq[i] \in SUBSET Seqs /\ c.shift[i] \in Int
      /\ (i \in c.used <=> c.pos[i] # -1) /\ (c.pos[i] = -1 => c.seq[i] = {} /\ c.shift[i] = 0)
      /\ c.used \in SUBSET Idx /\ c.has_shift \in BOOLEAN /\ (c.shift[i] # 0 => c.has_shift)
  BY UsedFacts DEF Exact, CellsType
<1>1. /\ Shape(d) /\ Cell(c, d, i, c.pos[i] + m, c.seq[i], c.shift[i] + m)
      /\ d.used = c.used /\ d.has_shift = TRUE
      /\ d.seq_pos = [s_ \in Seqs |-> Recount(c.seq_pos[s_], s_ \in c.seq[i], c.pos[i], s_ \in c.seq[i], c.pos[i] + m)]
  <2> DEFINE moved == [seq_pos_rm(c, i) EXCEPT !.pos[i] = @ + m, !.shift[i] = @ + m, !.has_shift = TRUE]
  <2>1. /\ Shape(moved)
        /\ moved.pos = [c.pos EXCEPT ![i] = c.pos[i] + m] /\ moved.seq = c.seq
        /\ moved.shift = [c.shift EXCEPT ![i] = c.shift[i] + m] /\ moved.used = c.used
        /\ moved.has_shift = TRUE
        /\ moved.seq_pos = [s_ \in Seqs |-> IF s_ \in c.seq[i] THEN c.seq_pos[s_] (-) SetToBag({c.pos[i]}) ELSE c.seq_pos[s_]]
    BY <1>0 DEF seq_pos_rm, CellsType, Shape, Members
  <2>2. moved.pos[i] = c.pos[i] + m
    BY <1>0, <2>1 DEF CellsType
  <2>3. d = IF moved.pos[i] < 0 THEN Emptied(moved, i) ELSE seq_pos_add(moved, i)
    BY DEF pos_add
  <2> HIDE DEF moved, d
  <2>4. d = seq_pos_add(moved, i)
    BY <1>0, <2>2, <2>3
  <2>5. /\ Shape(d) /\ d.pos = moved.pos /\ d.seq = moved.seq /\ d.shift = moved.shift /\ d.used = c.used /\ d.has_shift = TRUE
        /\ d.seq_pos = [s_ \in Seqs |-> IF s_ \in moved.seq[i] THEN moved.seq_pos[s_] (+) SetToBag({moved.pos[i]}) ELSE moved.seq_pos[s_]]
    BY <2>1, <2>4 DEF seq_pos_add, Shape, Members
  <2>6. Cell(c, d, i, c.pos[i] + m, c.seq[i], c.shift[i] + m)
    BY <1>0, <2>1, <2>5 DEF Cell, CellsType
  <2>7. d.seq_pos = [s_ \in Seqs |-> Recount(c.seq_pos[s_], s_ \in c.seq[i], c.pos[i], s_ \in c.seq[i], c.pos[i] + m)]
    BY <2>1, <2>2, <2>5 DEF Recount
  <2> QED BY <2>5, <2>6, <2>7
<1> HIDE DEF d
<1>2. d.pos[i] = c.pos[i] + m /\ d.seq[i] = c.seq[i] /\ d.shift[i] = c.shift[i] + m
  BY <1>0, <1>1 DEF CellsType, Cell
<1>3. Follows(c, d, i)
  <2>1. \E p_ \in Int, q_ \in SUBSET Seqs, sh_ \in Int : Cell(c, d, i, p_, q_, sh_)
    BY <1>0, <1>1
  <2>2. /\ d.pos[i] >= -1 /\ (d.pos[i] = -1 => d.seq[i] = {} /\ d.shift[i] = 0)
        /\ d.used = IF d.pos[i] = -1 THEN c.used \ {i} ELSE c.used \cup {i}
    <3>1. d.pos[i] \in Nat
      BY <1>0, <1>2
    <3>2. c.used \cup {i} = c.used
      BY <1>0
    <3>3. d.used = c.used /\ d.pos[i] >= -1 /\ d.pos[i] # -1
      BY <1>1, <3>1
    <3> QED BY <3>2, <3>3
  <2>5. d.has_shift \in BOOLEAN /\ (c.has_shift \/ d.shift[i] # 0 => d.has_shift)
    BY <1>1, Zenon
  <2>3. d.seq_pos = [s_ \in Seqs |-> d.seq_pos[s_]]
    BY <1>0, <1>1 DEF CellsType
  <2>4. \A s_ \in Seqs : \/ d.seq_pos[s_] = Recount(c.seq_pos[s_], s_ \in c.seq[i], c.pos[i], s_ \in d.seq[i], d.pos[i])
                        \/ /\ d.seq_pos[s_] = c.seq_pos[s_] /\ (s_ \in d.seq[i] <=> s_ \in c.seq[i])
                           /\ s_ \in d.seq[i] => d.pos[i] = c.pos[i]
    BY <1>0, <1>1, <1>2 DEF Recount, CellsType
  <2> QED BY <2>1, <2>2, <2>3, <2>4, <2>5 DEF Follows
<1>4. Exact(d)
  BY <1>1, <1>3, CellChanged
<1> QED BY <1>1, <1>4 DEF d

\* A position is divided.
LEMMA PosDivExact ==
  ASSUME NEW c, Exact(c), NEW i \in Idx, NEW m \in Nat \ {0}, c.pos[i] # -1
  PROVE  /\ Exact(pos_div(c, i, m))
         /\ Cell(c, pos_div(c, i, m), i, c.pos[i] \div m, c.seq[i], c.shift[i] + (c.pos[i] - c.pos[i] \div m))
         /\ pos_div(c, i, m).has_shift = TRUE
<1> DEFINE d == pos_div(c, i, m)
<1>0. CellsType(c) /\ c.pos[i] \in Int /\ c.pos[i] >= -1 /\ c.seq[i] \in SUBSET Seqs /\ c.shift[i] \in Int
      /\ (i \in c.used <=> c.pos[i] # -1) /\ (c.pos[i] = -1 => c.seq[i] = {} /\ c.shift[i] = 0)
      /\ c.used \in SUBSET Idx /\ c.has_shift \in BOOLEAN /\ (c.shift[i] # 0 => c.has_shift)
  BY UsedFacts DEF Exact, CellsType
<1>9. c.pos[i] \div m \in Nat
  <2>1. \A x, y \in Nat : y # 0 => x \div y \in Nat
    OBVIOUS
  <2> QED BY <1>0, <2>1
<1>1. /\ Shape(d) /\ Cell(c, d, i, c.pos[i] \div m, c.seq[i], c.shift[i] + (c.pos[i] - c.pos[i] \div m))
      /\ d.used = c.used /\ d.has_shift = TRUE
      /\ d.seq_pos = [s_ \in Seqs |-> Recount(c.seq_pos[s_], s_ \in c.seq[i], c.pos[i], s_ \in c.seq[i], c.pos[i] \div m)]
  BY <1>0 DEF pos_div, seq_pos_add, seq_pos_rm, Recount, CellsType, Shape, Members, Cell
<1> HIDE DEF d
<1>2. d.pos[i] = c.pos[i] \div m /\ d.seq[i] = c.seq[i] /\ d.shift[i] = c.shift[i] + (c.pos[i] - c.pos[i] \div m)
  BY <1>0, <1>1 DEF CellsType, Cell
<1>3. Follows(c, d, i)
  <2>1. \E p_ \in Int, q_ \in SUBSET Seqs, sh_ \in Int : Cell(c, d, i, p_, q_, sh_)
    BY <1>0, <1>1
  <2>2. /\ d.pos[i] >= -1 /\ (d.pos[i] = -1 => d.seq[i] = {} /\ d.shift[i] = 0)
        /\ d.used = IF d.pos[i] = -1 THEN c.used \ {i} ELSE c.used \cup {i}
    <3>1. d.pos[i] \in Nat
      BY <1>0, <1>2, <1>9
    <3>2. c.used \cup {i} = c.used
      BY <1>0
    <3>3. d.used = c.used /\ d.pos[i] >= -1 /\ d.pos[i] # -1
      BY <1>1, <3>1
    <3> QED BY <3>2, <3>3
  <2>5. d.has_shift \in BOOLEAN /\ (c.has_shift \/ d.shift[i] # 0 => d.has_shift)
    BY <1>1, Zenon
  <2>3. d.seq_pos = [s_ \in Seqs |-> d.seq_pos[s_]]
    BY <1>0, <1>1 DEF CellsType
  <2>4. \A s_ \in Seqs : \/ d.seq_pos[s_] = Recount(c.seq_pos[s_], s_ \in c.seq[i], c.pos[i], s_ \in d.seq[i], d.pos[i])
                        \/ /\ d.seq_pos[s_] = c.seq_pos[s_] /\ (s_ \in d.seq[i] <=> s_ \in c.seq[i])
                           /\ s_ \in d.seq[i] => d.pos[i] = c.pos[i]
    BY <1>0, <1>1, <1>2 DEF Recount, CellsType
  <2> QED BY <2>1, <2>2, <2>3, <2>4, <2>5 DEF Follows
<1>4. Exact(d)
  BY <1>1, <1>3, CellChanged
<1> QED BY <1>1, <1>4 DEF d

\* A cell is what it was in old.
LEMMA SetCellExact ==
  ASSUME NEW c, Exact(c), NEW i \in Idx, NEW old, Exact(old), c.shift[i] = 0
  PROVE  /\ Exact(set_cell(c, i, old))
         /\ Cell(c, set_cell(c, i, old), i, old.pos[i], old.seq[i], c.shift[i])
         /\ set_cell(c, i, old).has_shift = c.has_shift
<1>0. CellsType(c) /\ c.pos[i] \in Int /\ c.pos[i] >= -1 /\ c.seq[i] \in SUBSET Seqs /\ c.shift[i] \in Int
      /\ (i \in c.used <=> c.pos[i] # -1) /\ (c.pos[i] = -1 => c.seq[i] = {} /\ c.shift[i] = 0)
      /\ c.used \in SUBSET Idx /\ c.has_shift \in BOOLEAN /\ (c.shift[i] # 0 => c.has_shift)
  BY UsedFacts DEF Exact, CellsType
<1>o. old.pos[i] \in Int /\ old.pos[i] >= -1 /\ old.seq[i] \in SUBSET Seqs /\ (old.pos[i] = -1 => old.seq[i] = {})
  BY UsedFacts
<1> DEFINE d == set_cell(c, i, old)
           gone == IF is_empty(c, i) THEN c ELSE seq_pos_rm(c, i)
           back == [gone EXCEPT !.pos[i] = old.pos[i], !.seq[i] = old.seq[i],
                                !.used = IF is_empty(old, i) THEN @ \ {i} ELSE @ \union {i}]
<1>a. /\ Shape(gone) /\ gone.pos = c.pos /\ gone.seq = c.seq /\ gone.shift = c.shift
      /\ gone.used = c.used /\ gone.has_shift = c.has_shift
      /\ gone.seq_pos = [s_ \in Seqs |-> IF s_ \in c.seq[i] THEN c.seq_pos[s_] (-) SetToBag({c.pos[i]}) ELSE c.seq_pos[s_]]
  <2>1. CASE c.pos[i] = -1
    BY <1>0, <2>1 DEF is_empty, CellsType
  <2>2. CASE c.pos[i] # -1
    BY <1>0, <2>2 DEF is_empty, seq_pos_rm, CellsType, Shape, Members
  <2> QED BY <2>1, <2>2
<1> HIDE DEF gone
<1>b. /\ Shape(back) /\ back.pos = [c.pos EXCEPT ![i] = old.pos[i]] /\ back.seq = [c.seq EXCEPT ![i] = old.seq[i]]
      /\ back.shift = c.shift /\ back.has_shift = c.has_shift /\ back.seq_pos = gone.seq_pos
      /\ back.used = IF old.pos[i] = -1 THEN c.used \ {i} ELSE c.used \cup {i}
  BY <1>a DEF is_empty, Shape, Members
<1>c. d = IF is_empty(back, i) THEN back ELSE seq_pos_add(back, i)
  BY DEF set_cell, gone
<1> HIDE DEF back, d
<1>d. back.pos[i] = old.pos[i] /\ back.seq[i] = old.seq[i]
  BY <1>0, <1>b DEF CellsType
<1>1. /\ Shape(d) /\ Cell(c, d, i, old.pos[i], old.seq[i], c.shift[i])
      /\ d.used = IF old.pos[i] = -1 THEN c.used \ {i} ELSE c.used \cup {i}
      /\ d.has_shift = c.has_shift
      /\ d.seq_pos = [s_ \in Seqs |-> Recount(c.seq_pos[s_], s_ \in c.seq[i], c.pos[i], s_ \in old.seq[i], old.pos[i])]
  <2>1. Cell(c, back, i, old.pos[i], old.seq[i], c.shift[i])
    BY <1>0, <1>b DEF Cell, CellsType
  <2>2. CASE old.pos[i] = -1
    <3>1. d = back
      BY <1>c, <1>d, <2>2 DEF is_empty
    <3>2. d.seq_pos = [s_ \in Seqs |-> Recount(c.seq_pos[s_], s_ \in c.seq[i], c.pos[i], s_ \in old.seq[i], old.pos[i])]
      BY <1>a, <1>b, <1>o, <2>2, <3>1 DEF Recount
    <3> QED BY <1>b, <2>1, <3>1, <3>2
  <2>3. CASE old.pos[i] # -1
    <3>1. d = seq_pos_add(back, i)
      BY <1>c, <1>d, <2>3 DEF is_empty
    <3>2. /\ Shape(d) /\ d.pos = back.pos /\ d.seq = back.seq /\ d.shift = back.shift /\ d.used = back.used
          /\ d.has_shift = back.has_shift
          /\ d.seq_pos = [s_ \in Seqs |-> IF s_ \in back.seq[i] THEN back.seq_pos[s_] (+) SetToBag({back.pos[i]}) ELSE back.seq_pos[s_]]
      BY <1>b, <3>1 DEF seq_pos_add, Shape, Members
    <3>3. d.seq_pos = [s_ \in Seqs |-> Recount(c.seq_pos[s_], s_ \in c.seq[i], c.pos[i], s_ \in old.seq[i], old.pos[i])]
      BY <1>a, <1>b, <1>d, <3>2 DEF Recount
    <3>4. Cell(c, d, i, old.pos[i], old.seq[i], c.shift[i])
      BY <2>1, <3>2 DEF Cell
    <3> QED BY <1>b, <3>2, <3>3, <3>4
  <2> QED BY <2>2, <2>3
<1>2. d.pos[i] = old.pos[i] /\ d.seq[i] = old.seq[i] /\ d.shift[i] = c.shift[i]
  BY <1>0, <1>1 DEF CellsType, Cell
<1>3. Follows(c, d, i)
  <2>1. \E p_ \in Int, q_ \in SUBSET Seqs, sh_ \in Int : Cell(c, d, i, p_, q_, sh_)
    BY <1>0, <1>o, <1>1
  <2>2. /\ d.pos[i] >= -1 /\ (d.pos[i] = -1 => d.seq[i] = {} /\ d.shift[i] = 0)
        /\ d.used = IF d.pos[i] = -1 THEN c.used \ {i} ELSE c.used \cup {i}
        /\ d.has_shift \in BOOLEAN /\ (c.has_shift \/ d.shift[i] # 0 => d.has_shift)
    BY <1>0, <1>o, <1>1, <1>2
  <2>3. d.seq_pos = [s_ \in Seqs |-> d.seq_pos[s_]]
    BY <1>0, <1>1 DEF CellsType
  <2>4. \A s_ \in Seqs : \/ d.seq_pos[s_] = Recount(c.seq_pos[s_], s_ \in c.seq[i], c.pos[i], s_ \in d.seq[i], d.pos[i])
                        \/ /\ d.seq_pos[s_] = c.seq_pos[s_] /\ (s_ \in d.seq[i] <=> s_ \in c.seq[i])
                           /\ s_ \in d.seq[i] => d.pos[i] = c.pos[i]
    BY <1>0, <1>1, <1>2 DEF Recount, CellsType
  <2> QED BY <2>1, <2>2, <2>3, <2>4 DEF Follows
<1>4. Exact(d)
  BY <1>1, <1>3, CellChanged
<1> QED BY <1>1, <1>4 DEF d

\* pos_add and seq_keep in all their cases.
LEMMA PosAddSome ==
  ASSUME NEW c, Exact(c), NEW i \in Idx, NEW m \in Int, c.pos[i] # -1
  PROVE  /\ Exact(pos_add(c, i, m)) /\ pos_add(c, i, m).has_shift \in BOOLEAN
         /\ \E p, q, sh : Cell(c, pos_add(c, i, m), i, p, q, sh)
<1>1. c.pos[i] + m < 0 \/ c.pos[i] + m >= 0
  BY UsedFacts
<1>2. Exact(pos_add(c, i, m)) /\ \E p, q, sh : Cell(c, pos_add(c, i, m), i, p, q, sh)
  BY <1>1, PosAddBelow, PosAddExact
<1> QED BY <1>2 DEF Exact, CellsType

\* seq_keep of any cell.
LEMMA SeqKeepSome ==
  ASSUME NEW c, Exact(c), NEW i \in Idx, NEW s \in Seqs
  PROVE  /\ Exact(seq_keep(c, i, s)) /\ seq_keep(c, i, s).has_shift = c.has_shift
         /\ \E p, q, sh : Cell(c, seq_keep(c, i, s), i, p, q, sh)
<1>1. CASE s \in c.seq[i]
  BY <1>1, SeqKeepHas
<1>2. CASE s \notin c.seq[i] /\ c.seq[i] # {}
  BY <1>2, SeqKeepOther
<1>3. CASE c.seq[i] = {}
  <2>1. seq_keep(c, i, s) = c
    BY <1>3 DEF seq_keep, seq_has
  <2>2. Cell(c, c, i, c.pos[i], c.seq[i], c.shift[i])
    BY DEF Cell, Exact, CellsType
  <2> QED BY <2>1, <2>2
<1> QED BY <1>1, <1>2, <1>3

-----------------------------------------------------------------------------
\* Every method that changes cells, called as its assertions ask for, leaves used, seq_pos and
\* has_shift exact: seq_pos_min and seq_pos_max are the positions that are there.
THEOREM MethodsExact ==
  ASSUME NEW c, Exact(c), NEW i \in Idx
  PROVE  /\ Exact(reset_shift(c))
         /\ Exact(rm(c, i))
         /\ \A s \in c.seq[i] : Exact(seq_rm(c, i, s))
         /\ \A s \in Seqs : Exact(seq_keep(c, i, s))
         /\ c.pos[i] # -1 => \A s \in Seqs \ c.seq[i] : Exact(seq_add(c, i, s))
         /\ c.pos[i] = -1 => \A p \in Nat : Exact(pos_set(c, i, p))
         /\ c.pos[i] # -1 => \A m \in Int : Exact(pos_add(c, i, m))
         /\ c.pos[i] # -1 => \A m \in Nat \ {0} : Exact(pos_div(c, i, m))
         /\ c.shift[i] = 0 => \A old : Exact(old) => Exact(set_cell(c, i, old))
<1>1. Exact(reset_shift(c)) /\ Exact(rm(c, i))
  BY ResetShiftExact, RmExact
<1>2. ASSUME NEW s \in c.seq[i] PROVE Exact(seq_rm(c, i, s))
  BY SeqRmSome, SeqRmLast
<1>3. ASSUME NEW s \in Seqs PROVE Exact(seq_keep(c, i, s))
  BY SeqKeepSome
<1>4. ASSUME c.pos[i] # -1, NEW s \in Seqs \ c.seq[i] PROVE Exact(seq_add(c, i, s))
  BY <1>4, SeqAddExact
<1>5. ASSUME c.pos[i] = -1, NEW p \in Nat PROVE Exact(pos_set(c, i, p))
  BY <1>5, PosSetExact
<1>6. ASSUME c.pos[i] # -1, NEW m \in Int PROVE Exact(pos_add(c, i, m))
  BY <1>6, PosAddSome
<1>7. ASSUME c.pos[i] # -1, NEW m \in Nat \ {0} PROVE Exact(pos_div(c, i, m))
  BY <1>7, PosDivExact
<1>8. ASSUME c.shift[i] = 0, NEW old, Exact(old) PROVE Exact(set_cell(c, i, old))
  BY <1>8, SetCellExact
<1> QED BY <1>1, <1>2, <1>3, <1>4, <1>5, <1>6, <1>7, <1>8

-----------------------------------------------------------------------------
(***************************************************************************)
(* The calls of the cache.                                                 *)
(***************************************************************************)
\* A set that has all the states of the cells of a stream.
CellStates == [Members -> [Idx -> Int] \cup [Idx -> SUBSET Seqs] \cup (SUBSET Idx) \cup [Seqs -> Counts] \cup BOOLEAN]

\* d is what c becomes when the cells done were visited; H are the values has_shift may have.
Behind(c, H, done, d) ==
  /\ Exact(d) /\ d.has_shift \in H
  /\ \A i \in Idx \ done : d.pos[i] = c.pos[i] /\ d.seq[i] = c.seq[i] /\ d.shift[i] = c.shift[i]

\* The cell i of d holds p, q and the shift sh; what c has; nothing; what c has, without s.
Holds(d, i, p, q, sh) == d.pos[i] = p /\ d.seq[i] = q /\ d.shift[i] = sh
Same(c, d, i)         == Holds(d, i, c.pos[i], c.seq[i], c.shift[i])
Gone(d, i)            == Holds(d, i, -1, {}, 0)
Without(c, d, i, s)   == IF c.seq[i] = {s} THEN Gone(d, i) ELSE Holds(d, i, c.pos[i], c.seq[i] \ {s}, c.shift[i])
Shifted(c, d, i, m)   == IF c.pos[i] + m < 0 THEN Gone(d, i) ELSE Holds(d, i, c.pos[i] + m, c.seq[i], c.shift[i] + m)
Alone(c, d, i, s)     == IF s \in c.seq[i] THEN Holds(d, i, c.pos[i], {s}, c.shift[i])
                         ELSE IF c.seq[i] # {} THEN Gone(d, i) ELSE Same(c, d, i)

\* The cell i of d has nothing that it does not have in c: it lost some of its sequences, or
\* the token.
Less(c, d, i) == \/ Gone(d, i)
                 \/ /\ Holds(d, i, c.pos[i], d.seq[i], c.shift[i])
                    /\ d.seq[i] \subseteq c.seq[i] /\ (d.seq[i] = {} => c.seq[i] = {})

\* A method that changes one cell leaves the others alone.
LEMMA CellIs ==
  ASSUME NEW c, Exact(c), NEW d, NEW i \in Idx, NEW p, NEW q, NEW sh, Cell(c, d, i, p, q, sh)
  PROVE  Holds(d, i, p, q, sh) /\ \A j \in Idx \ {i} : Same(c, d, j)
BY DEF Cell, Exact, CellsType, Holds, Same

\* Exact cells are among them.
LEMMA StatesFacts == ASSUME NEW c, Exact(c) PROVE c \in CellStates
<1>1. CellsType(c) /\ c = [m \in Members |-> c[m]]
  BY DEF Exact, CellsType, Shape
<1>2. /\ c["pos"] \in [Idx -> Int] /\ c["shift"] \in [Idx -> Int] /\ c["seq"] \in [Idx -> SUBSET Seqs]
      /\ c["used"] \in SUBSET Idx /\ c["seq_pos"] \in [Seqs -> Counts] /\ c["has_shift"] \in BOOLEAN
  BY <1>1 DEF CellsType
<1>3. \A m \in Members : c[m] \in [Idx -> Int] \cup [Idx -> SUBSET Seqs] \cup (SUBSET Idx) \cup [Seqs -> Counts] \cup BOOLEAN
  <2> DEFINE U == [Idx -> Int] \cup [Idx -> SUBSET Seqs] \cup (SUBSET Idx) \cup [Seqs -> Counts] \cup BOOLEAN
  <2>1. /\ c["pos"] \in U /\ c["shift"] \in U /\ c["seq"] \in U
        /\ c["used"] \in U /\ c["seq_pos"] \in U /\ c["has_shift"] \in U
    BY <1>2
  <2> HIDE DEF U
  <2>2. \A m \in Members : c[m] \in U
    BY <2>1, Zenon DEF Members
  <2> QED BY <2>2 DEF U
<1> QED BY <1>1, <1>3 DEF CellStates

SeqRmOf(c, I, s) == Each(c, I, LAMBDA i, d : seq_rm(d, i, s))

\* seq_rm on cells that have the sequence.
LEMMA SeqRmEach ==
  ASSUME NEW c, Exact(c), NEW I \in SUBSET Idx, NEW s, \A i \in I : s \in c.seq[i]
  PROVE  /\ Behind(c, {c.has_shift}, I, SeqRmOf(c, I, s))
         /\ \A i \in I : Without(c, SeqRmOf(c, I, s), i, s)
<1> DEFINE Good(t, d) == Behind(c, {c.has_shift}, t, d) /\ \A i \in t : Without(c, d, i, s)
           P == {y \in (SUBSET I) \X CellStates : Good(y[1], y[2])}
           Step(x, d) == seq_rm(d, x, s)
           F == [y \in I \X CellStates |-> IF Step(y[1], y[2]) \in CellStates THEN Step(y[1], y[2]) ELSE y[2]]
           E(h) == [t \in SUBSET I |-> IF t = {} THEN c ELSE Step(Chosen(t), h[t \ {Chosen(t)}])]
<1>1. F \in [I \X CellStates -> CellStates]
  <2> HIDE DEF Step
  <2> QED OBVIOUS
<1>2. IsFiniteSet(I) /\ c \in CellStates /\ Good({}, c)
  BY IdxFinite, FS_Subset, StatesFacts DEF Behind, Exact, CellsType
<1>3. ASSUME NEW t \in SUBSET I, NEW x \in I \ t, NEW d \in CellStates, Good(t, d)
      PROVE  Good(t \cup {x}, Step(x, d)) /\ Step(x, d) \in CellStates
  <2>1. Exact(d) /\ d.has_shift \in {c.has_shift} /\ d.pos[x] = c.pos[x] /\ d.seq[x] = c.seq[x] /\ d.shift[x] = c.shift[x]
    BY <1>3 DEF Behind
  <2>2. Exact(seq_rm(d, x, s)) /\ seq_rm(d, x, s).has_shift \in {c.has_shift} /\ \E p, q, sh : Cell(d, seq_rm(d, x, s), x, p, q, sh)
    BY <2>1, SeqRmSome, SeqRmLast
  <2>5. Without(c, seq_rm(d, x, s), x, s) /\ \A j \in Idx \ {x} : Same(d, seq_rm(d, x, s), j)
    BY <2>1, SeqRmSome, SeqRmLast, CellIs DEF Without, Gone
  <2>3. seq_rm(d, x, s) \in CellStates
    BY <2>2, StatesFacts
  <2>4. Behind(c, {c.has_shift}, t \cup {x}, seq_rm(d, x, s))
    BY <1>3, <2>1, <2>2 DEF Behind, Cell, Exact, CellsType
  <2>6. \A i \in t \cup {x} : Without(c, seq_rm(d, x, s), i, s)
    BY <1>3, <2>5 DEF Without, Gone, Holds, Same
  <2> QED BY <2>3, <2>4, <2>6
<1> HIDE DEF Good, Step
<1>4. PICK g : Folds(g, I, CellStates, c, F) /\ \A t \in SUBSET I : Good(t, g[t])
  <2>1. <<{}, c>> \in P
    BY <1>2
  <2>2. Preserves(P, I, CellStates, c, F)
    BY <1>1, <1>2, <1>3, <2>1 DEF Preserves
  <2> HIDE DEF F
  <2>3. \A t, d : <<t, d>> \in P => Good(t, d)
    OBVIOUS
  <2> HIDE DEF P
  <2>4. PICK g : Folds(g, I, CellStates, c, F) /\ \A t \in SUBSET I : <<t, g[t]>> \in P
    BY <2>2, FoldKeeps
  <2> QED BY <2>3, <2>4
<1>5. g = E(g)
  <2>1. ASSUME NEW t \in SUBSET I, t # {} PROVE g[t] = Step(Chosen(t), g[t \ {Chosen(t)}])
    <3>1. Chosen(t) \in t /\ t \ {Chosen(t)} \in SUBSET I
      BY <2>1 DEF Chosen
    <3>2. /\ Chosen(t) \in I \ (t \ {Chosen(t)}) /\ Good(t \ {Chosen(t)}, g[t \ {Chosen(t)}])
          /\ g[t \ {Chosen(t)}] \in CellStates
      BY <1>4, <3>1 DEF Folds
    <3>3. g[t] = F[<<Chosen(t), g[t \ {Chosen(t)}]>>]
      BY <1>4, <2>1 DEF Folds
    <3> QED BY <1>3, <3>1, <3>2, <3>3
  <2> QED BY <1>4, <2>1 DEF Folds
<1>6. ASSUME NEW h, h = E(h) PROVE h[I] = g[I]
  <2> DEFINE T == {t \in SUBSET I : h[t] = g[t]}
  <2>1. {} \in T
    BY <1>5, <1>6
  <2>2. ASSUME NEW t \in SUBSET I, t # {}, t \ {Chosen(t)} \in T PROVE t \in T
    BY <1>5, <1>6, <2>2, ZenonT(60)
  <2> HIDE DEF T, E
  <2>3. SUBSET I \subseteq T
    BY <1>2, <2>1, <2>2, SubsetInduction
  <2> QED BY <2>3 DEF T
<1>7. SeqRmOf(c, I, s) = (CHOOSE h : h = E(h))[I]
  BY DEF Each, set, FoldSet, MapThenFoldSet, Chosen, Step, SeqRmOf
<1> HIDE DEF E
<1>8. (CHOOSE h : h = E(h))[I] = g[I]
  BY <1>5, <1>6
<1>9. Good(I, SeqRmOf(c, I, s))
  BY <1>4, <1>7, <1>8
<1> QED BY <1>9 DEF Good

RmOf(c, I) == Each(c, I, LAMBDA i, d : rm(d, i))

\* rm on some cells.
LEMMA RmEach ==
  ASSUME NEW c, Exact(c), NEW I \in SUBSET Idx
  PROVE  /\ Behind(c, {c.has_shift}, I, RmOf(c, I))
         /\ \A i \in I : Gone(RmOf(c, I), i)
<1> DEFINE Good(t, d) == Behind(c, {c.has_shift}, t, d) /\ \A i \in t : Gone(d, i)
           P == {y \in (SUBSET I) \X CellStates : Good(y[1], y[2])}
           Step(x, d) == rm(d, x)
           F == [y \in I \X CellStates |-> IF Step(y[1], y[2]) \in CellStates THEN Step(y[1], y[2]) ELSE y[2]]
           E(h) == [t \in SUBSET I |-> IF t = {} THEN c ELSE Step(Chosen(t), h[t \ {Chosen(t)}])]
<1>1. F \in [I \X CellStates -> CellStates]
  <2> HIDE DEF Step
  <2> QED OBVIOUS
<1>2. IsFiniteSet(I) /\ c \in CellStates /\ Good({}, c)
  BY IdxFinite, FS_Subset, StatesFacts DEF Behind, Exact, CellsType
<1>3. ASSUME NEW t \in SUBSET I, NEW x \in I \ t, NEW d \in CellStates, Good(t, d)
      PROVE  Good(t \cup {x}, Step(x, d)) /\ Step(x, d) \in CellStates
  <2>1. Exact(d) /\ d.has_shift \in {c.has_shift} /\ d.pos[x] = c.pos[x] /\ d.seq[x] = c.seq[x] /\ d.shift[x] = c.shift[x]
    BY <1>3 DEF Behind
  <2>2. Exact(rm(d, x)) /\ rm(d, x).has_shift \in {c.has_shift} /\ \E p, q, sh : Cell(d, rm(d, x), x, p, q, sh)
    BY <2>1, RmExact
  <2>5. Gone(rm(d, x), x) /\ \A j \in Idx \ {x} : Same(d, rm(d, x), j)
    BY <2>1, RmExact, CellIs DEF Gone
  <2>3. rm(d, x) \in CellStates
    BY <2>2, StatesFacts
  <2>4. Behind(c, {c.has_shift}, t \cup {x}, rm(d, x))
    BY <1>3, <2>1, <2>2 DEF Behind, Cell, Exact, CellsType
  <2>6. \A i \in t \cup {x} : Gone(rm(d, x), i)
    BY <1>3, <2>1, <2>5 DEF Gone, Holds, Same, Shifted, Alone
  <2> QED BY <2>3, <2>4, <2>6
<1> HIDE DEF Good, Step
<1>4. PICK g : Folds(g, I, CellStates, c, F) /\ \A t \in SUBSET I : Good(t, g[t])
  <2>1. <<{}, c>> \in P
    BY <1>2
  <2>2. Preserves(P, I, CellStates, c, F)
    BY <1>1, <1>2, <1>3, <2>1 DEF Preserves
  <2> HIDE DEF F
  <2>3. \A t, d : <<t, d>> \in P => Good(t, d)
    OBVIOUS
  <2> HIDE DEF P
  <2>4. PICK g : Folds(g, I, CellStates, c, F) /\ \A t \in SUBSET I : <<t, g[t]>> \in P
    BY <2>2, FoldKeeps
  <2> QED BY <2>3, <2>4
<1>5. g = E(g)
  <2>1. ASSUME NEW t \in SUBSET I, t # {} PROVE g[t] = Step(Chosen(t), g[t \ {Chosen(t)}])
    <3>1. Chosen(t) \in t /\ t \ {Chosen(t)} \in SUBSET I
      BY <2>1 DEF Chosen
    <3>2. /\ Chosen(t) \in I \ (t \ {Chosen(t)}) /\ Good(t \ {Chosen(t)}, g[t \ {Chosen(t)}])
          /\ g[t \ {Chosen(t)}] \in CellStates
      BY <1>4, <3>1 DEF Folds
    <3>3. g[t] = F[<<Chosen(t), g[t \ {Chosen(t)}]>>]
      BY <1>4, <2>1 DEF Folds
    <3> QED BY <1>3, <3>1, <3>2, <3>3
  <2> QED BY <1>4, <2>1 DEF Folds
<1>6. ASSUME NEW h, h = E(h) PROVE h[I] = g[I]
  <2> DEFINE T == {t \in SUBSET I : h[t] = g[t]}
  <2>1. {} \in T
    BY <1>5, <1>6
  <2>2. ASSUME NEW t \in SUBSET I, t # {}, t \ {Chosen(t)} \in T PROVE t \in T
    BY <1>5, <1>6, <2>2, ZenonT(60)
  <2> HIDE DEF T, E
  <2>3. SUBSET I \subseteq T
    BY <1>2, <2>1, <2>2, SubsetInduction
  <2> QED BY <2>3 DEF T
<1>7. RmOf(c, I) = (CHOOSE h : h = E(h))[I]
  BY DEF Each, set, FoldSet, MapThenFoldSet, Chosen, Step, RmOf
<1> HIDE DEF E
<1>8. (CHOOSE h : h = E(h))[I] = g[I]
  BY <1>5, <1>6
<1>9. Good(I, RmOf(c, I))
  BY <1>4, <1>7, <1>8
<1> QED BY <1>9 DEF Good

SeqAddOf(c, I, s) == Each(c, I, LAMBDA i, d : seq_add(d, i, s))

\* seq_add on used cells that do not have the sequence.
LEMMA SeqAddEach ==
  ASSUME NEW c, Exact(c), NEW I \in SUBSET Idx, NEW s \in Seqs, \A i \in I : c.pos[i] # -1 /\ s \notin c.seq[i]
  PROVE  /\ Behind(c, {c.has_shift}, I, SeqAddOf(c, I, s))
         /\ \A i \in I : Holds(SeqAddOf(c, I, s), i, c.pos[i], c.seq[i] \cup {s}, c.shift[i])
<1> DEFINE Good(t, d) == Behind(c, {c.has_shift}, t, d) /\ \A i \in t : Holds(d, i, c.pos[i], c.seq[i] \cup {s}, c.shift[i])
           P == {y \in (SUBSET I) \X CellStates : Good(y[1], y[2])}
           Step(x, d) == seq_add(d, x, s)
           F == [y \in I \X CellStates |-> IF Step(y[1], y[2]) \in CellStates THEN Step(y[1], y[2]) ELSE y[2]]
           E(h) == [t \in SUBSET I |-> IF t = {} THEN c ELSE Step(Chosen(t), h[t \ {Chosen(t)}])]
<1>1. F \in [I \X CellStates -> CellStates]
  <2> HIDE DEF Step
  <2> QED OBVIOUS
<1>2. IsFiniteSet(I) /\ c \in CellStates /\ Good({}, c)
  BY IdxFinite, FS_Subset, StatesFacts DEF Behind, Exact, CellsType
<1>3. ASSUME NEW t \in SUBSET I, NEW x \in I \ t, NEW d \in CellStates, Good(t, d)
      PROVE  Good(t \cup {x}, Step(x, d)) /\ Step(x, d) \in CellStates
  <2>1. Exact(d) /\ d.has_shift \in {c.has_shift} /\ d.pos[x] = c.pos[x] /\ d.seq[x] = c.seq[x] /\ d.shift[x] = c.shift[x]
    BY <1>3 DEF Behind
  <2>2. Exact(seq_add(d, x, s)) /\ seq_add(d, x, s).has_shift \in {c.has_shift} /\ \E p, q, sh : Cell(d, seq_add(d, x, s), x, p, q, sh)
    BY <2>1, SeqAddExact
  <2>5. Holds(seq_add(d, x, s), x, d.pos[x], d.seq[x] \cup {s}, d.shift[x]) /\ \A j \in Idx \ {x} : Same(d, seq_add(d, x, s), j)
    BY <2>1, SeqAddExact, CellIs
  <2>3. seq_add(d, x, s) \in CellStates
    BY <2>2, StatesFacts
  <2>4. Behind(c, {c.has_shift}, t \cup {x}, seq_add(d, x, s))
    BY <1>3, <2>1, <2>2 DEF Behind, Cell, Exact, CellsType
  <2>6. \A i \in t \cup {x} : Holds(seq_add(d, x, s), i, c.pos[i], c.seq[i] \cup {s}, c.shift[i])
    BY <1>3, <2>1, <2>5 DEF Gone, Holds, Same, Shifted, Alone
  <2> QED BY <2>3, <2>4, <2>6
<1> HIDE DEF Good, Step
<1>4. PICK g : Folds(g, I, CellStates, c, F) /\ \A t \in SUBSET I : Good(t, g[t])
  <2>1. <<{}, c>> \in P
    BY <1>2
  <2>2. Preserves(P, I, CellStates, c, F)
    BY <1>1, <1>2, <1>3, <2>1 DEF Preserves
  <2> HIDE DEF F
  <2>3. \A t, d : <<t, d>> \in P => Good(t, d)
    OBVIOUS
  <2> HIDE DEF P
  <2>4. PICK g : Folds(g, I, CellStates, c, F) /\ \A t \in SUBSET I : <<t, g[t]>> \in P
    BY <2>2, FoldKeeps
  <2> QED BY <2>3, <2>4
<1>5. g = E(g)
  <2>1. ASSUME NEW t \in SUBSET I, t # {} PROVE g[t] = Step(Chosen(t), g[t \ {Chosen(t)}])
    <3>1. Chosen(t) \in t /\ t \ {Chosen(t)} \in SUBSET I
      BY <2>1 DEF Chosen
    <3>2. /\ Chosen(t) \in I \ (t \ {Chosen(t)}) /\ Good(t \ {Chosen(t)}, g[t \ {Chosen(t)}])
          /\ g[t \ {Chosen(t)}] \in CellStates
      BY <1>4, <3>1 DEF Folds
    <3>3. g[t] = F[<<Chosen(t), g[t \ {Chosen(t)}]>>]
      BY <1>4, <2>1 DEF Folds
    <3> QED BY <1>3, <3>1, <3>2, <3>3
  <2> QED BY <1>4, <2>1 DEF Folds
<1>6. ASSUME NEW h, h = E(h) PROVE h[I] = g[I]
  <2> DEFINE T == {t \in SUBSET I : h[t] = g[t]}
  <2>1. {} \in T
    BY <1>5, <1>6
  <2>2. ASSUME NEW t \in SUBSET I, t # {}, t \ {Chosen(t)} \in T PROVE t \in T
    BY <1>5, <1>6, <2>2, ZenonT(60)
  <2> HIDE DEF T, E
  <2>3. SUBSET I \subseteq T
    BY <1>2, <2>1, <2>2, SubsetInduction
  <2> QED BY <2>3 DEF T
<1>7. SeqAddOf(c, I, s) = (CHOOSE h : h = E(h))[I]
  BY DEF Each, set, FoldSet, MapThenFoldSet, Chosen, Step, SeqAddOf
<1> HIDE DEF E
<1>8. (CHOOSE h : h = E(h))[I] = g[I]
  BY <1>5, <1>6
<1>9. Good(I, SeqAddOf(c, I, s))
  BY <1>4, <1>7, <1>8
<1> QED BY <1>9 DEF Good

\* pos_add of one cell.
LEMMA PosAddAll ==
  ASSUME NEW c, Exact(c), NEW i \in Idx, NEW m \in Int, c.pos[i] # -1
  PROVE  Shifted(c, pos_add(c, i, m), i, m) /\ \A j \in Idx \ {i} : Same(c, pos_add(c, i, m), j)
<1>1. c.pos[i] \in Int
  BY UsedFacts
<1>2. CASE c.pos[i] + m < 0
  BY <1>2, PosAddBelow, CellIs DEF Shifted, Gone
<1>3. CASE ~(c.pos[i] + m < 0)
  <2>1. c.pos[i] + m >= 0
    BY <1>1, <1>3
  <2> QED BY <1>3, <2>1, PosAddExact, CellIs DEF Shifted
<1> QED BY <1>2, <1>3

\* seq_keep of one cell.
LEMMA SeqKeepAll ==
  ASSUME NEW c, Exact(c), NEW i \in Idx, NEW s \in Seqs
  PROVE  Alone(c, seq_keep(c, i, s), i, s) /\ \A j \in Idx \ {i} : Same(c, seq_keep(c, i, s), j)
<1>1. CASE s \in c.seq[i]
  BY <1>1, SeqKeepHas, CellIs DEF Alone
<1>2. CASE s \notin c.seq[i] /\ c.seq[i] # {}
  BY <1>2, SeqKeepOther, CellIs DEF Alone, Gone
<1>3. CASE c.seq[i] = {}
  <2>1. seq_keep(c, i, s) = c
    BY <1>3 DEF seq_keep, seq_has
  <2> QED BY <1>3, <2>1 DEF Alone, Same, Holds
<1> QED BY <1>1, <1>2, <1>3

PosAddOf(c, I, m) == Each(c, I, LAMBDA i, e : pos_add(e, i, m))

\* pos_add on used cells.
LEMMA PosAddEach ==
  ASSUME NEW c, Exact(c), NEW I \in SUBSET Idx, NEW m \in Int, \A i \in I : c.pos[i] # -1
  PROVE  /\ Behind(c, BOOLEAN, I, PosAddOf(c, I, m))
         /\ \A i \in I : Shifted(c, PosAddOf(c, I, m), i, m)
<1> DEFINE Good(t, d) == Behind(c, BOOLEAN, t, d) /\ \A i \in t : Shifted(c, d, i, m)
           P == {y \in (SUBSET I) \X CellStates : Good(y[1], y[2])}
           Step(x, d) == pos_add(d, x, m)
           F == [y \in I \X CellStates |-> IF Step(y[1], y[2]) \in CellStates THEN Step(y[1], y[2]) ELSE y[2]]
           E(h) == [t \in SUBSET I |-> IF t = {} THEN c ELSE Step(Chosen(t), h[t \ {Chosen(t)}])]
<1>1. F \in [I \X CellStates -> CellStates]
  <2> HIDE DEF Step
  <2> QED OBVIOUS
<1>2. IsFiniteSet(I) /\ c \in CellStates /\ Good({}, c)
  BY IdxFinite, FS_Subset, StatesFacts DEF Behind, Exact, CellsType
<1>3. ASSUME NEW t \in SUBSET I, NEW x \in I \ t, NEW d \in CellStates, Good(t, d)
      PROVE  Good(t \cup {x}, Step(x, d)) /\ Step(x, d) \in CellStates
  <2>1. Exact(d) /\ d.has_shift \in BOOLEAN /\ d.pos[x] = c.pos[x] /\ d.seq[x] = c.seq[x] /\ d.shift[x] = c.shift[x]
    BY <1>3 DEF Behind
  <2>2. Exact(pos_add(d, x, m)) /\ pos_add(d, x, m).has_shift \in BOOLEAN /\ \E p, q, sh : Cell(d, pos_add(d, x, m), x, p, q, sh)
    BY <2>1, PosAddSome
  <2>5. Shifted(d, pos_add(d, x, m), x, m) /\ \A j \in Idx \ {x} : Same(d, pos_add(d, x, m), j)
    BY <2>1, PosAddAll
  <2>3. pos_add(d, x, m) \in CellStates
    BY <2>2, StatesFacts
  <2>4. Behind(c, BOOLEAN, t \cup {x}, pos_add(d, x, m))
    BY <1>3, <2>1, <2>2 DEF Behind, Cell, Exact, CellsType
  <2>6. \A i \in t \cup {x} : Shifted(c, pos_add(d, x, m), i, m)
    BY <1>3, <2>1, <2>5 DEF Gone, Holds, Same, Shifted, Alone
  <2> QED BY <2>3, <2>4, <2>6
<1> HIDE DEF Good, Step
<1>4. PICK g : Folds(g, I, CellStates, c, F) /\ \A t \in SUBSET I : Good(t, g[t])
  <2>1. <<{}, c>> \in P
    BY <1>2
  <2>2. Preserves(P, I, CellStates, c, F)
    BY <1>1, <1>2, <1>3, <2>1 DEF Preserves
  <2> HIDE DEF F
  <2>3. \A t, d : <<t, d>> \in P => Good(t, d)
    OBVIOUS
  <2> HIDE DEF P
  <2>4. PICK g : Folds(g, I, CellStates, c, F) /\ \A t \in SUBSET I : <<t, g[t]>> \in P
    BY <2>2, FoldKeeps
  <2> QED BY <2>3, <2>4
<1>5. g = E(g)
  <2>1. ASSUME NEW t \in SUBSET I, t # {} PROVE g[t] = Step(Chosen(t), g[t \ {Chosen(t)}])
    <3>1. Chosen(t) \in t /\ t \ {Chosen(t)} \in SUBSET I
      BY <2>1 DEF Chosen
    <3>2. /\ Chosen(t) \in I \ (t \ {Chosen(t)}) /\ Good(t \ {Chosen(t)}, g[t \ {Chosen(t)}])
          /\ g[t \ {Chosen(t)}] \in CellStates
      BY <1>4, <3>1 DEF Folds
    <3>3. g[t] = F[<<Chosen(t), g[t \ {Chosen(t)}]>>]
      BY <1>4, <2>1 DEF Folds
    <3> QED BY <1>3, <3>1, <3>2, <3>3
  <2> QED BY <1>4, <2>1 DEF Folds
<1>6. ASSUME NEW h, h = E(h) PROVE h[I] = g[I]
  <2> DEFINE T == {t \in SUBSET I : h[t] = g[t]}
  <2>1. {} \in T
    BY <1>5, <1>6
  <2>2. ASSUME NEW t \in SUBSET I, t # {}, t \ {Chosen(t)} \in T PROVE t \in T
    BY <1>5, <1>6, <2>2, ZenonT(60)
  <2> HIDE DEF T, E
  <2>3. SUBSET I \subseteq T
    BY <1>2, <2>1, <2>2, SubsetInduction
  <2> QED BY <2>3 DEF T
<1>7. PosAddOf(c, I, m) = (CHOOSE h : h = E(h))[I]
  BY DEF Each, set, FoldSet, MapThenFoldSet, Chosen, Step, PosAddOf
<1> HIDE DEF E
<1>8. (CHOOSE h : h = E(h))[I] = g[I]
  BY <1>5, <1>6
<1>9. Good(I, PosAddOf(c, I, m))
  BY <1>4, <1>7, <1>8
<1> QED BY <1>9 DEF Good

PosDivOf(c, I, m) == Each(c, I, LAMBDA i, e : pos_div(e, i, m))

\* pos_div on used cells.
LEMMA PosDivEach ==
  ASSUME NEW c, Exact(c), NEW I \in SUBSET Idx, NEW m \in Nat \ {0}, \A i \in I : c.pos[i] # -1
  PROVE  Behind(c, BOOLEAN, I, PosDivOf(c, I, m))
<1> DEFINE Good(t, d) == Behind(c, BOOLEAN, t, d)
           P == {y \in (SUBSET I) \X CellStates : Good(y[1], y[2])}
           Step(x, d) == pos_div(d, x, m)
           F == [y \in I \X CellStates |-> IF Step(y[1], y[2]) \in CellStates THEN Step(y[1], y[2]) ELSE y[2]]
           E(h) == [t \in SUBSET I |-> IF t = {} THEN c ELSE Step(Chosen(t), h[t \ {Chosen(t)}])]
<1>1. F \in [I \X CellStates -> CellStates]
  <2> HIDE DEF Step
  <2> QED OBVIOUS
<1>2. IsFiniteSet(I) /\ c \in CellStates /\ Good({}, c)
  BY IdxFinite, FS_Subset, StatesFacts DEF Behind, Exact, CellsType
<1>3. ASSUME NEW t \in SUBSET I, NEW x \in I \ t, NEW d \in CellStates, Good(t, d)
      PROVE  Good(t \cup {x}, Step(x, d)) /\ Step(x, d) \in CellStates
  <2>1. Exact(d) /\ d.has_shift \in BOOLEAN /\ d.pos[x] = c.pos[x] /\ d.seq[x] = c.seq[x] /\ d.shift[x] = c.shift[x]
    BY <1>3 DEF Behind
  <2>2. Exact(pos_div(d, x, m)) /\ pos_div(d, x, m).has_shift \in BOOLEAN /\ \E p, q, sh : Cell(d, pos_div(d, x, m), x, p, q, sh)
    BY <2>1, PosDivExact
  <2>3. pos_div(d, x, m) \in CellStates
    BY <2>2, StatesFacts
  <2>4. Behind(c, BOOLEAN, t \cup {x}, pos_div(d, x, m))
    BY <1>3, <2>1, <2>2 DEF Behind, Cell, Exact, CellsType
  <2> QED BY <2>3, <2>4
<1> HIDE DEF Good, Step
<1>4. PICK g : Folds(g, I, CellStates, c, F) /\ \A t \in SUBSET I : Good(t, g[t])
  <2>1. <<{}, c>> \in P
    BY <1>2
  <2>2. Preserves(P, I, CellStates, c, F)
    BY <1>1, <1>2, <1>3, <2>1 DEF Preserves
  <2> HIDE DEF F
  <2>3. \A t, d : <<t, d>> \in P => Good(t, d)
    OBVIOUS
  <2> HIDE DEF P
  <2>4. PICK g : Folds(g, I, CellStates, c, F) /\ \A t \in SUBSET I : <<t, g[t]>> \in P
    BY <2>2, FoldKeeps
  <2> QED BY <2>3, <2>4
<1>5. g = E(g)
  <2>1. ASSUME NEW t \in SUBSET I, t # {} PROVE g[t] = Step(Chosen(t), g[t \ {Chosen(t)}])
    <3>1. Chosen(t) \in t /\ t \ {Chosen(t)} \in SUBSET I
      BY <2>1 DEF Chosen
    <3>2. /\ Chosen(t) \in I \ (t \ {Chosen(t)}) /\ Good(t \ {Chosen(t)}, g[t \ {Chosen(t)}])
          /\ g[t \ {Chosen(t)}] \in CellStates
      BY <1>4, <3>1 DEF Folds
    <3>3. g[t] = F[<<Chosen(t), g[t \ {Chosen(t)}]>>]
      BY <1>4, <2>1 DEF Folds
    <3> QED BY <1>3, <3>1, <3>2, <3>3
  <2> QED BY <1>4, <2>1 DEF Folds
<1>6. ASSUME NEW h, h = E(h) PROVE h[I] = g[I]
  <2> DEFINE T == {t \in SUBSET I : h[t] = g[t]}
  <2>1. {} \in T
    BY <1>5, <1>6
  <2>2. ASSUME NEW t \in SUBSET I, t # {}, t \ {Chosen(t)} \in T PROVE t \in T
    BY <1>5, <1>6, <2>2, ZenonT(60)
  <2> HIDE DEF T, E
  <2>3. SUBSET I \subseteq T
    BY <1>2, <2>1, <2>2, SubsetInduction
  <2> QED BY <2>3 DEF T
<1>7. PosDivOf(c, I, m) = (CHOOSE h : h = E(h))[I]
  BY DEF Each, set, FoldSet, MapThenFoldSet, Chosen, Step, PosDivOf
<1> HIDE DEF E
<1>8. (CHOOSE h : h = E(h))[I] = g[I]
  BY <1>5, <1>6
<1>9. Good(I, PosDivOf(c, I, m))
  BY <1>4, <1>7, <1>8
<1> QED BY <1>9 DEF Good

SeqKeepOf(c, I, s) == Each(c, I, LAMBDA i, e : seq_keep(e, i, s))

\* seq_keep on some cells.
LEMMA SeqKeepEach ==
  ASSUME NEW c, Exact(c), NEW I \in SUBSET Idx, NEW s \in Seqs
  PROVE  /\ Behind(c, {c.has_shift}, I, SeqKeepOf(c, I, s))
         /\ \A i \in I : Alone(c, SeqKeepOf(c, I, s), i, s)
<1> DEFINE Good(t, d) == Behind(c, {c.has_shift}, t, d) /\ \A i \in t : Alone(c, d, i, s)
           P == {y \in (SUBSET I) \X CellStates : Good(y[1], y[2])}
           Step(x, d) == seq_keep(d, x, s)
           F == [y \in I \X CellStates |-> IF Step(y[1], y[2]) \in CellStates THEN Step(y[1], y[2]) ELSE y[2]]
           E(h) == [t \in SUBSET I |-> IF t = {} THEN c ELSE Step(Chosen(t), h[t \ {Chosen(t)}])]
<1>1. F \in [I \X CellStates -> CellStates]
  <2> HIDE DEF Step
  <2> QED OBVIOUS
<1>2. IsFiniteSet(I) /\ c \in CellStates /\ Good({}, c)
  BY IdxFinite, FS_Subset, StatesFacts DEF Behind, Exact, CellsType
<1>3. ASSUME NEW t \in SUBSET I, NEW x \in I \ t, NEW d \in CellStates, Good(t, d)
      PROVE  Good(t \cup {x}, Step(x, d)) /\ Step(x, d) \in CellStates
  <2>1. Exact(d) /\ d.has_shift \in {c.has_shift} /\ d.pos[x] = c.pos[x] /\ d.seq[x] = c.seq[x] /\ d.shift[x] = c.shift[x]
    BY <1>3 DEF Behind
  <2>2. Exact(seq_keep(d, x, s)) /\ seq_keep(d, x, s).has_shift \in {c.has_shift} /\ \E p, q, sh : Cell(d, seq_keep(d, x, s), x, p, q, sh)
    BY <2>1, SeqKeepSome
  <2>5. Alone(d, seq_keep(d, x, s), x, s) /\ \A j \in Idx \ {x} : Same(d, seq_keep(d, x, s), j)
    BY <2>1, SeqKeepAll
  <2>3. seq_keep(d, x, s) \in CellStates
    BY <2>2, StatesFacts
  <2>4. Behind(c, {c.has_shift}, t \cup {x}, seq_keep(d, x, s))
    BY <1>3, <2>1, <2>2 DEF Behind, Cell, Exact, CellsType
  <2>6. \A i \in t \cup {x} : Alone(c, seq_keep(d, x, s), i, s)
    BY <1>3, <2>1, <2>5 DEF Gone, Holds, Same, Shifted, Alone
  <2> QED BY <2>3, <2>4, <2>6
<1> HIDE DEF Good, Step
<1>4. PICK g : Folds(g, I, CellStates, c, F) /\ \A t \in SUBSET I : Good(t, g[t])
  <2>1. <<{}, c>> \in P
    BY <1>2
  <2>2. Preserves(P, I, CellStates, c, F)
    BY <1>1, <1>2, <1>3, <2>1 DEF Preserves
  <2> HIDE DEF F
  <2>3. \A t, d : <<t, d>> \in P => Good(t, d)
    OBVIOUS
  <2> HIDE DEF P
  <2>4. PICK g : Folds(g, I, CellStates, c, F) /\ \A t \in SUBSET I : <<t, g[t]>> \in P
    BY <2>2, FoldKeeps
  <2> QED BY <2>3, <2>4
<1>5. g = E(g)
  <2>1. ASSUME NEW t \in SUBSET I, t # {} PROVE g[t] = Step(Chosen(t), g[t \ {Chosen(t)}])
    <3>1. Chosen(t) \in t /\ t \ {Chosen(t)} \in SUBSET I
      BY <2>1 DEF Chosen
    <3>2. /\ Chosen(t) \in I \ (t \ {Chosen(t)}) /\ Good(t \ {Chosen(t)}, g[t \ {Chosen(t)}])
          /\ g[t \ {Chosen(t)}] \in CellStates
      BY <1>4, <3>1 DEF Folds
    <3>3. g[t] = F[<<Chosen(t), g[t \ {Chosen(t)}]>>]
      BY <1>4, <2>1 DEF Folds
    <3> QED BY <1>3, <3>1, <3>2, <3>3
  <2> QED BY <1>4, <2>1 DEF Folds
<1>6. ASSUME NEW h, h = E(h) PROVE h[I] = g[I]
  <2> DEFINE T == {t \in SUBSET I : h[t] = g[t]}
  <2>1. {} \in T
    BY <1>5, <1>6
  <2>2. ASSUME NEW t \in SUBSET I, t # {}, t \ {Chosen(t)} \in T PROVE t \in T
    BY <1>5, <1>6, <2>2, ZenonT(60)
  <2> HIDE DEF T, E
  <2>3. SUBSET I \subseteq T
    BY <1>2, <2>1, <2>2, SubsetInduction
  <2> QED BY <2>3 DEF T
<1>7. SeqKeepOf(c, I, s) = (CHOOSE h : h = E(h))[I]
  BY DEF Each, set, FoldSet, MapThenFoldSet, Chosen, Step, SeqKeepOf
<1> HIDE DEF E
<1>8. (CHOOSE h : h = E(h))[I] = g[I]
  BY <1>5, <1>6
<1>9. Good(I, SeqKeepOf(c, I, s))
  BY <1>4, <1>7, <1>8
<1> QED BY <1>9 DEF Good

\* set(idxs, other) on cells without a shift.
LEMMA SetEach ==
  ASSUME NEW c, Exact(c), NEW I \in SUBSET Idx, NEW old, Exact(old), \A i \in I : c.shift[i] = 0
  PROVE  /\ Behind(c, {c.has_shift}, I, set(c, I, old))
         /\ \A i \in I : Holds(set(c, I, old), i, old.pos[i], old.seq[i], c.shift[i])
<1> DEFINE Good(t, d) == Behind(c, {c.has_shift}, t, d) /\ \A i \in t : Holds(d, i, old.pos[i], old.seq[i], c.shift[i])
           P == {y \in (SUBSET I) \X CellStates : Good(y[1], y[2])}
           Step(x, d) == set_cell(d, x, old)
           F == [y \in I \X CellStates |-> IF Step(y[1], y[2]) \in CellStates THEN Step(y[1], y[2]) ELSE y[2]]
           E(h) == [t \in SUBSET I |-> IF t = {} THEN c ELSE Step(Chosen(t), h[t \ {Chosen(t)}])]
<1>1. F \in [I \X CellStates -> CellStates]
  <2> HIDE DEF Step
  <2> QED OBVIOUS
<1>2. IsFiniteSet(I) /\ c \in CellStates /\ Good({}, c)
  BY IdxFinite, FS_Subset, StatesFacts DEF Behind, Exact, CellsType
<1>3. ASSUME NEW t \in SUBSET I, NEW x \in I \ t, NEW d \in CellStates, Good(t, d)
      PROVE  Good(t \cup {x}, Step(x, d)) /\ Step(x, d) \in CellStates
  <2>1. Exact(d) /\ d.has_shift \in {c.has_shift} /\ d.pos[x] = c.pos[x] /\ d.seq[x] = c.seq[x] /\ d.shift[x] = c.shift[x]
    BY <1>3 DEF Behind
  <2>2. Exact(set_cell(d, x, old)) /\ set_cell(d, x, old).has_shift \in {c.has_shift} /\ \E p, q, sh : Cell(d, set_cell(d, x, old), x, p, q, sh)
    BY <2>1, SetCellExact
  <2>5. Holds(set_cell(d, x, old), x, old.pos[x], old.seq[x], d.shift[x]) /\ \A j \in Idx \ {x} : Same(d, set_cell(d, x, old), j)
    BY <2>1, SetCellExact, CellIs
  <2>3. set_cell(d, x, old) \in CellStates
    BY <2>2, StatesFacts
  <2>4. Behind(c, {c.has_shift}, t \cup {x}, set_cell(d, x, old))
    BY <1>3, <2>1, <2>2 DEF Behind, Cell, Exact, CellsType
  <2>6. \A i \in t \cup {x} : Holds(set_cell(d, x, old), i, old.pos[i], old.seq[i], c.shift[i])
    BY <1>3, <2>1, <2>5 DEF Gone, Holds, Same, Shifted, Alone
  <2> QED BY <2>3, <2>4, <2>6
<1> HIDE DEF Good, Step
<1>4. PICK g : Folds(g, I, CellStates, c, F) /\ \A t \in SUBSET I : Good(t, g[t])
  <2>1. <<{}, c>> \in P
    BY <1>2
  <2>2. Preserves(P, I, CellStates, c, F)
    BY <1>1, <1>2, <1>3, <2>1 DEF Preserves
  <2> HIDE DEF F
  <2>3. \A t, d : <<t, d>> \in P => Good(t, d)
    OBVIOUS
  <2> HIDE DEF P
  <2>4. PICK g : Folds(g, I, CellStates, c, F) /\ \A t \in SUBSET I : <<t, g[t]>> \in P
    BY <2>2, FoldKeeps
  <2> QED BY <2>3, <2>4
<1>5. g = E(g)
  <2>1. ASSUME NEW t \in SUBSET I, t # {} PROVE g[t] = Step(Chosen(t), g[t \ {Chosen(t)}])
    <3>1. Chosen(t) \in t /\ t \ {Chosen(t)} \in SUBSET I
      BY <2>1 DEF Chosen
    <3>2. /\ Chosen(t) \in I \ (t \ {Chosen(t)}) /\ Good(t \ {Chosen(t)}, g[t \ {Chosen(t)}])
          /\ g[t \ {Chosen(t)}] \in CellStates
      BY <1>4, <3>1 DEF Folds
    <3>3. g[t] = F[<<Chosen(t), g[t \ {Chosen(t)}]>>]
      BY <1>4, <2>1 DEF Folds
    <3> QED BY <1>3, <3>1, <3>2, <3>3
  <2> QED BY <1>4, <2>1 DEF Folds
<1>6. ASSUME NEW h, h = E(h) PROVE h[I] = g[I]
  <2> DEFINE T == {t \in SUBSET I : h[t] = g[t]}
  <2>1. {} \in T
    BY <1>5, <1>6
  <2>2. ASSUME NEW t \in SUBSET I, t # {}, t \ {Chosen(t)} \in T PROVE t \in T
    BY <1>5, <1>6, <2>2, ZenonT(60)
  <2> HIDE DEF T, E
  <2>3. SUBSET I \subseteq T
    BY <1>2, <2>1, <2>2, SubsetInduction
  <2> QED BY <2>3 DEF T
<1>7. set(c, I, old) = (CHOOSE h : h = E(h))[I]
  BY DEF Each, set, FoldSet, MapThenFoldSet, Chosen, Step
<1> HIDE DEF E
<1>8. (CHOOSE h : h = E(h))[I] = g[I]
  BY <1>5, <1>6
<1>9. Good(I, set(c, I, old))
  BY <1>4, <1>7, <1>8
<1> QED BY <1>9 DEF Good

InAll(b, i, S) == Each(b, S, LAMBDA s, d : seq_add(d, i, s))

\* A token that is placed is added to each of its sequences.
LEMMA PlaceEach ==
  ASSUME NEW b, Exact(b), NEW i \in Idx, b.pos[i] # -1, b.seq[i] = {}, NEW S \in SUBSET Seqs
  PROVE  LET e == InAll(b, i, S)
         IN /\ Exact(e) /\ e.has_shift = b.has_shift
            /\ Holds(e, i, b.pos[i], S, b.shift[i]) /\ \A j \in Idx \ {i} : Same(b, e, j)
<1> DEFINE Good(t, d) == Exact(d) /\ d.has_shift = b.has_shift /\ d.pos[i] = b.pos[i] /\ d.seq[i] = t
                         /\ d.shift[i] = b.shift[i] /\ \A j \in Idx \ {i} : Same(b, d, j)
           P == {y \in (SUBSET S) \X CellStates : Good(y[1], y[2])}
           Step(x, d) == seq_add(d, i, x)
           F == [y \in S \X CellStates |-> IF Step(y[1], y[2]) \in CellStates THEN Step(y[1], y[2]) ELSE y[2]]
           E(h) == [t \in SUBSET S |-> IF t = {} THEN b ELSE Step(Chosen(t), h[t \ {Chosen(t)}])]
<1>1. F \in [S \X CellStates -> CellStates]
  <2> HIDE DEF Step
  <2> QED OBVIOUS
<1>2. IsFiniteSet(S) /\ b \in CellStates /\ Good({}, b)
  BY SeqsAssumption, FS_Subset, StatesFacts DEF Same, Holds
<1>3. ASSUME NEW t \in SUBSET S, NEW x \in S \ t, NEW d \in CellStates, Good(t, d)
      PROVE  Good(t \cup {x}, Step(x, d)) /\ Step(x, d) \in CellStates
  <2>1. Exact(d) /\ d.pos[i] # -1 /\ x \in Seqs /\ x \notin d.seq[i] /\ d.seq[i] = t /\ d.has_shift = b.has_shift /\ d.pos[i] = b.pos[i]
        /\ d.shift[i] = b.shift[i] /\ \A j \in Idx \ {i} : Same(b, d, j)
    BY <1>3
  <2>2. /\ Exact(seq_add(d, i, x)) /\ seq_add(d, i, x).has_shift = d.has_shift
        /\ Cell(d, seq_add(d, i, x), i, d.pos[i], d.seq[i] \cup {x}, d.shift[i])
    BY <2>1, SeqAddExact
  <2>3. seq_add(d, i, x) \in CellStates
    BY <2>2, StatesFacts
  <2>4. Holds(seq_add(d, i, x), i, d.pos[i], d.seq[i] \cup {x}, d.shift[i]) /\ \A j \in Idx \ {i} : Same(d, seq_add(d, i, x), j)
    BY <2>1, <2>2, CellIs
  <2>5. \A j \in Idx \ {i} : Same(b, seq_add(d, i, x), j)
    BY <2>1, <2>4 DEF Same, Holds
  <2>6. /\ seq_add(d, i, x).pos[i] = b.pos[i] /\ seq_add(d, i, x).seq[i] = t \cup {x}
        /\ seq_add(d, i, x).shift[i] = b.shift[i]
    BY <2>1, <2>4 DEF Holds
  <2> QED BY <2>1, <2>2, <2>3, <2>5, <2>6
<1> HIDE DEF Good, Step
<1>4. PICK g : Folds(g, S, CellStates, b, F) /\ \A t \in SUBSET S : Good(t, g[t])
  <2>1. <<{}, b>> \in P
    BY <1>2
  <2>2. Preserves(P, S, CellStates, b, F)
    BY <1>1, <1>2, <1>3, <2>1 DEF Preserves
  <2> HIDE DEF F
  <2>3. \A t, d : <<t, d>> \in P => Good(t, d)
    OBVIOUS
  <2> HIDE DEF P
  <2>4. PICK g : Folds(g, S, CellStates, b, F) /\ \A t \in SUBSET S : <<t, g[t]>> \in P
    BY <2>2, FoldKeeps
  <2> QED BY <2>3, <2>4
<1>5. g = E(g)
  <2>1. ASSUME NEW t \in SUBSET S, t # {} PROVE g[t] = Step(Chosen(t), g[t \ {Chosen(t)}])
    <3>1. Chosen(t) \in t /\ t \ {Chosen(t)} \in SUBSET S
      BY <2>1 DEF Chosen
    <3>2. /\ Chosen(t) \in S \ (t \ {Chosen(t)}) /\ Good(t \ {Chosen(t)}, g[t \ {Chosen(t)}])
          /\ g[t \ {Chosen(t)}] \in CellStates
      BY <1>4, <3>1 DEF Folds
    <3>3. g[t] = F[<<Chosen(t), g[t \ {Chosen(t)}]>>]
      BY <1>4, <2>1 DEF Folds
    <3> QED BY <1>3, <3>1, <3>2, <3>3
  <2> QED BY <1>4, <2>1 DEF Folds
<1>6. ASSUME NEW h, h = E(h) PROVE h[S] = g[S]
  <2> DEFINE T == {t \in SUBSET S : h[t] = g[t]}
  <2>1. {} \in T
    BY <1>5, <1>6
  <2>2. ASSUME NEW t \in SUBSET S, t # {}, t \ {Chosen(t)} \in T PROVE t \in T
    BY <1>5, <1>6, <2>2, ZenonT(60)
  <2> HIDE DEF T, E
  <2>3. SUBSET S \subseteq T
    BY <1>2, <2>1, <2>2, SubsetInduction
  <2> QED BY <2>3 DEF T
<1>7. InAll(b, i, S) = (CHOOSE h : h = E(h))[S]
  BY DEF Each, FoldSet, MapThenFoldSet, Chosen, Step, InAll
<1> HIDE DEF E
<1>8. (CHOOSE h : h = E(h))[S] = g[S]
  BY <1>5, <1>6
<1>9. Good(S, InAll(b, i, S))
  BY <1>4, <1>7, <1>8
<1> QED BY <1>9 DEF Good, Holds

\* Sequences may be removed from wherever they are.
LEMMA WithoutExact ==
  ASSUME NEW c, Exact(c), NEW s, NEW r
  PROVE  /\ Exact(WithoutSeq(c, s, r)) /\ WithoutSeq(c, s, r).has_shift = c.has_shift
         /\ \A i \in Idx : IF i \in Having(c, r, s) THEN Without(c, WithoutSeq(c, s, r), i, s)
                           ELSE Same(c, WithoutSeq(c, s, r), i)
         /\ \A i \in Idx : Less(c, WithoutSeq(c, s, r), i)
<1>1. Having(c, r, s) \in SUBSET Idx /\ \A i \in Having(c, r, s) : s \in c.seq[i]
  BY DEF Having, InRange, seq_has
<1> HIDE DEF Having
<1>2. Behind(c, {c.has_shift}, Having(c, r, s), SeqRmOf(c, Having(c, r, s), s))
  BY <1>1, SeqRmEach
<1>3. WithoutSeq(c, s, r) = SeqRmOf(c, Having(c, r, s), s)
  BY DEF WithoutSeq, SeqRmOf
<1> DEFINE d == WithoutSeq(c, s, r)
<1>4. \A i \in Idx : IF i \in Having(c, r, s) THEN Without(c, d, i, s) ELSE Same(c, d, i)
  BY <1>1, <1>2, <1>3, SeqRmEach DEF Behind, Same, Holds
<1>5. ASSUME NEW i \in Idx PROVE Less(c, d, i)
  <2>1. CASE i \in Having(c, r, s)
    <3>1. Without(c, d, i, s) /\ s \in c.seq[i]
      BY <1>1, <1>4, <2>1
    <3> HIDE DEF d
    <3> QED BY <3>1 DEF Without, Less, Holds
  <2>2. CASE i \notin Having(c, r, s)
    <3>1. Same(c, d, i)
      BY <1>4, <2>2
    <3> HIDE DEF d
    <3> QED BY <3>1 DEF Less, Same, Holds
  <2> QED BY <2>1, <2>2
<1>6. Exact(d) /\ d.has_shift = c.has_shift
  BY <1>2, <1>3 DEF Behind
<1> QED BY <1>4, <1>5, <1>6

IsToken(t) == t.pos \in Nat /\ t.seqs \in SUBSET Seqs

\* What was in the cell is evicted.
LEMMA PlaceExact ==
  ASSUME NEW c, Exact(c), NEW i \in Idx, NEW t, IsToken(t)
  PROVE  /\ Exact(Place(c, i, t)) /\ Place(c, i, t).has_shift = c.has_shift
         /\ Holds(Place(c, i, t), i, t.pos, t.seqs, 0) /\ \A j \in Idx \ {i} : Same(c, Place(c, i, t), j)
<1> DEFINE free == IF is_empty(c, i) THEN c ELSE rm(c, i)
           b == pos_set(free, i, t.pos)
<1>1. Exact(free) /\ free.pos[i] = -1 /\ free.has_shift = c.has_shift /\ \A j \in Idx \ {i} : Same(c, free, j)
  <2>1. Exact(rm(c, i)) /\ rm(c, i).has_shift = c.has_shift /\ rm(c, i).pos[i] = -1 /\ \A j \in Idx \ {i} : Same(c, rm(c, i), j)
    <3>1. Exact(rm(c, i)) /\ rm(c, i).has_shift = c.has_shift /\ Cell(c, rm(c, i), i, -1, {}, 0)
      BY RmExact
    <3>2. Holds(rm(c, i), i, -1, {}, 0) /\ \A j \in Idx \ {i} : Same(c, rm(c, i), j)
      BY <3>1, CellIs
    <3> QED BY <3>1, <3>2 DEF Holds
  <2>2. \A j \in Idx : Same(c, c, j)
    BY DEF Same, Holds
  <2> QED BY <2>1, <2>2 DEF is_empty
<1> HIDE DEF free
<1>2. Exact(b) /\ b.has_shift = c.has_shift /\ Cell(free, b, i, t.pos, {}, 0)
  BY <1>1, PosSetExact DEF IsToken
<1>3. b.pos[i] = t.pos /\ b.seq[i] = {} /\ b.shift[i] = 0 /\ \A j \in Idx \ {i} : Same(free, b, j)
  BY <1>1, <1>2, CellIs DEF Holds
<1>4. b.pos[i] # -1 /\ t.seqs \in SUBSET Seqs
  BY <1>3 DEF IsToken
<1>5. Place(c, i, t) = InAll(b, i, t.seqs)
  BY DEF Place, free, InAll
<1> HIDE DEF b
<1>6. LET e == InAll(b, i, t.seqs)
      IN /\ Exact(e) /\ e.has_shift = b.has_shift
         /\ Holds(e, i, t.pos, t.seqs, 0) /\ \A j \in Idx \ {i} : Same(b, e, j)
  BY <1>2, <1>3, <1>4, PlaceEach
<1>7. \A j \in Idx \ {i} : Same(c, Place(c, i, t), j)
  BY <1>1, <1>3, <1>5, <1>6 DEF Same, Holds
<1> QED BY <1>2, <1>5, <1>6, <1>7

\* Nothing that is purged is counted any more.
LEMMA PurgeExact ==
  ASSUME NEW c, Exact(c), NEW s, NEW p
  PROVE  /\ Exact(Purge(c, s, p)) /\ Purge(c, s, p).has_shift = c.has_shift
         /\ \A i \in Idx : Less(c, Purge(c, s, p), i)
         /\ p = -1 \/ Sliding => Purge(c, s, p) = c
<1>1. \A i \in Idx : Less(c, c, i)
  BY DEF Less, Holds
<1> QED BY <1>1, WithoutExact DEF Purge

\* What is lost is not found again.
LEMMA LessLess == ASSUME NEW c, NEW d, NEW e, NEW i, Less(c, d, i), Less(d, e, i) PROVE Less(c, e, i)
<1>1. CASE Gone(e, i)
  BY <1>1 DEF Less
<1>2. CASE ~Gone(e, i)
  <2>1. Holds(e, i, d.pos[i], e.seq[i], d.shift[i]) /\ e.seq[i] \subseteq d.seq[i] /\ (e.seq[i] = {} => d.seq[i] = {})
    BY <1>2 DEF Less
  <2>2. ~Gone(d, i)
    BY <1>2, <2>1 DEF Gone, Holds
  <2>3. Holds(d, i, c.pos[i], d.seq[i], c.shift[i]) /\ d.seq[i] \subseteq c.seq[i] /\ (d.seq[i] = {} => c.seq[i] = {})
    BY <2>2 DEF Less
  <2> QED BY <2>1, <2>3 DEF Less, Holds
<1> QED BY <1>1, <1>2

PurgedAll(c, e, slot) == Each(e, Seqs, LAMBDA s, d : Purge(d, s, Max({-1} \union {c.pos[slot[k]] : k \in {k \in DOMAIN slot : seq_has(c, slot[k], s)}})))

\* Each sequence is purged.
LEMMA PurgeEach ==
  ASSUME NEW c, NEW slot, NEW e, Exact(e)
  PROVE  LET p == PurgedAll(c, e, slot)
         IN /\ Exact(p) /\ p.has_shift = e.has_shift
            /\ \A i \in Idx : Less(e, p, i)
            /\ Sliding \/ (\A k \in DOMAIN slot : c.seq[slot[k]] = {}) => p = e
<1> DEFINE Good(t, d) == /\ Exact(d) /\ d.has_shift = e.has_shift
                         /\ \A i \in Idx : Less(e, d, i)
                         /\ Sliding \/ (\A k \in DOMAIN slot : c.seq[slot[k]] = {}) => d = e
           P == {y \in (SUBSET Seqs) \X CellStates : Good(y[1], y[2])}
           Step(x, d) == Purge(d, x, Max({-1} \union {c.pos[slot[k]] : k \in {k \in DOMAIN slot : seq_has(c, slot[k], x)}}))
           F == [y \in Seqs \X CellStates |-> IF Step(y[1], y[2]) \in CellStates THEN Step(y[1], y[2]) ELSE y[2]]
           E(h) == [t \in SUBSET Seqs |-> IF t = {} THEN e ELSE Step(Chosen(t), h[t \ {Chosen(t)}])]
<1>1. F \in [Seqs \X CellStates -> CellStates]
  <2> HIDE DEF Step
  <2> QED OBVIOUS
<1>2. IsFiniteSet(Seqs) /\ e \in CellStates /\ Good({}, e)
  BY SeqsAssumption, StatesFacts DEF Less, Holds
<1>3. ASSUME NEW t \in SUBSET Seqs, NEW x \in Seqs \ t, NEW d \in CellStates, Good(t, d)
      PROVE  Good(t \cup {x}, Step(x, d)) /\ Step(x, d) \in CellStates
  <2> DEFINE p == Max({-1} \union {c.pos[slot[k]] : k \in {k \in DOMAIN slot : seq_has(c, slot[k], x)}})
  <2>1. Exact(d) /\ d.has_shift = e.has_shift /\ \A i \in Idx : Less(e, d, i)
    BY <1>3
  <2>2. (\A k \in DOMAIN slot : c.seq[slot[k]] = {}) => p = -1
    <3> SUFFICES ASSUME \A k \in DOMAIN slot : c.seq[slot[k]] = {} PROVE p = -1
      OBVIOUS
    <3>1. {k \in DOMAIN slot : seq_has(c, slot[k], x)} = {}
      BY DEF seq_has
    <3>2. {-1} \union {c.pos[slot[k]] : k \in {}} = {-1}
      OBVIOUS
    <3>3. Max({-1}) = -1
      BY DEF Max
    <3> QED BY <3>1, <3>2, <3>3
  <2> HIDE DEF p
  <2>3. /\ Exact(Purge(d, x, p)) /\ Purge(d, x, p).has_shift = d.has_shift
        /\ \A i \in Idx : Less(d, Purge(d, x, p), i)
        /\ p = -1 \/ Sliding => Purge(d, x, p) = d
    BY <2>1, PurgeExact
  <2>4. \A i \in Idx : Less(e, Purge(d, x, p), i)
    BY <2>1, <2>3, LessLess
  <2>5. Sliding \/ (\A k \in DOMAIN slot : c.seq[slot[k]] = {}) => Purge(d, x, p) = e
    BY <1>3, <2>2, <2>3
  <2> QED BY <2>1, <2>3, <2>4, <2>5, StatesFacts DEF p
<1> HIDE DEF Good, Step
<1>4. PICK g : Folds(g, Seqs, CellStates, e, F) /\ \A t \in SUBSET Seqs : Good(t, g[t])
  <2>1. <<{}, e>> \in P
    BY <1>2
  <2>2. Preserves(P, Seqs, CellStates, e, F)
    BY <1>1, <1>2, <1>3, <2>1 DEF Preserves
  <2> HIDE DEF F
  <2>3. \A t, d : <<t, d>> \in P => Good(t, d)
    OBVIOUS
  <2> HIDE DEF P
  <2>4. PICK g : Folds(g, Seqs, CellStates, e, F) /\ \A t \in SUBSET Seqs : <<t, g[t]>> \in P
    BY <2>2, FoldKeeps
  <2> QED BY <2>3, <2>4
<1>5. g = E(g)
  <2>1. ASSUME NEW t \in SUBSET Seqs, t # {} PROVE g[t] = Step(Chosen(t), g[t \ {Chosen(t)}])
    <3>1. Chosen(t) \in t /\ t \ {Chosen(t)} \in SUBSET Seqs
      BY <2>1 DEF Chosen
    <3>2. /\ Chosen(t) \in Seqs \ (t \ {Chosen(t)}) /\ Good(t \ {Chosen(t)}, g[t \ {Chosen(t)}])
          /\ g[t \ {Chosen(t)}] \in CellStates
      BY <1>4, <3>1 DEF Folds
    <3>3. g[t] = F[<<Chosen(t), g[t \ {Chosen(t)}]>>]
      BY <1>4, <2>1 DEF Folds
    <3> QED BY <1>3, <3>1, <3>2, <3>3
  <2> QED BY <1>4, <2>1 DEF Folds
<1>6. ASSUME NEW h, h = E(h) PROVE h[Seqs] = g[Seqs]
  <2> DEFINE T == {t \in SUBSET Seqs : h[t] = g[t]}
  <2>1. {} \in T
    BY <1>5, <1>6
  <2>2. ASSUME NEW t \in SUBSET Seqs, t # {}, t \ {Chosen(t)} \in T PROVE t \in T
    BY <1>5, <1>6, <2>2, ZenonT(60)
  <2> HIDE DEF T, E
  <2>3. SUBSET Seqs \subseteq T
    BY <1>2, <2>1, <2>2, SubsetInduction
  <2> QED BY <2>3 DEF T
<1>7. PurgedAll(c, e, slot) = (CHOOSE h : h = E(h))[Seqs]
  BY DEF Each, FoldSet, MapThenFoldSet, Chosen, Step, PurgedAll
<1> HIDE DEF E
<1>8. (CHOOSE h : h = E(h))[Seqs] = g[Seqs]
  BY <1>5, <1>6
<1>9. Good(Seqs, PurgedAll(c, e, slot))
  BY <1>4, <1>7, <1>8
<1> QED BY <1>9 DEF Good

PlacedUpto(c, slot, toks) ==
  LET placed[k \in 0 .. Len(slot)] ==
        IF k = 0 THEN c ELSE Place(placed[k - 1], slot[k], toks[k])
  IN placed

\* The cells of a slot differ.
Apart(slot) == \A j, k \in 1 .. Len(slot) : slot[j] = slot[k] => j = k

\* The tokens of a micro-batch are placed one after the other.
LEMMA PlacedExact ==
  ASSUME NEW c, Exact(c), NEW slot \in Seq(Idx), Apart(slot), NEW toks, \A k \in 1 .. Len(slot) : IsToken(toks[k])
  PROVE  LET e == PlacedUpto(c, slot, toks)[Len(slot)]
         IN /\ Exact(e) /\ e.has_shift = c.has_shift
            /\ \A k \in 1 .. Len(slot) : Holds(e, slot[k], toks[k].pos, toks[k].seqs, 0)
            /\ \A i \in Idx : (\A k \in 1 .. Len(slot) : slot[k] # i) => Same(c, e, i)
<1> DEFINE n == Len(slot)
           Good(k, d) == /\ Exact(d) /\ d.has_shift = c.has_shift
                         /\ \A j \in 1 .. k : Holds(d, slot[j], toks[j].pos, toks[j].seqs, 0)
                         /\ \A i \in Idx : (\A j \in 1 .. k : slot[j] # i) => Same(c, d, i)
           P == {y \in (0 .. n) \X CellStates : Good(y[1], y[2])}
           Step(k, d) == Place(d, slot[k], toks[k])
           G == [y \in (1 .. n) \X CellStates |-> IF Step(y[1], y[2]) \in CellStates THEN Step(y[1], y[2]) ELSE y[2]]
           E(h) == [k \in 0 .. n |-> IF k = 0 THEN c ELSE Step(k, h[k - 1])]
<1>0. PlacedUpto(c, slot, toks) = CHOOSE h : h = E(h)
  BY DEF PlacedUpto
<1>1. n \in Nat /\ c \in CellStates /\ Good(0, c)
  BY StatesFacts DEF Same, Holds
<1>2. ASSUME NEW k \in 1 .. n, NEW d \in CellStates, Good(k - 1, d)
      PROVE  Good(k, Step(k, d)) /\ Step(k, d) \in CellStates
  <2>1. Exact(d) /\ slot[k] \in Idx /\ IsToken(toks[k]) /\ k \in Nat /\ k >= 1 /\ k <= n
    BY <1>2
  <2> DEFINE x == Place(d, slot[k], toks[k])
  <2>2. /\ Exact(x) /\ x.has_shift = d.has_shift
        /\ Holds(x, slot[k], toks[k].pos, toks[k].seqs, 0) /\ \A j \in Idx \ {slot[k]} : Same(d, x, j)
    BY <2>1, PlaceExact
  <2> HIDE DEF x
  <2>3. \A j \in 1 .. k : j \in 1 .. n /\ slot[j] \in Idx /\ (j = k \/ (j \in 1 .. k - 1 /\ slot[j] # slot[k]))
    <3> TAKE j \in 1 .. k
    <3>1. j \in 1 .. n /\ slot[j] \in Idx /\ (j = k \/ j \in 1 .. k - 1)
      BY <2>1
    <3> QED BY <1>2, <3>1 DEF Apart
  <2>4. \A j \in 1 .. k : Holds(x, slot[j], toks[j].pos, toks[j].seqs, 0)
    <3> TAKE j \in 1 .. k
    <3>1. CASE j = k
      BY <2>2, <3>1
    <3>2. CASE j # k
      <4>1. Holds(d, slot[j], toks[j].pos, toks[j].seqs, 0) /\ Same(d, x, slot[j])
        BY <1>2, <2>2, <2>3, <3>2
      <4> QED BY <4>1 DEF Holds, Same
    <3> QED BY <3>1, <3>2
  <2>5. \A i \in Idx : (\A j \in 1 .. k : slot[j] # i) => Same(c, x, i)
    <3> TAKE i \in Idx
    <3> HAVE \A j \in 1 .. k : slot[j] # i
    <3>1. k \in 1 .. k /\ \A j \in 1 .. k - 1 : j \in 1 .. k
      BY <2>1
    <3>2. Same(c, d, i) /\ Same(d, x, i)
      BY <1>2, <2>2, <3>1
    <3> QED BY <3>2 DEF Holds, Same
  <2>6. x \in CellStates
    BY <2>2, StatesFacts
  <2> QED BY <1>2, <2>2, <2>4, <2>5, <2>6 DEF x
<1> HIDE DEF Good, Step, n
<1>3. G \in [(1 .. n) \X CellStates -> CellStates]
  OBVIOUS
<1>4. Advances(P, n, CellStates, c, G)
  <2>1. <<0, c>> \in P
    BY <1>1
  <2>2. \A k \in 1 .. n : \A d \in CellStates : <<k - 1, d>> \in P => <<k, G[<<k, d>>]>> \in P
    <3> TAKE k \in 1 .. n
    <3> TAKE d \in CellStates
    <3> HAVE <<k - 1, d>> \in P
    <3>1. Good(k - 1, d) /\ k \in 0 .. n
      BY <1>1
    <3> QED BY <1>2, <3>1
  <2> HIDE DEF P, G
  <2> QED BY <1>1, <1>3, <2>1, <2>2 DEF Advances
<1>5. \A k, d : <<k, d>> \in P => Good(k, d)
  OBVIOUS
<1>6. \A k \in 1 .. n, d \in CellStates : Good(k - 1, d) => G[<<k, d>>] = Step(k, d)
  BY <1>2
<1> HIDE DEF P, G
<1>7. PICK g : Walks(g, n, CellStates, c, G) /\ \A k \in 0 .. n : <<k, g[k]>> \in P
  BY <1>4, WalkKeeps
<1>8. \A k \in 1 .. n : g[k] = Step(k, g[k - 1]) /\ k - 1 \in 0 .. n
  <2> TAKE k \in 1 .. n
  <2>1. k - 1 \in 0 .. n
    BY <1>1
  <2>2. Good(k - 1, g[k - 1]) /\ g[k - 1] \in CellStates
    BY <1>5, <1>7, <2>1 DEF Walks
  <2> QED BY <1>6, <1>7, <2>1, <2>2 DEF Walks
<1>9. g = E(g)
  <2>1. \A k \in 0 .. n : k = 0 \/ k \in 1 .. n
    BY <1>1
  <2> QED BY <1>7, <1>8, <2>1 DEF Walks
<1>10. ASSUME NEW h, h = E(h) PROVE \A k \in 0 .. n : h[k] = g[k]
  <2> DEFINE T == {k \in Nat : k <= n => h[k] = g[k]}
  <2>1. 0 \in T
    BY <1>1, <1>9, <1>10
  <2>2. ASSUME NEW k \in Nat, k \in T PROVE k + 1 \in T
    <3>1. k + 1 <= n => k + 1 \in 1 .. n /\ k + 1 \in 0 .. n /\ (k + 1) - 1 = k /\ k <= n
      BY <1>1
    <3>2. k + 1 <= n => h[k + 1] = Step(k + 1, h[k])
      BY <1>10, <3>1
    <3> QED BY <1>8, <2>2, <3>1, <3>2
  <2> HIDE DEF T, E
  <2>3. Nat \subseteq T
    BY <2>1, <2>2, SetInduction
  <2>4. \A k \in 0 .. n : k \in Nat /\ k <= n
    BY <1>1
  <2> QED BY <2>3, <2>4 DEF T
<1> HIDE DEF E
<1>11. \A k \in 0 .. n : (CHOOSE h : h = E(h))[k] = g[k]
  BY <1>9, <1>10
<1>12. \A k \in 0 .. n : PlacedUpto(c, slot, toks)[k] = g[k]
  BY <1>0, <1>11
<1>13. \A k \in 0 .. n : Good(k, PlacedUpto(c, slot, toks)[k])
  BY <1>5, <1>7, <1>12
<1>14. \A k \in 1 .. n : PlacedUpto(c, slot, toks)[k] = Step(k, PlacedUpto(c, slot, toks)[k - 1])
  <2> TAKE k \in 1 .. n
  <2>1. k \in 0 .. n /\ k - 1 \in 0 .. n
    BY <1>1
  <2> QED BY <1>8, <1>12, <2>1
<1>15. PlacedUpto(c, slot, toks)[0] = c /\ n \in 0 .. n
  BY <1>1, <1>7, <1>12 DEF Walks
<1> QED BY <1>13, <1>14, <1>15 DEF Good, Step, n

\* The cell i has the token t, unless it was purged.
Takes(d, i, t) == \/ Gone(d, i)
                  \/ /\ Holds(d, i, t.pos, d.seq[i], 0)
                     /\ d.seq[i] \subseteq t.seqs /\ (d.seq[i] = {} => t.seqs = {})

\* The tokens are in the cells of the slot, and the others are as before.
Adds(c, d, slot, toks) ==
  /\ \A k \in 1 .. Len(slot) : Holds(d, slot[k], toks[k].pos, toks[k].seqs, 0)
  /\ \A i \in Idx : (\A k \in 1 .. Len(slot) : slot[k] # i) => Same(c, d, i)

\* apply_ubatch on one stream.
LEMMA ApplyExact ==
  ASSUME NEW c, Exact(c), NEW slot \in Seq(Idx), Apart(slot), NEW toks, \A k \in 1 .. Len(slot) : IsToken(toks[k])
  PROVE  /\ Exact(ApplyIn(c, slot, toks)) /\ ApplyIn(c, slot, toks).has_shift = c.has_shift
         /\ \A k \in 1 .. Len(slot) : Takes(ApplyIn(c, slot, toks), slot[k], toks[k])
         /\ \A i \in Idx : (\A k \in 1 .. Len(slot) : slot[k] # i) => Less(c, ApplyIn(c, slot, toks), i)
         /\ Sliding \/ (\A k \in 1 .. Len(slot) : c.seq[slot[k]] = {}) =>
              Adds(c, ApplyIn(c, slot, toks), slot, toks)
<1>1. ApplyIn(c, slot, toks) = PurgedAll(c, PlacedUpto(c, slot, toks)[Len(slot)], slot)
  BY DEF ApplyIn, PurgedAll, PlacedUpto, Each, FoldSet, MapThenFoldSet
<1> DEFINE e == PlacedUpto(c, slot, toks)[Len(slot)]
           p == PurgedAll(c, e, slot)
<1>2. Exact(e) /\ e.has_shift = c.has_shift /\ Adds(c, e, slot, toks)
  BY PlacedExact DEF Adds
<1> HIDE DEF e
<1>3. DOMAIN slot = 1 .. Len(slot) /\ \A k \in 1 .. Len(slot) : slot[k] \in Idx
  OBVIOUS
<1>4. /\ Exact(p) /\ p.has_shift = e.has_shift /\ \A i \in Idx : Less(e, p, i)
      /\ Sliding \/ (\A k \in 1 .. Len(slot) : c.seq[slot[k]] = {}) => p = e
  BY <1>2, <1>3, PurgeEach
<1> HIDE DEF p
<1>5. \A k \in 1 .. Len(slot) : Takes(p, slot[k], toks[k])
  <2> TAKE k \in 1 .. Len(slot)
  <2>1. Less(e, p, slot[k]) /\ Holds(e, slot[k], toks[k].pos, toks[k].seqs, 0)
    BY <1>2, <1>3, <1>4 DEF Adds
  <2> QED BY <2>1 DEF Less, Holds, Takes
<1>6. \A i \in Idx : (\A k \in 1 .. Len(slot) : slot[k] # i) => Less(c, p, i)
  <2> TAKE i \in Idx
  <2> HAVE \A k \in 1 .. Len(slot) : slot[k] # i
  <2>1. Same(c, e, i) /\ Less(e, p, i)
    BY <1>2, <1>4 DEF Adds
  <2> QED BY <2>1 DEF Less, Same, Holds
<1> QED BY <1>1, <1>2, <1>4, <1>5, <1>6 DEF p, e

-----------------------------------------------------------------------------
(***************************************************************************)
(* Slots and micro-batches.                                                *)
(***************************************************************************)
\* A finite set of numbers can be put in order.
LEMMA IncreasingFacts ==
  ASSUME NEW S \in SUBSET Int, IsFiniteSet(S)
  PROVE  /\ Cardinality(S) \in Nat /\ DOMAIN Increasing(S) = 1 .. Cardinality(S)
         /\ \A k \in 1 .. Cardinality(S) : Increasing(S)[k] \in S
         /\ \A j, k \in 1 .. Cardinality(S) : Increasing(S)[j] = Increasing(S)[k] => j = k
         /\ \A i \in S : \E k \in 1 .. Cardinality(S) : Increasing(S)[k] = i
         /\ S # {} => \E i \in S : \A j \in S : j <= i
<1> DEFINE n == Cardinality(S)
           Below(i) == {j \in S : j <= i}
           r == [i \in S |-> Cardinality(Below(i))]
<1>1. n \in Nat /\ \A i \in S : IsFiniteSet(Below(i)) /\ Cardinality(Below(i)) \in Nat /\ Cardinality(Below(i)) <= n
                               /\ (Cardinality(Below(i)) = n => Below(i) = S)
  BY FS_CardinalityType, FS_Subset
<1>2. \A i \in S : Cardinality(Below(i)) # 0
  <2>1. \A i \in S : i \in Below(i)
    OBVIOUS
  <2> HIDE DEF Below
  <2> QED BY <1>1, <2>1, FS_EmptySet
<1>3. ASSUME NEW i \in S, NEW j \in S, i < j PROVE Cardinality(Below(i)) < Cardinality(Below(j))
  <2>1. Below(i) \subseteq Below(j) /\ j \in Below(j) /\ j \notin Below(i)
    <3>1. i \in Int /\ j \in Int /\ \A x \in S : x \in Int
      OBVIOUS
    <3>2. \A x \in S : x <= i => x <= j
      BY <1>3, <3>1
    <3>3. ~(j <= i) /\ j <= j
      BY <1>3, <3>1
    <3> QED BY <3>2, <3>3
  <2> HIDE DEF Below
  <2>2. Below(i) \in SUBSET Below(j) /\ Below(i) # Below(j)
    BY <2>1
  <2> QED BY <1>1, <2>2, FS_Subset
<1>4. IsFiniteSet(1 .. n) /\ Cardinality(1 .. n) = n
  BY <1>1, FS_Interval
<1> HIDE DEF Below, n
<1>5. r \in Injection(S, 1 .. n)
  <2>1. r \in [S -> 1 .. n]
    BY <1>1, <1>2
  <2>2. \A i, j \in S : i # j => r[i] # r[j]
    BY <1>1, <1>3
  <2> HIDE DEF r
  <2> QED BY <2>1, <2>2 DEF Injection, IsInjective
<1>6. r \in Surjection(S, 1 .. n)
  BY <1>4, <1>5, FS_Injection DEF n
<1>7. \A k \in 1 .. n : \E i \in S : Cardinality(Below(i)) = k
  BY <1>6 DEF Surjection
<1>8. S # {} => \E i \in S : Below(i) = S
  <2>1. S # {} => n \in 1 .. n
    BY <1>1, FS_EmptySet DEF n
  <2> QED BY <1>1, <1>7, <2>1
<1> DEFINE q == [k \in 1 .. n |-> CHOOSE i \in S : Cardinality(Below(i)) = k]
<1>9. \A k \in 1 .. n : q[k] \in S /\ Cardinality(Below(q[k])) = k
  BY <1>7
<1>10. \A j, k \in 1 .. n : q[j] = q[k] => j = k
  BY <1>9
<1>11. \A i \in S : \E k \in 1 .. n : q[k] = i
  <2> TAKE i \in S
  <2> DEFINE k == Cardinality(Below(i))
  <2>1. k \in 1 .. n
    BY <1>1, <1>2
  <2>2. q[k] \in S /\ Cardinality(Below(q[k])) = Cardinality(Below(i))
    BY <1>9, <2>1
  <2>3. q[k] = i
    <3>1. \A a, b \in S : a = b \/ a < b \/ b < a
      OBVIOUS
    <3>2. \A a, b \in S : Cardinality(Below(a)) = Cardinality(Below(b)) => a = b
      BY <1>1, <1>3, <3>1
    <3> HIDE DEF q, k
    <3> QED BY <2>2, <3>2
  <2> QED BY <2>1, <2>3
<1>12. q = Increasing(S)
  BY DEF Increasing, Below, n
<1> HIDE DEF q
<1> QED BY <1>1, <1>8, <1>9, <1>10, <1>11, <1>12 DEF Below, n, Increasing

\* Such a set has a largest element.
LEMMA MaxFacts ==
  ASSUME NEW S \in SUBSET Int, IsFiniteSet(S), S # {}
  PROVE  Max(S) \in S /\ \A j \in S : j <= Max(S)
<1>1. PICK i \in S : \A j \in S : i >= j
  BY IncreasingFacts
<1> QED BY <1>1 DEF Max

\* And one of natural numbers a smallest.
LEMMA MinFacts ==
  ASSUME NEW S \in SUBSET Nat, S # {}
  PROVE  Min(S) \in S /\ \A j \in S : Min(S) <= j
<1>1. PICK i \in S : \A j \in S : i <= j
  BY LeastNatural
<1> QED BY <1>1 DEF Min

\* The last position of a sequence, -1 if it has no token.
LEMMA PosMaxFacts ==
  ASSUME NEW c, Exact(c), NEW s \in Seqs
  PROVE  seq_pos_max(c, s) \in Int /\ seq_pos_max(c, s) >= -1
<1> DEFINE P == BagToSet(c.seq_pos[s])
           J == {j \in Idx : s \in c.seq[j]}
<1>1. P = Seen(c.pos, c.seq, s)
  BY ExactIs DEF Exact, Hist, BagToSet
<1>2. c.pos \in [Idx -> Int] /\ \A i \in Idx : c.pos[i] >= -1
  BY DEF Exact, CellsType
<1>3. P \in SUBSET Int /\ \A p \in P : p >= -1
  BY <1>1, <1>2 DEF Seen
<1>4. IsFiniteSet(P)
  <2>1. IsFiniteSet(J)
    BY IdxFinite, FS_Subset
  <2> DEFINE f == [j \in J |-> c.pos[j]]
  <2>2. f \in Surjection(J, P)
    BY <1>1 DEF Seen, Surjection
  <2> HIDE DEF J, P, f
  <2> QED BY <2>1, <2>2, FS_Surjection
<1> HIDE DEF P
<1>5. seq_pos_max(c, s) = IF P = {} THEN -1 ELSE Max(P)
  BY DEF P, seq_pos_max
<1>6. P # {} => Max(P) \in P
  BY <1>3, <1>4, MaxFacts
<1>7. \A p \in P : p \in Int /\ p >= -1
  BY <1>3
<1>8. CASE P = {}
  BY <1>5, <1>8
<1>9. CASE P # {}
  BY <1>5, <1>6, <1>7, <1>9
<1> QED BY <1>8, <1>9

\* Some of the cells may be used, and all in a sliding prefix that needs them.
LEMMA SizeFacts ==
  ASSUME NEW pre \in Int, Sliding
  PROVE  prefix_sliding_size(pre) \in 1 .. NCells
<1> DEFINE m == IF pre > 0 THEN pre ELSE 0
           x == m + PrefixWindow - 1 + NUbatch
<1>1. Max({0, pre}) = m
  BY DEF Max
<1>2. x \in Nat /\ x >= 1 /\ NCells \in Nat /\ NCells >= 1
  BY ArgumentsAssumption, DecodeAssumption, CellsAssumption DEF Sliding
<1>3. prefix_sliding_size(pre) = Min({NCells, x})
  BY <1>1 DEF prefix_sliding_size
<1> HIDE DEF x
<1>4. {NCells, x} \in SUBSET Nat /\ {NCells, x} # {}
  BY <1>2
<1>5. Min({NCells, x}) \in {NCells, x} /\ Min({NCells, x}) <= NCells
  BY <1>4, MinFacts
<1> QED BY <1>2, <1>3, <1>5

\* A remainder is smaller than what was divided by.
LEMMA ModFacts == ASSUME NEW a \in Nat, NEW b \in Nat \ {0} PROVE (a % b) \in 0 .. b - 1
OBVIOUS

\* Once round is back at the same place.
LEMMA ModOnce ==
  ASSUME NEW a \in Nat, NEW b \in Nat \ {0}, a < 2 * b
  PROVE  a % b = IF a < b THEN a ELSE a - b
<1>1. CASE a < b
  BY <1>1
<1>2. CASE a >= b
  BY <1>2
<1> QED BY <1>1, <1>2

\* The search goes over the cells below size.
LEMMA OrderFacts ==
  ASSUME NEW h \in Nat, NEW used, NEW n, NEW size \in 1 .. NCells
  PROVE  /\ CellsFrom(h, used, n, size) \in [1 .. size -> 0 .. size - 1]
         /\ \A j, k \in 1 .. size : CellsFrom(h, used, n, size)[j] = CellsFrom(h, used, n, size)[k] => j = k
<1> DEFINE start == IF h >= size \/ h > used + 2 * n THEN 0 ELSE h
<1>1. start \in Nat /\ size \in Nat \ {0} /\ start < size
  BY CellsAssumption
<1>2. CellsFrom(h, used, n, size) = [k \in 1 .. size |-> (start + k - 1) % size]
  BY DEF CellsFrom
<1> HIDE DEF start
<1>3. ASSUME NEW k \in 1 .. size PROVE (start + k - 1) % size \in 0 .. size - 1
  <2>1. start + k - 1 \in Nat
    BY <1>1
  <2> QED BY <1>1, <2>1, ModFacts
<1>4. ASSUME NEW j \in 1 .. size, NEW k \in 1 .. size, (start + j - 1) % size = (start + k - 1) % size PROVE j = k
  <2> DEFINE a == start + j - 1
             b == start + k - 1
  <2>1. a \in Nat /\ b \in Nat /\ a < 2 * size /\ b < 2 * size /\ a - b = j - k
    BY <1>1
  <2> HIDE DEF a, b
  <2>2. a % size = (IF a < size THEN a ELSE a - size) /\ b % size = (IF b < size THEN b ELSE b - size)
    BY <1>1, <2>1, ModOnce
  <2>3. a % size = b % size
    BY <1>4 DEF a, b
  <2>4. a - b < size /\ b - a < size
    BY <1>1, <2>1
  <2> QED BY <1>1, <2>1, <2>2, <2>3, <2>4
<1> QED BY <1>2, <1>3, <1>4

\* A slot that is found has a cell of its own for each token.
IsSlot(slot, toks) == slot \in Seq(Idx) /\ Apart(slot) /\ Len(slot) = Len(toks) /\ Len(slot) \in Nat \ {0}

\* Its cells are adjacent.
Adjacent(slot) == \A k \in 1 .. Len(slot) : slot[k] = slot[1] + k - 1

\* What find_slot returns for one stream is a slot.
LEMMA SlotFacts ==
  ASSUME NEW c, NEW h \in Nat, NEW pre \in [Seqs -> Int], NEW toks, Len(toks) \in Nat,
         Len(toks) # 0 => toks[1].seqs \in SUBSET Seqs /\ toks[1].seqs # {},
         NEW cont \in BOOLEAN, SlotIn(c, h, pre, toks, cont) # NoSlot
  PROVE  LET slot == SlotIn(c, h, pre, toks, cont)
         IN /\ IsSlot(slot, toks)
            /\ \A k \in 1 .. Len(slot) : CanUse(c, pre, toks, slot[k])
            /\ cont => Adjacent(slot)
<1> DEFINE n       == Len(toks)
           s       == Min(toks[1].seqs)
           size    == IF Sliding THEN prefix_sliding_size(pre[s]) ELSE NCells
           order   == CellsFrom(h, get_used(c), n, size)
           RunAt(i) == i + n <= size /\ \A j \in i .. i + n - 1 : CanUse(c, pre, toks, j)
           K       == {k \in 1 .. size : CanUse(c, pre, toks, order[k])}
           J       == {k \in 1 .. size : RunAt(order[k])}
           slot    == SlotIn(c, h, pre, toks, cont)
<1>1. slot = IF cont THEN FirstRun(order, J, n) ELSE FirstCells(order, K, n)
  BY SMTT(40) DEF SlotIn
<1>2. slot = IF cont THEN [k \in 1 .. n |-> order[Min(J)] + k - 1]
             ELSE [k \in 1 .. n |-> order[Increasing(K)[k]]]
  BY <1>1 DEF FirstRun, FirstCells
<1>3. cont => J # {}
  BY <1>1 DEF FirstRun
<1>4. ~cont => Cardinality(K) >= n
  BY <1>1 DEF FirstCells
<1>5. n # 0
  <2> SUFFICES ASSUME n = 0 PROVE FALSE
    OBVIOUS
  <2>1. slot = [k \in 1 .. 0 |-> 0]
    BY <1>2
  <2>2. slot \in Seq(Int) /\ Len(slot) = 0
    BY <2>1
  <2> QED BY <2>2, EmptySeq DEF NoSlot
<1>6. size \in 1 .. NCells
  <2>1. s \in Seqs
    <3>1. toks[1].seqs \in SUBSET Nat /\ toks[1].seqs \subseteq Seqs /\ toks[1].seqs # {}
      BY <1>5, SeqsAssumption
    <3> QED BY <3>1, MinFacts
  <2>2. pre[s] \in Int
    BY <2>1
  <2> HIDE DEF s
  <2>3. Sliding => prefix_sliding_size(pre[s]) \in 1 .. NCells
    BY <2>2, SizeFacts
  <2>4. NCells \in 1 .. NCells
    BY CellsAssumption
  <2> QED BY <2>3, <2>4
<1> HIDE DEF size, slot, n
<1>7. order \in [1 .. size -> 0 .. size - 1] /\ size \in Nat /\ size >= 1 /\ size <= NCells /\ NCells \in Nat
      /\ \A j, k \in 1 .. size : order[j] = order[k] => j = k
  BY <1>6, OrderFacts, CellsAssumption
<1> HIDE DEF order
<1>9. n \in Nat
  BY DEF n
<1>8. /\ slot \in [1 .. n -> Idx] /\ \A j, k \in 1 .. n : slot[j] = slot[k] => j = k
      /\ \A k \in 1 .. n : CanUse(c, pre, toks, slot[k])
      /\ cont => \A k \in 1 .. n : slot[k] = slot[1] + k - 1
  <2>1. CASE cont
    <3>1. J \in SUBSET Nat /\ J # {}
      BY <1>3, <2>1
    <3>2. Min(J) \in J
      BY <3>1, MinFacts
    <3> DEFINE b == order[Min(J)]
    <3>3. b \in 0 .. size - 1 /\ b + n <= size /\ \A j \in b .. b + n - 1 : CanUse(c, pre, toks, j)
      BY <1>7, <3>2
    <3>4. slot = [k \in 1 .. n |-> b + k - 1]
      BY <1>2, <2>1
    <3> HIDE DEF b
    <3>5. \A k \in 1 .. n : b + k - 1 \in Idx /\ b + k - 1 \in b .. b + n - 1
      BY <1>7, <1>9, <3>3 DEF Idx
    <3>6. \A j, k \in 1 .. n : b + j - 1 = b + k - 1 => j = k
      BY <1>9, <3>3
    <3>7. 1 \in 1 .. n /\ b + 1 - 1 = b
      BY <1>5, <1>9, <3>3
    <3> QED BY <3>3, <3>4, <3>5, <3>6, <3>7
  <2>2. CASE ~cont
    <3>1. IsFiniteSet(K) /\ K \in SUBSET Int
      <4>0. size \in Int /\ 1 \in Int
        BY <1>7
      <4>1. IsFiniteSet(1 .. size)
        BY <4>0, FS_Interval
      <4>2. K \in SUBSET (1 .. size)
        OBVIOUS
      <4> HIDE DEF K
      <4>3. IsFiniteSet(K)
        BY <4>1, <4>2, FS_Subset
      <4> QED BY <4>2, <4>3
    <3> DEFINE q == Increasing(K)
    <3>2. /\ \A k \in 1 .. Cardinality(K) : q[k] \in K
          /\ \A j, k \in 1 .. Cardinality(K) : q[j] = q[k] => j = k
      BY <3>1, IncreasingFacts
    <3>3. \A k \in 1 .. n : k \in 1 .. Cardinality(K)
      BY <1>4, <1>9, <2>2, <3>1, FS_CardinalityType
    <3>4. \A k \in K : k \in 1 .. size /\ order[k] \in Idx /\ CanUse(c, pre, toks, order[k])
      BY <1>7 DEF Idx
    <3>5. slot = [k \in 1 .. n |-> order[q[k]]]
      BY <1>2, <2>2
    <3> HIDE DEF K, q
    <3>6. \A k \in 1 .. n : q[k] \in K
      BY <3>2, <3>3
    <3>7. \A j, k \in 1 .. n : order[q[j]] = order[q[k]] => j = k
      BY <1>7, <3>2, <3>3, <3>4, <3>6
    <3> QED BY <2>2, <3>4, <3>5, <3>6, <3>7
  <2> QED BY <2>1, <2>2
<1>10. slot \in Seq(Idx) /\ Len(slot) = n
  BY <1>8, <1>9
<1> QED BY <1>5, <1>8, <1>9, <1>10 DEF IsSlot, Apart, Adjacent, n, slot

-----------------------------------------------------------------------------
\* Cells of all streams whose derived members are exact.
AllExact(C)  == C \in [Streams -> CellStates] /\ \A st \in Streams : Exact(C[st])
Unshifted(C) == \A st \in Streams : ~C[st].has_shift
Heads        == [Streams -> 0 .. NCells]

\* Tokens to compute, micro-batches of them, and slots for these.
IsWork(t) == IsToken(t) /\ t.seqs # {} /\ t.pos <= MaxPos /\ t.tok \in Toks
IsUbatch(ub) ==
  /\ DOMAIN ub \subseteq Streams
  /\ \A st \in DOMAIN ub : /\ Len(ub[st]) \in Nat /\ DOMAIN ub[st] = 1 .. Len(ub[st])
                           /\ \A k \in 1 .. Len(ub[st]) : IsWork(ub[st][k])
Slots == UNION {[T -> Seq(Idx)] : T \in SUBSET Streams}
IsPlace(slot, ub) ==
  /\ slot \in [DOMAIN ub -> Seq(Idx)] /\ DOMAIN ub \subseteq Streams
  /\ \A st \in DOMAIN ub : /\ IsSlot(slot[st], ub[st]) /\ DOMAIN ub[st] = 1 .. Len(ub[st])
                           /\ \A k \in 1 .. Len(ub[st]) : IsWork(ub[st][k])

\* find_slot finds one for each stream, or none.
LEMMA FoundFacts ==
  ASSUME NEW C, NEW H \in Heads, NEW pre \in [Seqs -> Int], NEW ub, IsUbatch(ub),
         FindSlot(C, H, pre, ub) # NoSlot
  PROVE  LET slot == FindSlot(C, H, pre, ub)
         IN /\ IsPlace(slot, ub)
            /\ \A st \in DOMAIN ub : \A k \in 1 .. Len(slot[st]) : CanUse(C[st], pre, ub[st], slot[st][k])
<1> DEFINE all == [st \in DOMAIN ub |-> SlotIn(C[st], H[st], pre, ub[st], FALSE)]
<1>1. FindSlot(C, H, pre, ub) = all /\ \A st \in DOMAIN ub : all[st] # NoSlot
  BY DEF FindSlot, AllFound
<1>2. ASSUME NEW st \in DOMAIN ub PROVE /\ IsSlot(all[st], ub[st]) /\ all[st] \in Seq(Idx)
                                    /\ \A k \in 1 .. Len(all[st]) : CanUse(C[st], pre, ub[st], all[st][k])
  <2>1. H[st] \in Nat /\ Len(ub[st]) \in Nat /\ all[st] = SlotIn(C[st], H[st], pre, ub[st], FALSE)
    BY CellsAssumption DEF IsUbatch, Heads
  <2>2. Len(ub[st]) # 0 => ub[st][1].seqs \in SUBSET Seqs /\ ub[st][1].seqs # {}
    BY <2>1 DEF IsUbatch, IsToken, IsWork
  <2>3. all[st] # NoSlot
    BY <1>1
  <2> HIDE DEF all
  <2>4. IsSlot(all[st], ub[st]) /\ \A k \in 1 .. Len(all[st]) : CanUse(C[st], pre, ub[st], all[st][k])
    <3> DEFINE c    == C[st]
               h    == H[st]
               toks == ub[st]
               slot == SlotIn(c, h, pre, toks, FALSE)
    <3>1. h \in Nat /\ Len(toks) \in Nat /\ all[st] = slot /\ slot # NoSlot
      BY <2>1, <2>3
    <3>2. Len(toks) # 0 => toks[1].seqs \in SUBSET Seqs /\ toks[1].seqs # {}
      BY <2>2
    <3> HIDE DEF c, h, toks
    <3>3. IsSlot(slot, toks) /\ \A k \in 1 .. Len(slot) : CanUse(c, pre, toks, slot[k])
      BY <3>1, <3>2, SlotFacts
    <3> QED BY <3>1, <3>3 DEF c, toks
  <2> QED BY <2>4 DEF IsSlot
<1>3. all \in [DOMAIN ub -> Seq(Idx)]
  BY <1>2
<1> HIDE DEF all
<1> QED BY <1>1, <1>2, <1>3 DEF IsPlace, IsUbatch

\* Not a cell of the slot.
Outside(slot, st, i) == st \notin DOMAIN slot \/ \A k \in 1 .. Len(slot[st]) : slot[st][k] # i

\* Nothing is purged for this slot.
Quiet(C, slot) == Sliding \/ \A st \in DOMAIN slot : \A k \in 1 .. Len(slot[st]) : C[st].seq[slot[st][k]] = {}

\* What a micro-batch does to the cells: its tokens take theirs, and others are purged, if any.
Applied(C, D, slot, ub) ==
  /\ \A st \in DOMAIN ub : \A k \in 1 .. Len(slot[st]) : Takes(D[st], slot[st][k], ub[st][k])
  /\ \A st \in Streams, i \in Idx : Outside(slot, st, i) => Less(C[st], D[st], i)
  /\ Quiet(C, slot) =>
       /\ \A st \in Streams, i \in Idx : Outside(slot, st, i) => Same(C[st], D[st], i)
       /\ \A st \in DOMAIN ub : \A k \in 1 .. Len(slot[st]) :
            Holds(D[st], slot[st][k], ub[st][k].pos, ub[st][k].seqs, 0)

\* apply_ubatch on all streams.
LEMMA ApplyUbatchFacts ==
  ASSUME NEW C, AllExact(C), NEW slot, NEW ub, IsPlace(slot, ub)
  PROVE  LET D == apply_ubatch(C, slot, ub)
         IN /\ AllExact(D) /\ \A st \in Streams : D[st].has_shift = C[st].has_shift
            /\ Applied(C, D, slot, ub)
<1> DEFINE D == apply_ubatch(C, slot, ub)
<1>1. D = [st \in Streams |-> IF st \in DOMAIN ub THEN ApplyIn(C[st], slot[st], ub[st]) ELSE C[st]]
  BY DEF apply_ubatch
<1>2. ASSUME NEW st \in Streams PROVE Exact(D[st]) /\ D[st].has_shift = C[st].has_shift /\ D[st] \in CellStates
  <2>1. CASE st \in DOMAIN ub
    <3>1. slot[st] \in Seq(Idx) /\ Apart(slot[st]) /\ \A k \in 1 .. Len(slot[st]) : IsToken(ub[st][k])
      BY <2>1 DEF IsPlace, IsSlot, IsWork
    <3>2. Exact(C[st])
      BY DEF AllExact
    <3>3. Exact(ApplyIn(C[st], slot[st], ub[st])) /\ ApplyIn(C[st], slot[st], ub[st]).has_shift = C[st].has_shift
      BY <3>1, <3>2, ApplyExact
    <3> QED BY <1>1, <2>1, <3>3, StatesFacts
  <2>2. CASE st \notin DOMAIN ub
    BY <1>1, <2>2 DEF AllExact
  <2> QED BY <2>1, <2>2
<1>3. D \in [Streams -> CellStates]
  BY <1>1, <1>2
<1>5. DOMAIN slot = DOMAIN ub /\ DOMAIN ub \subseteq Streams
  BY DEF IsPlace
<1>6. ASSUME NEW st \in DOMAIN ub
      PROVE  LET d == D[st]
             IN /\ \A k \in 1 .. Len(slot[st]) : Takes(d, slot[st][k], ub[st][k])
                /\ \A i \in Idx : (\A k \in 1 .. Len(slot[st]) : slot[st][k] # i) => Less(C[st], d, i)
                /\ Sliding \/ (\A k \in 1 .. Len(slot[st]) : C[st].seq[slot[st][k]] = {}) => Adds(C[st], d, slot[st], ub[st])
  <2>1. slot[st] \in Seq(Idx) /\ Apart(slot[st]) /\ \A k \in 1 .. Len(slot[st]) : IsToken(ub[st][k])
    BY DEF IsPlace, IsSlot, IsWork
  <2>2. Exact(C[st]) /\ D[st] = ApplyIn(C[st], slot[st], ub[st])
    BY <1>1, <1>5 DEF AllExact
  <2> DEFINE a == ApplyIn(C[st], slot[st], ub[st])
  <2>3. /\ \A k \in 1 .. Len(slot[st]) : Takes(a, slot[st][k], ub[st][k])
        /\ \A i \in Idx : (\A k \in 1 .. Len(slot[st]) : slot[st][k] # i) => Less(C[st], a, i)
        /\ Sliding \/ (\A k \in 1 .. Len(slot[st]) : C[st].seq[slot[st][k]] = {}) => Adds(C[st], a, slot[st], ub[st])
    BY <2>1, <2>2, ApplyExact
  <2> HIDE DEF D
  <2> QED BY <2>2, <2>3
<1>7. \A st \in Streams : st \notin DOMAIN ub => D[st] = C[st]
  BY <1>1
<1> HIDE DEF D
<1>8. Applied(C, D, slot, ub)
  <2>1. \A st \in Streams, i \in Idx : Outside(slot, st, i) => Less(C[st], D[st], i)
    BY <1>5, <1>6, <1>7 DEF Outside, Less, Holds
  <2>2. Quiet(C, slot) => \A st \in Streams, i \in Idx : Outside(slot, st, i) => Same(C[st], D[st], i)
    BY <1>5, <1>6, <1>7 DEF Outside, Same, Holds, Quiet, Adds
  <2>3. Quiet(C, slot) => \A st \in DOMAIN ub : \A k \in 1 .. Len(slot[st]) : Holds(D[st], slot[st][k], ub[st][k].pos, ub[st][k].seqs, 0)
    BY <1>5, <1>6 DEF Quiet, Adds
  <2> QED BY <1>6, <2>1, <2>2, <2>3 DEF Applied
<1>4. AllExact(D) /\ \A st \in Streams : D[st].has_shift = C[st].has_shift
  BY <1>2, <1>3 DEF AllExact
<1> QED BY <1>4, <1>8 DEF D

\* "Move the head at the end of the slot."
LEMMA HeadsFacts ==
  ASSUME NEW H \in Heads, NEW slot, NEW ub, IsPlace(slot, ub)
  PROVE  HeadsAfter(H, slot) \in Heads
<1>1. ASSUME NEW st \in DOMAIN slot PROVE slot[st][Len(slot[st])] + 1 \in 0 .. NCells
  <2>1. slot[st] \in Seq(Idx) /\ Len(slot[st]) \in 1 .. Len(slot[st])
    BY DEF IsPlace, IsSlot
  <2>2. slot[st][Len(slot[st])] \in Idx
    BY <2>1
  <2> QED BY <2>2, CellsAssumption DEF Idx
<1> QED BY <1>1 DEF HeadsAfter, Heads

-----------------------------------------------------------------------------
(***************************************************************************)
(* Placing the micro-batches of a batch.                                   *)
(***************************************************************************)
\* What prepare knows after some micro-batches.
Placements == [ok : BOOLEAN, cells : [Streams -> CellStates], head : Heads, slots : Seq(Slots)]
GoodPlacement(ubs, k, b) ==
  /\ b \in Placements /\ AllExact(b.cells) /\ Unshifted(b.cells)
  /\ Len(b.slots) <= k /\ (b.ok => Len(b.slots) = k)
  /\ \A j \in 1 .. Len(b.slots) : IsPlace(b.slots[j], ubs[j])

\* One more micro-batch is placed, or not.
LEMMA PlacedInFacts ==
  ASSUME NEW ubs, NEW k \in Nat, NEW b, GoodPlacement(ubs, k - 1, b), k >= 1, NEW pre \in [Seqs -> Int], IsUbatch(ubs[k])
  PROVE  GoodPlacement(ubs, k, PlacedIn(b, FindSlot(b.cells, b.head, pre, ubs[k]), ubs[k]))
<1> DEFINE ub   == ubs[k]
           slot == FindSlot(b.cells, b.head, pre, ub)
           d    == PlacedIn(b, slot, ub)
<1>1. /\ b \in Placements /\ AllExact(b.cells) /\ Unshifted(b.cells)
      /\ Len(b.slots) <= k - 1 /\ (b.ok => Len(b.slots) = k - 1)
      /\ \A j \in 1 .. Len(b.slots) : IsPlace(b.slots[j], ubs[j])
  BY DEF GoodPlacement
<1>2. b.ok \in BOOLEAN /\ b.cells \in [Streams -> CellStates] /\ b.head \in Heads /\ b.slots \in Seq(Slots) /\ Len(b.slots) \in Nat
  BY <1>1 DEF Placements
<1>3. CASE ~b.ok \/ slot = NoSlot
  <2>1. d = [b EXCEPT !.ok = FALSE]
    BY <1>3 DEF PlacedIn
  <2>2. d \in Placements /\ d.cells = b.cells /\ d.slots = b.slots /\ d.ok = FALSE
    BY <1>1, <2>1 DEF Placements
  <2> HIDE DEF d
  <2>3. Len(b.slots) <= k
    BY <1>1, <1>2
  <2>4. GoodPlacement(ubs, k, d)
    BY <1>1, <2>2, <2>3 DEF GoodPlacement
  <2> QED BY <2>4 DEF d
<1>4. CASE b.ok /\ slot # NoSlot
  <2>1. IsPlace(slot, ub)
    BY <1>2, <1>4, FoundFacts
  <2>2. d = [ok |-> TRUE, cells |-> apply_ubatch(b.cells, slot, ub), head |-> HeadsAfter(b.head, slot), slots |-> Append(b.slots, slot)]
    BY <1>4 DEF PlacedIn
  <2>3. slot \in Slots
    BY <2>1 DEF IsPlace, Slots
  <2> HIDE DEF slot, ub
  <2> DEFINE D == apply_ubatch(b.cells, slot, ub)
  <2>4. AllExact(D) /\ \A st \in Streams : D[st].has_shift = b.cells[st].has_shift
    BY <1>1, <2>1, ApplyUbatchFacts
  <2> HIDE DEF D
  <2>5. Unshifted(D) /\ D \in [Streams -> CellStates]
    BY <1>1, <2>4 DEF Unshifted, AllExact
  <2>6. HeadsAfter(b.head, slot) \in Heads
    BY <1>2, <2>1, HeadsFacts
  <2>7. /\ Append(b.slots, slot) \in Seq(Slots) /\ Len(Append(b.slots, slot)) = k
        /\ \A j \in 1 .. Len(b.slots) : Append(b.slots, slot)[j] = b.slots[j]
        /\ Append(b.slots, slot)[k] = slot
    BY <1>1, <1>2, <1>4, <2>3
  <2>8. \A j \in 1 .. k : j \in 1 .. Len(b.slots) \/ j = k
    BY <1>1, <1>2, <1>4
  <2>9. \A j \in 1 .. k : IsPlace(Append(b.slots, slot)[j], ubs[j])
    BY <1>1, <2>1, <2>7, <2>8 DEF ub
  <2>10. d \in Placements /\ d.ok = TRUE /\ d.cells = D /\ d.slots = Append(b.slots, slot)
    BY <2>2, <2>5, <2>6, <2>7 DEF Placements, D
  <2> HIDE DEF d
  <2>11. GoodPlacement(ubs, k, d)
    BY <2>4, <2>5, <2>7, <2>9, <2>10 DEF GoodPlacement
  <2> QED BY <2>11 DEF d, slot, ub
<1> QED BY <1>2, <1>3, <1>4 DEF slot, ub, d

\* Micro-batches that follow each other.
IsBatch(ubs) == Len(ubs) \in Nat /\ DOMAIN ubs = 1 .. Len(ubs) /\ \A k \in 1 .. Len(ubs) : IsUbatch(ubs[k])
Started(C, H) == [ok |-> TRUE, cells |-> C, head |-> H, slots |-> <<>>]

\* Micro-batches are placed one after the other.
LEMMA PlacingFacts ==
  ASSUME NEW C, AllExact(C), Unshifted(C), NEW H \in Heads, NEW pre \in [Seqs -> Int], NEW ubs, IsBatch(ubs)
  PROVE  LET after == Placing(C, H, pre, ubs)
         IN /\ after[0] = Started(C, H)
            /\ \A k \in 0 .. Len(ubs) : GoodPlacement(ubs, k, after[k])
            /\ \A k \in 1 .. Len(ubs) :
                 LET b == after[k - 1] IN after[k] = PlacedIn(b, FindSlot(b.cells, b.head, pre, ubs[k]), ubs[k])
<1> DEFINE n == Len(ubs)
           Good(k, d) == GoodPlacement(ubs, k, d)
           P == {y \in (0 .. n) \X Placements : Good(y[1], y[2])}
           Step(k, d) == PlacedIn(d, FindSlot(d.cells, d.head, pre, ubs[k]), ubs[k])
           G == [y \in (1 .. n) \X Placements |-> IF Step(y[1], y[2]) \in Placements THEN Step(y[1], y[2]) ELSE y[2]]
           E(h) == [k \in 0 .. n |-> IF k = 0 THEN Started(C, H) ELSE Step(k, h[k - 1])]
<1>0. Placing(C, H, pre, ubs) = CHOOSE h : h = E(h)
  BY DEF Placing, Started
<1>1. n \in Nat /\ Started(C, H) \in Placements /\ Good(0, Started(C, H))
  <2>1. <<>> \in Seq(Slots) /\ Len(<<>>) = 0
    OBVIOUS
  <2>2. Started(C, H) \in Placements
    BY <2>1 DEF Placements, AllExact, Started
  <2> QED BY <2>1, <2>2 DEF GoodPlacement, IsBatch, Started
<1>2. ASSUME NEW k \in 1 .. n, NEW d \in Placements, Good(k - 1, d)
      PROVE  Good(k, Step(k, d)) /\ Step(k, d) \in Placements
  <2>1. k \in Nat /\ k >= 1 /\ IsUbatch(ubs[k])
    BY DEF IsBatch
  <2>2. Good(k, Step(k, d))
    BY <1>2, <2>1, PlacedInFacts
  <2> QED BY <2>2 DEF GoodPlacement
<1> HIDE DEF Good, Step, n
<1>3. G \in [(1 .. n) \X Placements -> Placements]
  OBVIOUS
<1>4. Advances(P, n, Placements, Started(C, H), G)
  <2>1. <<0, Started(C, H)>> \in P
    BY <1>1
  <2>2. \A k \in 1 .. n : \A d \in Placements : <<k - 1, d>> \in P => <<k, G[<<k, d>>]>> \in P
    <3> TAKE k \in 1 .. n
    <3> TAKE d \in Placements
    <3> HAVE <<k - 1, d>> \in P
    <3>1. Good(k - 1, d) /\ k \in 0 .. n
      BY <1>1
    <3> QED BY <1>2, <3>1
  <2> HIDE DEF P, G
  <2> QED BY <1>1, <1>3, <2>1, <2>2 DEF Advances
<1>5. \A k, d : <<k, d>> \in P => Good(k, d)
  OBVIOUS
<1>6. \A k \in 1 .. n, d \in Placements : Good(k - 1, d) => G[<<k, d>>] = Step(k, d)
  BY <1>2
<1> HIDE DEF P, G
<1>7. PICK g : Walks(g, n, Placements, Started(C, H), G) /\ \A k \in 0 .. n : <<k, g[k]>> \in P
  BY <1>4, WalkKeeps
<1>8. \A k \in 1 .. n : g[k] = Step(k, g[k - 1]) /\ k - 1 \in 0 .. n
  <2> TAKE k \in 1 .. n
  <2>1. k - 1 \in 0 .. n
    BY <1>1
  <2>2. Good(k - 1, g[k - 1]) /\ g[k - 1] \in Placements
    BY <1>5, <1>7, <2>1 DEF Walks
  <2> QED BY <1>6, <1>7, <2>1, <2>2 DEF Walks
<1>9. g = E(g)
  <2>1. \A k \in 0 .. n : k = 0 \/ k \in 1 .. n
    BY <1>1
  <2> QED BY <1>7, <1>8, <2>1 DEF Walks
<1>10. ASSUME NEW h, h = E(h) PROVE \A k \in 0 .. n : h[k] = g[k]
  <2> DEFINE T == {k \in Nat : k <= n => h[k] = g[k]}
  <2>1. 0 \in T
    BY <1>1, <1>9, <1>10
  <2>2. ASSUME NEW k \in Nat, k \in T PROVE k + 1 \in T
    <3>1. k + 1 <= n => k + 1 \in 1 .. n /\ k + 1 \in 0 .. n /\ (k + 1) - 1 = k /\ k <= n
      BY <1>1
    <3>2. k + 1 <= n => h[k + 1] = Step(k + 1, h[k])
      BY <1>10, <3>1
    <3> QED BY <1>8, <2>2, <3>1, <3>2
  <2> HIDE DEF T, E
  <2>3. Nat \subseteq T
    BY <2>1, <2>2, SetInduction
  <2>4. \A k \in 0 .. n : k \in Nat /\ k <= n
    BY <1>1
  <2> QED BY <2>3, <2>4 DEF T
<1> HIDE DEF E
<1>11. \A k \in 0 .. n : (CHOOSE h : h = E(h))[k] = g[k]
  BY <1>9, <1>10
<1>12. \A k \in 0 .. n : Placing(C, H, pre, ubs)[k] = g[k]
  BY <1>0, <1>11
<1>13. \A k \in 0 .. n : Good(k, Placing(C, H, pre, ubs)[k])
  BY <1>5, <1>7, <1>12
<1>14. \A k \in 1 .. n : Placing(C, H, pre, ubs)[k] = Step(k, Placing(C, H, pre, ubs)[k - 1])
  <2> TAKE k \in 1 .. n
  <2>1. k \in 0 .. n /\ k - 1 \in 0 .. n
    BY <1>1
  <2> QED BY <1>8, <1>12, <2>1
<1>15. Placing(C, H, pre, ubs)[0] = Started(C, H) /\ n \in 0 .. n
  BY <1>1, <1>7, <1>12 DEF Walks
<1> QED BY <1>13, <1>14, <1>15 DEF Good, Step, n

\* What is known of the j-th placement: it follows from the one before, and nothing is
\* purged when only empty cells can be used.
Link(ubs, after, j, slot) ==
  /\ Applied(after[j - 1].cells, after[j].cells, slot, ubs[j])
  /\ SwaType = "none" => Quiet(after[j - 1].cells, slot)
Linked(ubs, after, k) == /\ after[k].cells = after[Len(after[k].slots)].cells
                         /\ \A j \in 1 .. Len(after[k].slots) : Link(ubs, after, j, after[k].slots[j])

\* Only empty cells can be used without a window.
LEMMA QuietFacts ==
  ASSUME SwaType = "none", NEW C, AllExact(C), NEW H \in Heads, NEW pre \in [Seqs -> Int], NEW ub, IsUbatch(ub),
         FindSlot(C, H, pre, ub) # NoSlot
  PROVE  Quiet(C, FindSlot(C, H, pre, ub))
<1> DEFINE slot == FindSlot(C, H, pre, ub)
<1>1. IsPlace(slot, ub) /\ \A st \in DOMAIN ub : \A k \in 1 .. Len(slot[st]) : CanUse(C[st], pre, ub[st], slot[st][k])
  BY FoundFacts
<1> HIDE DEF slot
<1>2. ASSUME ~Sliding, NEW st \in DOMAIN slot, NEW k \in 1 .. Len(slot[st]) PROVE C[st].seq[slot[st][k]] = {}
  <2>1. st \in DOMAIN ub /\ st \in Streams /\ slot[st] \in Seq(Idx)
    BY <1>1 DEF IsPlace
  <2>2. slot[st][k] \in Idx /\ Exact(C[st]) /\ CanUse(C[st], pre, ub[st], slot[st][k])
    BY <1>1, <2>1 DEF AllExact
  <2>3. is_empty(C[st], slot[st][k])
    BY <1>2, <2>2 DEF CanUse, Passed, is_masked_swa, Store!is_masked_swa
  <2> QED BY <2>2, <2>3 DEF is_empty, Exact
<1> QED BY <1>2 DEF Quiet, slot

\* The placements are linked.
LEMMA LinkedFacts ==
  ASSUME NEW C, AllExact(C), Unshifted(C), NEW H \in Heads, NEW pre \in [Seqs -> Int], NEW ubs, IsBatch(ubs)
  PROVE  Linked(ubs, Placing(C, H, pre, ubs), Len(ubs))
<1> DEFINE after == Placing(C, H, pre, ubs)
           n     == Len(ubs)
           T     == {k \in Nat : k <= n => Linked(ubs, after, k)}
<1>1. /\ after[0] = Started(C, H)
      /\ \A k \in 0 .. n : GoodPlacement(ubs, k, after[k])
      /\ \A k \in 1 .. n : after[k] = PlacedIn(after[k - 1], FindSlot(after[k - 1].cells, after[k - 1].head, pre, ubs[k]), ubs[k])
  BY PlacingFacts
<1>2. n \in Nat /\ \A k \in 1 .. n : IsUbatch(ubs[k])
  BY DEF IsBatch
<1> HIDE DEF after, n
<1>3. 0 \in T
  <2>1. Len(after[0].slots) = 0
    BY <1>1 DEF Started
  <2> QED BY <2>1 DEF Linked
<1>4. ASSUME NEW m \in Nat, m \in T PROVE m + 1 \in T
  <2> SUFFICES ASSUME m + 1 <= n PROVE Linked(ubs, after, m + 1)
    OBVIOUS
  <2> DEFINE k    == m + 1
             b    == after[m]
             ub   == ubs[k]
             slot == FindSlot(b.cells, b.head, pre, ub)
             d    == after[k]
  <2>1. m \in 0 .. n /\ k \in 1 .. n /\ k - 1 = m /\ Linked(ubs, after, m)
    BY <1>2, <1>4
  <2>2. d = PlacedIn(b, slot, ub) /\ GoodPlacement(ubs, m, b) /\ IsUbatch(ub)
    BY <1>1, <1>2, <2>1
  <2>3. b.head \in Heads /\ AllExact(b.cells) /\ Len(b.slots) \in Nat /\ (b.ok => Len(b.slots) = m) /\ b.slots \in Seq(Slots)
    BY <2>2 DEF GoodPlacement, Placements
  <2>4. CASE ~b.ok \/ slot = NoSlot
    <3>1. d.slots = b.slots /\ d.cells = b.cells
      <4>1. d = [b EXCEPT !.ok = FALSE]
        BY <2>2, <2>4 DEF PlacedIn
      <4>2. b \in Placements
        BY <2>2 DEF GoodPlacement
      <4> QED BY <4>1, <4>2 DEF Placements
    <3> HIDE DEF d, b
    <3> QED BY <2>1, <3>1 DEF Linked, d, b
  <2>5. CASE b.ok /\ slot # NoSlot
    <3>1. d = [ok |-> TRUE, cells |-> apply_ubatch(b.cells, slot, ub), head |-> HeadsAfter(b.head, slot), slots |-> Append(b.slots, slot)]
      BY <2>2, <2>5 DEF PlacedIn
    <3>2. IsPlace(slot, ub)
      BY <2>2, <2>3, <2>5, FoundFacts
    <3>3. SwaType = "none" => Quiet(b.cells, slot)
      BY <2>2, <2>3, <2>5, QuietFacts
    <3> HIDE DEF d, slot, ub
    <3>4. Applied(b.cells, d.cells, slot, ub)
      <4>1. Applied(b.cells, apply_ubatch(b.cells, slot, ub), slot, ub)
        BY <2>3, <3>2, ApplyUbatchFacts
      <4> QED BY <3>1, <4>1
    <3>5. /\ d.slots = Append(b.slots, slot) /\ Len(d.slots) = k /\ d.slots[k] = slot
          /\ \A j \in 1 .. m : d.slots[j] = b.slots[j]
      <4>1. slot \in Slots
        BY <3>2 DEF IsPlace, Slots
      <4> QED BY <2>3, <2>5, <3>1, <4>1
    <3>6. \A j \in 1 .. k : j \in 1 .. m \/ j = k
      OBVIOUS
    <3>7. \A j \in 1 .. m : Link(ubs, after, j, b.slots[j])
      BY <2>1, <2>3, <2>5 DEF Linked
    <3> HIDE DEF b
    <3>8. \A j \in 1 .. k : Link(ubs, after, j, d.slots[j])
      <4> TAKE j \in 1 .. k
      <4>1. CASE j \in 1 .. m
        BY <3>5, <3>7, <4>1
      <4>2. CASE j = k
        <5>1. after[j - 1] = b /\ after[j] = d /\ d.slots[j] = slot /\ ubs[j] = ub
          BY <2>1, <3>5, <4>2 DEF b, d, ub
        <5> QED BY <3>3, <3>4, <5>1 DEF Link
      <4> QED BY <3>6, <4>1, <4>2
    <3>9. \A j \in 1 .. Len(d.slots) : Link(ubs, after, j, d.slots[j])
      BY <3>5, <3>8
    <3>10. d = after[m + 1] /\ d.cells = after[Len(d.slots)].cells
      BY <3>5 DEF d
    <3> HIDE DEF d, k
    <3> QED BY <3>9, <3>10 DEF Linked
  <2> QED BY <2>4, <2>5
<1> HIDE DEF T
<1>5. Nat \subseteq T
  BY <1>3, <1>4, SetInduction
<1>6. n \in T /\ n <= n
  BY <1>2, <1>5
<1> QED BY <1>6 DEF T, n, after

-----------------------------------------------------------------------------
(***************************************************************************)
(* Going back through the placements.                                      *)
(***************************************************************************)
\* The cells of a slot are restored.
Restored(B, slot, A) ==
  [st \in Streams |-> IF st \in DOMAIN slot THEN set(B[st], Range(slot[st]), A[st]) ELSE B[st]]

\* Restoring is exact, as nothing is shifted in a dry run.
LEMMA RestoredFacts ==
  ASSUME NEW B, AllExact(B), Unshifted(B), NEW A, AllExact(A), Unshifted(A), NEW slot, NEW ub, IsPlace(slot, ub)
  PROVE  LET D == Restored(B, slot, A)
         IN /\ AllExact(D) /\ Unshifted(D)
            /\ \A st \in Streams, i \in Idx : IF Outside(slot, st, i) THEN Same(B[st], D[st], i) ELSE Same(A[st], D[st], i)
<1> DEFINE D == Restored(B, slot, A)
<1>1. ASSUME NEW st \in Streams
      PROVE  /\ Exact(D[st]) /\ D[st] \in CellStates /\ ~D[st].has_shift
             /\ \A i \in Idx : IF Outside(slot, st, i) THEN Same(B[st], D[st], i) ELSE Same(A[st], D[st], i)
  <2>1. Exact(B[st]) /\ Exact(A[st]) /\ ~B[st].has_shift /\ ~A[st].has_shift
    BY DEF AllExact, Unshifted
  <2>2. CASE st \in DOMAIN slot
    <3>1. slot[st] \in Seq(Idx)
      BY <2>2 DEF IsPlace
    <3>2. Range(slot[st]) \in SUBSET Idx
      BY <3>1 DEF Range
    <3>3. \A i \in Range(slot[st]) : B[st].shift[i] = 0
      BY <2>1, <3>2, UsedFacts
    <3> DEFINE I == Range(slot[st])
               d == set(B[st], I, A[st])
    <3> HIDE DEF I
    <3>4. /\ Behind(B[st], {B[st].has_shift}, I, d)
          /\ \A i \in I : Holds(d, i, A[st].pos[i], A[st].seq[i], B[st].shift[i])
      BY <2>1, <3>2, <3>3, SetEach DEF I
    <3>5. D[st] = d
      BY <2>2 DEF Restored, I
    <3>6. \A i \in Idx : Outside(slot, st, i) <=> i \notin I
      <4>1. DOMAIN slot[st] = 1 .. Len(slot[st])
        BY <3>1
      <4> QED BY <2>2, <4>1 DEF Outside, I, Range
    <3>7. \A i \in I : Same(A[st], d, i)
      <4>1. \A i \in I : i \in Idx /\ A[st].shift[i] = 0 /\ B[st].shift[i] = 0
        BY <2>1, <3>2, <3>3 DEF I, Exact, CountsExactIn
      <4> QED BY <3>4, <4>1 DEF Same
    <3>8. \A i \in Idx \ I : Same(B[st], d, i)
      BY <3>4 DEF Behind, Same, Holds
    <3>9. Exact(d) /\ d \in CellStates /\ ~d.has_shift
      BY <2>1, <3>4, StatesFacts DEF Behind
    <3> HIDE DEF d, D
    <3> QED BY <3>5, <3>6, <3>7, <3>8, <3>9
  <2>3. CASE st \notin DOMAIN slot
    <3>1. D[st] = B[st]
      BY <2>3 DEF Restored
    <3> HIDE DEF D
    <3>2. \A i \in Idx : Outside(slot, st, i) /\ Same(B[st], D[st], i)
      BY <2>3, <3>1 DEF Outside, Same, Holds
    <3> QED BY <2>1, <3>1, <3>2, StatesFacts
  <2> QED BY <2>2, <2>3
<1>2. D = [st \in Streams |-> D[st]]
  BY DEF Restored
<1> HIDE DEF D
<1>3. D \in [Streams -> CellStates]
  BY <1>1, <1>2
<1> QED BY <1>1, <1>3 DEF AllExact, Unshifted, D

\* Cells after going back: nothing is there that was not, and all is as before when only
\* empty cells can be used.
Back(C, D) == \A st \in Streams, i \in Idx : Less(C[st], D[st], i) /\ (SwaType = "none" => Same(C[st], D[st], i))

\* prepare goes back through the states, and ends with exact cells.
LEMMA WentBackFacts ==
  ASSUME NEW after, NEW placed, NEW ubs, NEW m, GoodPlacement(ubs, m, placed),
         placed.cells = after[Len(placed.slots)].cells,
         \A k \in 0 .. Len(placed.slots) : AllExact(after[k].cells) /\ Unshifted(after[k].cells),
         \A k \in 1 .. Len(placed.slots) : Link(ubs, after, k, placed.slots[k])
  PROVE  LET b == WentBack(after, placed)
         IN /\ b.ok = placed.ok /\ b.slots = placed.slots /\ AllExact(b.cells) /\ Unshifted(b.cells)
            /\ Back(after[0].cells, b.cells)
<1> DEFINE n == Len(placed.slots)
           D == [Streams -> CellStates]
           Good(k, d) == AllExact(d) /\ Unshifted(d) /\ Back(after[k].cells, d)
           P == {y \in (0 .. n) \X D : Good(n - y[1], y[2])}
           Step(k, d) == Restored(d, placed.slots[k + 1], after[k].cells)
           G == [y \in (1 .. n) \X D |-> IF Step(n - y[1], y[2]) \in D THEN Step(n - y[1], y[2]) ELSE y[2]]
           E(h) == [k \in 0 .. n |-> IF k = n THEN placed.cells ELSE Step(k, h[k + 1])]
           back == CHOOSE h : h = E(h)
<1>0. WentBack(after, placed) = [ok |-> placed.ok, slots |-> placed.slots, cells |-> back[0]]
  BY DEF WentBack, Restored
<1>1. n \in Nat /\ placed.cells \in D /\ Good(n, placed.cells) /\ \A j \in 1 .. n : IsPlace(placed.slots[j], ubs[j])
  <2>1. n \in Nat /\ placed.cells \in D /\ AllExact(placed.cells) /\ Unshifted(placed.cells)
        /\ \A j \in 1 .. n : IsPlace(placed.slots[j], ubs[j])
    BY DEF GoodPlacement, Placements
  <2>2. Back(placed.cells, placed.cells)
    BY DEF Back, Less, Same, Holds
  <2> QED BY <2>1, <2>2
<1>2. ASSUME NEW k \in 0 .. n, k # n, NEW d \in D, Good(k + 1, d) PROVE Good(k, Step(k, d)) /\ Step(k, d) \in D
  <2> DEFINE A    == after[k].cells
             B    == after[k + 1].cells
             slot == placed.slots[k + 1]
             x    == Restored(d, slot, A)
  <2>1. k + 1 \in 1 .. n /\ (k + 1) - 1 = k
    BY <1>1, <1>2
  <2>2. IsPlace(slot, ubs[k + 1]) /\ AllExact(A) /\ Unshifted(A)
    BY <1>1, <2>1
  <2>3. Applied(A, B, slot, ubs[k + 1]) /\ (SwaType = "none" => Quiet(A, slot))
    BY <2>1 DEF Link
  <2>4. AllExact(d) /\ Unshifted(d) /\ Back(B, d)
    BY <1>2
  <2> HIDE DEF A, B, slot
  <2>5. /\ AllExact(x) /\ Unshifted(x)
        /\ \A st \in Streams, i \in Idx : IF Outside(slot, st, i) THEN Same(d[st], x[st], i) ELSE Same(A[st], x[st], i)
    BY <2>2, <2>4, RestoredFacts
  <2> HIDE DEF x
  <2>6. ASSUME NEW st \in Streams, NEW i \in Idx
        PROVE  Less(A[st], x[st], i) /\ (SwaType = "none" => Same(A[st], x[st], i))
    <3>1. CASE Outside(slot, st, i)
      <4>1. Same(d[st], x[st], i) /\ Less(B[st], d[st], i) /\ Less(A[st], B[st], i)
        BY <2>3, <2>4, <2>5, <3>1 DEF Applied, Back
      <4>2. SwaType = "none" => Same(A[st], B[st], i) /\ Same(B[st], d[st], i)
        BY <2>3, <2>4, <3>1 DEF Applied, Back
      <4>3. Less(A[st], d[st], i)
        BY <4>1, LessLess
      <4> QED BY <4>1, <4>2, <4>3 DEF Less, Same, Holds, Gone
    <3>2. CASE ~Outside(slot, st, i)
      <4>1. Same(A[st], x[st], i)
        BY <2>5, <3>2
      <4> QED BY <4>1 DEF Less, Same, Holds
    <3> QED BY <3>1, <3>2
  <2>7. Back(A, x)
    BY <2>6 DEF Back
  <2> QED BY <2>5, <2>7 DEF AllExact, A, x, slot
<1> HIDE DEF Good, Step, n, D
<1>3. G \in [(1 .. n) \X D -> D]
  OBVIOUS
<1>4. Advances(P, n, D, placed.cells, G)
  <2>1. <<0, placed.cells>> \in P
    BY <1>1
  <2>2. \A k \in 1 .. n : \A d \in D : <<k - 1, d>> \in P => <<k, G[<<k, d>>]>> \in P
    <3> TAKE k \in 1 .. n
    <3> TAKE d \in D
    <3> HAVE <<k - 1, d>> \in P
    <3>1. k \in 0 .. n /\ n - k \in 0 .. n /\ n - k # n /\ n - (k - 1) = (n - k) + 1
      BY <1>1
    <3>2. Good((n - k) + 1, d)
      BY <3>1
    <3> QED BY <1>2, <3>1, <3>2
  <2> HIDE DEF P, G
  <2> QED BY <1>1, <1>3, <2>1, <2>2 DEF Advances
<1>5. \A k, d : <<k, d>> \in P => Good(n - k, d)
  OBVIOUS
<1>6. \A k \in 1 .. n, d \in D : Good(n - (k - 1), d) => G[<<k, d>>] = Step(n - k, d)
  <2> TAKE k \in 1 .. n, d \in D
  <2>1. n - k \in 0 .. n /\ n - k # n /\ n - (k - 1) = (n - k) + 1
    BY <1>1
  <2> QED BY <1>2, <2>1
<1> HIDE DEF P, G
<1>7. PICK f : Walks(f, n, D, placed.cells, G) /\ \A k \in 0 .. n : <<k, f[k]>> \in P
  BY <1>4, WalkKeeps
<1> DEFINE g == [k \in 0 .. n |-> f[n - k]]
<1>8. \A k \in 0 .. n : n - k \in 0 .. n /\ g[k] = f[n - k] /\ Good(k, g[k])
  <2> TAKE k \in 0 .. n
  <2>1. n - k \in 0 .. n /\ n - (n - k) = k
    BY <1>1
  <2>2. Good(n - (n - k), f[n - k])
    BY <1>5, <1>7, <2>1
  <2> QED BY <2>1, <2>2
<1>9. g[n] = placed.cells /\ n \in 0 .. n /\ 0 \in 0 .. n
  <2>1. n \in 0 .. n /\ 0 \in 0 .. n /\ n - n = 0
    BY <1>1
  <2> QED BY <1>7, <1>8, <2>1 DEF Walks
<1>10. \A k \in 0 .. n : k # n => k + 1 \in 0 .. n /\ g[k] = Step(k, g[k + 1])
  <2> TAKE k \in 0 .. n
  <2> HAVE k # n
  <2>1. k + 1 \in 0 .. n /\ n - k \in 1 .. n /\ (n - k) - 1 = n - (k + 1) /\ n - (n - k) = k /\ n - (k + 1) \in 0 .. n
    BY <1>1
  <2>2. f[n - k] = G[<<n - k, f[(n - k) - 1]>>] /\ f[n - (k + 1)] \in D
    BY <1>7, <2>1 DEF Walks
  <2>3. Good(n - ((n - k) - 1), f[n - (k + 1)])
    <3>1. Good(n - (n - (k + 1)), f[n - (k + 1)])
      BY <1>5, <1>7, <2>1
    <3> QED BY <2>1, <3>1
  <2>4. G[<<n - k, f[n - (k + 1)]>>] = Step(n - (n - k), f[n - (k + 1)])
    BY <1>6, <2>1, <2>2, <2>3
  <2>5. g[k + 1] = f[n - (k + 1)] /\ g[k] = f[n - k]
    BY <1>8, <2>1
  <2> HIDE DEF g
  <2> QED BY <2>1, <2>2, <2>4, <2>5
<1>11. g = E(g)
  BY <1>9, <1>10
<1> HIDE DEF g
<1>12. ASSUME NEW h, h = E(h) PROVE h[0] = g[0]
  <2> DEFINE Q == {j \in Nat : j <= n => h[n - j] = g[n - j]}
  <2>1. 0 \in Q
    BY <1>1, <1>9, <1>12
  <2>2. ASSUME NEW j \in Nat, j \in Q PROVE j + 1 \in Q
    <3> SUFFICES ASSUME j + 1 <= n PROVE h[n - (j + 1)] = g[n - (j + 1)]
      OBVIOUS
    <3> DEFINE k == n - (j + 1)
    <3>1. k \in 0 .. n /\ k # n /\ k + 1 = n - j /\ j <= n
      BY <1>1
    <3> HIDE DEF k
    <3>2. h[k] = Step(k, h[k + 1])
      BY <1>12, <3>1
    <3>3. h[k + 1] = g[k + 1]
      BY <2>2, <3>1
    <3> QED BY <1>10, <3>1, <3>2, <3>3 DEF k
  <2> HIDE DEF Q, E
  <2>3. Nat \subseteq Q
    BY <2>1, <2>2, SetInduction
  <2>4. n \in Q /\ n - n = 0
    BY <1>1, <2>3
  <2>5. n <= n
    BY <1>1
  <2> QED BY <2>4, <2>5 DEF Q
<1> HIDE DEF E
<1>13. back[0] = g[0]
  BY <1>11, <1>12
<1> HIDE DEF back
<1>14. Good(0, back[0])
  BY <1>8, <1>9, <1>13
<1> QED BY <1>0, <1>14 DEF Good

\* prepare returns exact cells, and slots for all micro-batches if it succeeds.
LEMMA PrepareFacts ==
  ASSUME NEW C, AllExact(C), Unshifted(C), NEW H \in Heads, NEW pre \in [Seqs -> Int], NEW ubs, IsBatch(ubs)
  PROVE  LET p == prepare(C, H, pre, ubs)
         IN /\ AllExact(p.cells) /\ Unshifted(p.cells) /\ Back(C, p.cells)
            /\ p.ok => \A j \in 1 .. Len(ubs) : IsPlace(p.slots[j], ubs[j])
<1> DEFINE after  == Placing(C, H, pre, ubs)
           n      == Len(ubs)
           placed == after[n]
<1>1. /\ n \in Nat /\ after[0] = Started(C, H) /\ \A k \in 0 .. n : GoodPlacement(ubs, k, after[k])
      /\ \A k \in 1 .. n : after[k] = PlacedIn(after[k - 1], FindSlot(after[k - 1].cells, after[k - 1].head, pre, ubs[k]), ubs[k])
  BY PlacingFacts DEF IsBatch
<1>7. Linked(ubs, after, n)
  BY LinkedFacts
<1> HIDE DEF after
<1>2. prepare(C, H, pre, ubs) = WentBack(after, placed)
  BY DEF prepare, DryRun, after
<1> HIDE DEF n
<1>3. GoodPlacement(ubs, n, placed)
  BY <1>1
<1> HIDE DEF placed
<1>4. /\ Len(placed.slots) \in Nat /\ Len(placed.slots) <= n /\ (placed.ok => Len(placed.slots) = n)
      /\ \A j \in 1 .. Len(placed.slots) : IsPlace(placed.slots[j], ubs[j])
  BY <1>3 DEF GoodPlacement, Placements
<1>5. \A k \in 0 .. Len(placed.slots) : AllExact(after[k].cells) /\ Unshifted(after[k].cells)
  BY <1>1, <1>4 DEF GoodPlacement
<1>8. /\ placed.cells = after[Len(placed.slots)].cells
      /\ \A k \in 1 .. Len(placed.slots) : Link(ubs, after, k, placed.slots[k])
  BY <1>7 DEF Linked, placed
<1>9. after[0].cells = C
  BY <1>1 DEF Started
<1> DEFINE b == WentBack(after, placed)
<1>6. b.ok = placed.ok /\ b.slots = placed.slots /\ AllExact(b.cells) /\ Unshifted(b.cells) /\ Back(C, b.cells)
  BY <1>3, <1>5, <1>8, <1>9, WentBackFacts
<1> HIDE DEF b
<1> QED BY <1>2, <1>4, <1>6 DEF b, n

-----------------------------------------------------------------------------
(***************************************************************************)
(* Batches and their micro-batches.                                        *)
(***************************************************************************)
\* Tokens as a program gives them.
TokenSet(tok) == [tok : {tok}, pos : 0 .. MaxPos, seqs : (SUBSET Seqs) \ {{}}]

\* Streams are where sequences are.
LEMMA StreamFacts == \A s \in Seqs : StreamOf(s) \in Streams
BY DEF StreamOf, Streams

\* New tokens of sequences follow the last ones.
LEMMA NewFacts ==
  ASSUME AllExact(cells), NEW S \in SUBSET Seqs, S # {}, NEW n \in Nat, NEW tok, \A s \in S : PosMax(s) + n <= MaxPos
  PROVE  New(S, n, tok) \in Seq(TokenSet(tok)) /\ Len(New(S, n, tok)) = n
<1> DEFINE s == CHOOSE s \in S : TRUE
<1>1. s \in Seqs /\ Exact(cells[StreamOf(s)]) /\ PosMax(s) + n <= MaxPos
  BY StreamFacts DEF AllExact
<1> HIDE DEF s
<1>2. PosMax(s) \in Int /\ PosMax(s) >= -1
  BY <1>1, PosMaxFacts DEF PosMax
<1>3. \A k \in 1 .. n : [tok |-> tok, pos |-> PosMax(s) + k, seqs |-> S] \in TokenSet(tok)
  BY <1>1, <1>2, ArgumentsAssumption DEF TokenSet
<1>4. New(S, n, tok) = [k \in 1 .. n |-> [tok |-> tok, pos |-> PosMax(s) + k, seqs |-> S]]
  BY DEF New, s
<1> QED BY <1>3, <1>4

NewOfEach(S, n, tok) == FoldSet(LAMBDA s, q : q \o New({s}, n, tok), <<>>, S)

\* A batch has the tokens of one sequence after those of another.
LEMMA NewEach ==
  ASSUME AllExact(cells), NEW S \in SUBSET Seqs, NEW n \in Nat, NEW tok, \A s \in S : PosMax(s) + n <= MaxPos
  PROVE  NewOfEach(S, n, tok) \in Seq(TokenSet(tok))
<1> DEFINE Good(t, d) == d \in Seq(TokenSet(tok))
           P == {y \in (SUBSET S) \X Seq(TokenSet(tok)) : Good(y[1], y[2])}
           Step(x, d) == d \o New({x}, n, tok)
           F == [y \in S \X Seq(TokenSet(tok)) |-> IF Step(y[1], y[2]) \in Seq(TokenSet(tok)) THEN Step(y[1], y[2]) ELSE y[2]]
           E(h) == [t \in SUBSET S |-> IF t = {} THEN <<>> ELSE Step(Chosen(t), h[t \ {Chosen(t)}])]
<1>1. F \in [S \X Seq(TokenSet(tok)) -> Seq(TokenSet(tok))]
  <2> HIDE DEF Step
  <2> QED OBVIOUS
<1>2. IsFiniteSet(S) /\ <<>> \in Seq(TokenSet(tok)) /\ Good({}, <<>>)
  <2>1. IsFiniteSet(S)
    BY SeqsAssumption, FS_Subset
  <2>2. <<>> \in Seq(TokenSet(tok))
    OBVIOUS
  <2> QED BY <2>1, <2>2
<1>3. ASSUME NEW t \in SUBSET S, NEW x \in S \ t, NEW d \in Seq(TokenSet(tok)), Good(t, d)
      PROVE  Good(t \cup {x}, Step(x, d)) /\ Step(x, d) \in Seq(TokenSet(tok))
  <2>1. New({x}, n, tok) \in Seq(TokenSet(tok))
    BY NewFacts
  <2> QED BY <2>1
<1> HIDE DEF Good, Step
<1>4. PICK g : Folds(g, S, Seq(TokenSet(tok)), <<>>, F) /\ \A t \in SUBSET S : Good(t, g[t])
  <2>1. <<{}, <<>>>> \in P
    BY <1>2
  <2>2. Preserves(P, S, Seq(TokenSet(tok)), <<>>, F)
    BY <1>1, <1>2, <1>3, <2>1 DEF Preserves
  <2> HIDE DEF F
  <2>3. \A t, d : <<t, d>> \in P => Good(t, d)
    OBVIOUS
  <2> HIDE DEF P
  <2>4. PICK g : Folds(g, S, Seq(TokenSet(tok)), <<>>, F) /\ \A t \in SUBSET S : <<t, g[t]>> \in P
    BY <2>2, FoldKeeps
  <2> QED BY <2>3, <2>4
<1>5. g = E(g)
  <2>1. ASSUME NEW t \in SUBSET S, t # {} PROVE g[t] = Step(Chosen(t), g[t \ {Chosen(t)}])
    <3>1. Chosen(t) \in t /\ t \ {Chosen(t)} \in SUBSET S
      BY <2>1 DEF Chosen
    <3>2. /\ Chosen(t) \in S \ (t \ {Chosen(t)}) /\ Good(t \ {Chosen(t)}, g[t \ {Chosen(t)}])
          /\ g[t \ {Chosen(t)}] \in Seq(TokenSet(tok))
      BY <1>4, <3>1 DEF Folds
    <3>3. g[t] = F[<<Chosen(t), g[t \ {Chosen(t)}]>>]
      BY <1>4, <2>1 DEF Folds
    <3> QED BY <1>3, <3>1, <3>2, <3>3
  <2> QED BY <1>4, <2>1 DEF Folds
<1>6. ASSUME NEW h, h = E(h) PROVE h[S] = g[S]
  <2> DEFINE T == {t \in SUBSET S : h[t] = g[t]}
  <2>1. {} \in T
    BY <1>5, <1>6
  <2>2. ASSUME NEW t \in SUBSET S, t # {}, t \ {Chosen(t)} \in T PROVE t \in T
    BY <1>5, <1>6, <2>2, ZenonT(60)
  <2> HIDE DEF T, E
  <2>3. SUBSET S \subseteq T
    BY <1>2, <2>1, <2>2, SubsetInduction
  <2> QED BY <2>3 DEF T
<1>7. NewOfEach(S, n, tok) = (CHOOSE h : h = E(h))[S]
  BY DEF FoldSet, MapThenFoldSet, Chosen, Step, NewOfEach
<1> HIDE DEF E
<1>8. (CHOOSE h : h = E(h))[S] = g[S]
  BY <1>5, <1>6
<1>9. Good(S, NewOfEach(S, n, tok))
  BY <1>4, <1>7, <1>8
<1> QED BY <1>9 DEF Good

\* A batch is cut into chunks of at most n tokens.
LEMMA ChunkFacts ==
  ASSUME NEW X, NEW toks \in Seq(X), NEW n \in Nat \ {0}
  PROVE  LET m == (Len(toks) + n - 1) \div n
         IN m \in Nat /\ Chunks(toks, n) \in [1 .. m -> Seq(X)]
<1> DEFINE m == (Len(toks) + n - 1) \div n
<1>1. m \in Nat
  <2>1. \A x, y \in Nat : y # 0 => x \div y \in Nat
    OBVIOUS
  <2> QED BY <2>1
<1> HIDE DEF m
<1>2. ASSUME NEW k \in 1 .. m PROVE SubSeq(toks, (k - 1) * n + 1, Min({k * n, Len(toks)})) \in Seq(X)
  <2> DEFINE a == (k - 1) * n + 1
             b == Min({k * n, Len(toks)})
  <2>1. k * n \in Nat /\ (k - 1) * n \in Nat
    <3>1. k \in Nat /\ k - 1 \in Nat
      BY <1>1
    <3>2. \A x, y \in Nat : x * y \in Nat
      OBVIOUS
    <3> QED BY <3>1, <3>2
  <2>2. {k * n, Len(toks)} \in SUBSET Nat /\ {k * n, Len(toks)} # {}
    BY <2>1
  <2>3. b \in Nat /\ b <= Len(toks)
    BY <2>2, MinFacts
  <2>4. a \in Nat /\ a >= 1
    BY <2>1
  <2> HIDE DEF a, b
  <2>5. \A i \in a .. b : toks[i] \in X
    BY <2>3, <2>4
  <2>6. SubSeq(toks, a, b) \in Seq(X)
    BY <2>3, <2>4, <2>5, SubSeqProperties
  <2> QED BY <2>6 DEF a, b
<1>3. Chunks(toks, n) = [k \in 1 .. m |-> SubSeq(toks, (k - 1) * n + 1, Min({k * n, Len(toks)}))]
  BY DEF Chunks, m
<1>4. Chunks(toks, n) \in [1 .. m -> Seq(X)]
  BY <1>2, <1>3
<1> QED BY <1>1, <1>4 DEF m

\* Sequences of tokens, by stream, are a micro-batch.
LEMMA UbatchFacts ==
  ASSUME NEW tok \in Toks, NEW T \in SUBSET Streams, NEW ub \in [T -> Seq(TokenSet(tok))]
  PROVE  IsUbatch(ub)
<1>1. ASSUME NEW st \in T PROVE Len(ub[st]) \in Nat /\ \A k \in 1 .. Len(ub[st]) : ub[st][k] \in TokenSet(tok)
  <2>1. ub[st] \in Seq(TokenSet(tok))
    OBVIOUS
  <2> QED BY <2>1
<1>2. \A t \in TokenSet(tok) : IsWork(t)
  BY ArgumentsAssumption DEF TokenSet, IsToken, IsWork
<1> HIDE DEF TokenSet
<1> QED BY <1>1, <1>2 DEF IsUbatch

\* The micro-batches that a batch is split into.
LEMMA UbatchesFacts ==
  ASSUME AllExact(cells), NEW S \in SUBSET Seqs, S # {}, NEW n \in Nat, NEW tok \in Toks, NEW shared \in BOOLEAN,
         \A s \in S : PosMax(s) + n <= MaxPos
  PROVE  IsBatch(UbatchesOf(S, n, tok, shared))
<1> DEFINE ubs == UbatchesOf(S, n, tok, shared)
           X == TokenSet(tok)
<1>0. NUbatch \in Nat \ {0}
  BY DecodeAssumption
<1>1. CASE Unified
  <2> DEFINE toks == IF shared THEN New(S, n, tok) ELSE NewOfEach(S, n, tok)
             m == (Len(toks) + NUbatch - 1) \div NUbatch
             chunks == Chunks(toks, NUbatch)
  <2>1. toks \in Seq(X)
    BY NewFacts, NewEach
  <2> HIDE DEF toks, X
  <2>2. m \in Nat /\ chunks \in [1 .. m -> Seq(X)]
    BY <1>0, <2>1, ChunkFacts
  <2> HIDE DEF m, chunks
  <2>3. ubs = [k \in 1 .. m |-> [x \in {0} |-> chunks[k]]]
    <3>1. ubs = InStream(0, chunks)
      BY <1>1 DEF UbatchesOf, toks, chunks, NewOfEach, FoldSet, MapThenFoldSet
    <3> QED BY <2>2, <3>1 DEF InStream
  <2>4. \A k \in 1 .. m : ubs[k] \in [{0} -> Seq(X)]
    BY <2>2, <2>3
  <2>5. {0} \in SUBSET Streams
    BY <1>1 DEF Streams
  <2>6. Len(ubs) = m /\ DOMAIN ubs = 1 .. m
    BY <2>2, <2>3
  <2> HIDE DEF ubs
  <2>7. \A k \in 1 .. m : IsUbatch(ubs[k])
    BY <2>4, <2>5, UbatchFacts DEF X
  <2> QED BY <2>2, <2>6, <2>7 DEF IsBatch, ubs
<1>2. CASE ~Unified
  <2> DEFINE per == NUbatch \div Cardinality(S)
             m == (n + per - 1) \div per
             U(k) == [s \in S |-> Chunks(New({s}, n, tok), per)[k]]
  <2>1. per \in Nat \ {0}
    <3>1. Cardinality(S) \in Nat /\ Cardinality(S) # 0 /\ Cardinality(S) <= Cardinality(Seqs) /\ Cardinality(Seqs) \in Nat
      BY SeqsAssumption, FS_Subset, FS_CardinalityType, FS_EmptySet
    <3>2. NUbatch >= Cardinality(Seqs)
      BY <1>2, DecodeAssumption
    <3>3. \A x, y \in Nat : y # 0 /\ x >= y => x \div y \in Nat /\ x \div y # 0
      OBVIOUS
    <3> QED BY <1>0, <3>1, <3>2, <3>3
  <2> HIDE DEF per, X
  <2>2. ASSUME NEW s \in S PROVE m \in Nat /\ Chunks(New({s}, n, tok), per) \in [1 .. m -> Seq(X)]
    <3>1. New({s}, n, tok) \in Seq(X) /\ Len(New({s}, n, tok)) = n
      BY NewFacts DEF X
    <3> QED BY <2>1, <3>1, ChunkFacts
  <2> HIDE DEF m
  <2>3. ubs = [k \in 1 .. m |-> U(k)]
    BY <1>2 DEF UbatchesOf, per, m
  <2>4. m \in Nat
    BY <2>2
  <2>5. \A k \in 1 .. m : U(k) \in [S -> Seq(X)]
    BY <2>2
  <2> HIDE DEF U
  <2>6. Len(ubs) = m /\ DOMAIN ubs = 1 .. m /\ \A k \in 1 .. m : ubs[k] = U(k)
    BY <2>3, <2>4
  <2>7. S \in SUBSET Streams
    BY <1>2 DEF Streams
  <2> HIDE DEF ubs
  <2>8. \A k \in 1 .. m : IsUbatch(ubs[k])
    BY <2>5, <2>6, <2>7, UbatchFacts DEF X
  <2> QED BY <2>4, <2>6, <2>8 DEF IsBatch, ubs
<1> QED BY <1>1, <1>2

-----------------------------------------------------------------------------
(***************************************************************************)
(* Taking a failed micro-batch back.                                       *)
(***************************************************************************)
UndoneOf(c, B, R) == Each(c, R, LAMBDA s, d : WithoutSeq(d, s, FromFirst(B, s)))

\* What a micro-batch that failed has added is removed.
LEMMA UndoneEach ==
  ASSUME NEW c, Exact(c), NEW B, NEW R, IsFiniteSet(R)
  PROVE  LET u == UndoneOf(c, B, R)
         IN /\ Exact(u) /\ u.has_shift = c.has_shift
            /\ \A i \in Idx : Less(c, u, i)
            /\ \A s \in R, i \in Idx : c.pos[i] >= FromFirst(B, s)[1] => s \notin u.seq[i]
<1> DEFINE Good(t, d) == /\ Exact(d) /\ d.has_shift = c.has_shift
                         /\ \A i \in Idx : Less(c, d, i)
                         /\ \A s \in t, i \in Idx : c.pos[i] >= FromFirst(B, s)[1] => s \notin d.seq[i]
           P == {y \in (SUBSET R) \X CellStates : Good(y[1], y[2])}
           Step(x, d) == WithoutSeq(d, x, FromFirst(B, x))
           F == [y \in R \X CellStates |-> IF Step(y[1], y[2]) \in CellStates THEN Step(y[1], y[2]) ELSE y[2]]
           E(h) == [t \in SUBSET R |-> IF t = {} THEN c ELSE Step(Chosen(t), h[t \ {Chosen(t)}])]
<1>1. F \in [R \X CellStates -> CellStates]
  <2> HIDE DEF Step
  <2> QED OBVIOUS
<1>2. IsFiniteSet(R) /\ c \in CellStates /\ Good({}, c)
  <2>1. \A i \in Idx : Less(c, c, i)
    BY DEF Less, Holds
  <2> QED BY <2>1, StatesFacts
<1>3. ASSUME NEW t \in SUBSET R, NEW x \in R \ t, NEW d \in CellStates, Good(t, d)
      PROVE  Good(t \cup {x}, Step(x, d)) /\ Step(x, d) \in CellStates
  <2> DEFINE r == FromFirst(B, x)
             w == WithoutSeq(d, x, r)
  <2>1. Exact(d) /\ d.has_shift = c.has_shift /\ \A i \in Idx : Less(c, d, i)
    BY <1>3
  <2>2. /\ Exact(w) /\ w.has_shift = d.has_shift
        /\ \A i \in Having(d, r, x) : Without(d, w, i, x)
        /\ \A i \in Idx : Less(d, w, i)
    <3> HIDE DEF r
    <3>1. /\ Exact(w) /\ w.has_shift = d.has_shift
          /\ \A i \in Idx : IF i \in Having(d, r, x) THEN Without(d, w, i, x) ELSE Same(d, w, i)
          /\ \A i \in Idx : Less(d, w, i)
      BY <2>1, WithoutExact
    <3>2. Having(d, r, x) \subseteq Idx
      BY DEF Having, InRange
    <3> HIDE DEF w
    <3> QED BY <3>1, <3>2
  <2>3. r[2] = -1 /\ w = Step(x, d)
    BY DEF FromFirst
  <2> HIDE DEF w
  <2>4. \A i \in Idx : Less(c, w, i)
    BY <2>1, <2>2, LessLess
  <2>5. ASSUME NEW s \in t \cup {x}, NEW i \in Idx, c.pos[i] >= FromFirst(B, s)[1] PROVE s \notin w.seq[i]
    <3>1. Less(d, w, i) /\ Less(c, d, i)
      BY <2>1, <2>2
    <3>2. CASE s \notin d.seq[i]
      BY <3>1, <3>2 DEF Less, Gone, Holds
    <3>3. CASE s \in d.seq[i]
      <4>1. s = x
        BY <1>3, <2>5, <3>3
      <4>2. d.pos[i] = c.pos[i]
        BY <3>1, <3>3 DEF Less, Gone, Holds
      <4>3. i \in Having(d, r, x)
        <5>1. pos_in(d, i, r[1], r[2])
          BY <2>3, <2>5, <4>1, <4>2 DEF pos_in
        <5> HIDE DEF r
        <5> QED BY <3>3, <4>1, <5>1 DEF Having, InRange, seq_has
      <4>4. Without(d, w, i, x)
        BY <2>2, <4>3
      <4> QED BY <4>1, <4>4 DEF Without, Gone, Holds
    <3> QED BY <3>2, <3>3
  <2>6. Good(t \cup {x}, w)
    BY <2>1, <2>2, <2>4, <2>5
  <2> QED BY <2>2, <2>3, <2>6, StatesFacts
<1> HIDE DEF Good, Step
<1>4. PICK g : Folds(g, R, CellStates, c, F) /\ \A t \in SUBSET R : Good(t, g[t])
  <2>1. <<{}, c>> \in P
    BY <1>2
  <2>2. Preserves(P, R, CellStates, c, F)
    BY <1>1, <1>2, <1>3, <2>1 DEF Preserves
  <2> HIDE DEF F
  <2>3. \A t, d : <<t, d>> \in P => Good(t, d)
    OBVIOUS
  <2> HIDE DEF P
  <2>4. PICK g : Folds(g, R, CellStates, c, F) /\ \A t \in SUBSET R : <<t, g[t]>> \in P
    BY <2>2, FoldKeeps
  <2> QED BY <2>3, <2>4
<1>5. g = E(g)
  <2>1. ASSUME NEW t \in SUBSET R, t # {} PROVE g[t] = Step(Chosen(t), g[t \ {Chosen(t)}])
    <3>1. Chosen(t) \in t /\ t \ {Chosen(t)} \in SUBSET R
      BY <2>1 DEF Chosen
    <3>2. /\ Chosen(t) \in R \ (t \ {Chosen(t)}) /\ Good(t \ {Chosen(t)}, g[t \ {Chosen(t)}])
          /\ g[t \ {Chosen(t)}] \in CellStates
      BY <1>4, <3>1 DEF Folds
    <3>3. g[t] = F[<<Chosen(t), g[t \ {Chosen(t)}]>>]
      BY <1>4, <2>1 DEF Folds
    <3> QED BY <1>3, <3>1, <3>2, <3>3
  <2> QED BY <1>4, <2>1 DEF Folds
<1>6. ASSUME NEW h, h = E(h) PROVE h[R] = g[R]
  <2> DEFINE T == {t \in SUBSET R : h[t] = g[t]}
  <2>1. {} \in T
    BY <1>5, <1>6
  <2>2. ASSUME NEW t \in SUBSET R, t # {}, t \ {Chosen(t)} \in T PROVE t \in T
    BY <1>5, <1>6, <2>2, ZenonT(60)
  <2> HIDE DEF T, E
  <2>3. SUBSET R \subseteq T
    BY <1>2, <2>1, <2>2, SubsetInduction
  <2> QED BY <2>3 DEF T
<1>7. UndoneOf(c, B, R) = (CHOOSE h : h = E(h))[R]
  BY DEF Each, FoldSet, MapThenFoldSet, Chosen, Step, UndoneOf
<1> HIDE DEF E
<1>8. (CHOOSE h : h = E(h))[R] = g[R]
  BY <1>5, <1>6
<1>9. Good(R, UndoneOf(c, B, R))
  BY <1>4, <1>7, <1>8
<1> QED BY <1>9 DEF Good

\* Ends of prefixes.
PrefixValues == [Seqs -> -1 .. PrefixCap]

LoweredOf(pre, B, R) == FoldSet(LAMBDA s, q : Lowered(q, {s}, FromFirst(B, s)), pre, R)

\* Prefixes stay numbers.
LEMMA LoweredEach ==
  ASSUME NEW pre \in PrefixValues, NEW B, NEW R, IsFiniteSet(R), \A s \in R : FromFirst(B, s)[1] \in Nat
  PROVE  LoweredOf(pre, B, R) \in PrefixValues
<1> DEFINE Good(t, d) == d \in PrefixValues
           P == {y \in (SUBSET R) \X PrefixValues : Good(y[1], y[2])}
           Step(x, d) == Lowered(d, {x}, FromFirst(B, x))
           F == [y \in R \X PrefixValues |-> IF Step(y[1], y[2]) \in PrefixValues THEN Step(y[1], y[2]) ELSE y[2]]
           E(h) == [t \in SUBSET R |-> IF t = {} THEN pre ELSE Step(Chosen(t), h[t \ {Chosen(t)}])]
<1>1. F \in [R \X PrefixValues -> PrefixValues]
  <2> HIDE DEF Step
  <2> QED OBVIOUS
<1>2. IsFiniteSet(R) /\ pre \in PrefixValues /\ Good({}, pre)
  OBVIOUS
<1>3. ASSUME NEW t \in SUBSET R, NEW x \in R \ t, NEW d \in PrefixValues, Good(t, d)
      PROVE  Good(t \cup {x}, Step(x, d)) /\ Step(x, d) \in PrefixValues
  <2>1. FromFirst(B, x)[1] \in Nat
    OBVIOUS
  <2> DEFINE r == FromFirst(B, x)
  <2> HIDE DEF r
  <2>2. Lowered(d, {x}, r) \in PrefixValues
    BY <2>1, ArgumentsAssumption DEF Lowered, r, PrefixValues
  <2> QED BY <2>2 DEF r
<1> HIDE DEF Good, Step
<1>4. PICK g : Folds(g, R, PrefixValues, pre, F) /\ \A t \in SUBSET R : Good(t, g[t])
  <2>1. <<{}, pre>> \in P
    BY <1>2
  <2>2. Preserves(P, R, PrefixValues, pre, F)
    BY <1>1, <1>2, <1>3, <2>1 DEF Preserves
  <2> HIDE DEF F
  <2>3. \A t, d : <<t, d>> \in P => Good(t, d)
    OBVIOUS
  <2> HIDE DEF P
  <2>4. PICK g : Folds(g, R, PrefixValues, pre, F) /\ \A t \in SUBSET R : <<t, g[t]>> \in P
    BY <2>2, FoldKeeps
  <2> QED BY <2>3, <2>4
<1>5. g = E(g)
  <2>1. ASSUME NEW t \in SUBSET R, t # {} PROVE g[t] = Step(Chosen(t), g[t \ {Chosen(t)}])
    <3>1. Chosen(t) \in t /\ t \ {Chosen(t)} \in SUBSET R
      BY <2>1 DEF Chosen
    <3>2. /\ Chosen(t) \in R \ (t \ {Chosen(t)}) /\ Good(t \ {Chosen(t)}, g[t \ {Chosen(t)}])
          /\ g[t \ {Chosen(t)}] \in PrefixValues
      BY <1>4, <3>1 DEF Folds
    <3>3. g[t] = F[<<Chosen(t), g[t \ {Chosen(t)}]>>]
      BY <1>4, <2>1 DEF Folds
    <3> QED BY <1>3, <3>1, <3>2, <3>3
  <2> QED BY <1>4, <2>1 DEF Folds
<1>6. ASSUME NEW h, h = E(h) PROVE h[R] = g[R]
  <2> DEFINE T == {t \in SUBSET R : h[t] = g[t]}
  <2>1. {} \in T
    BY <1>5, <1>6
  <2>2. ASSUME NEW t \in SUBSET R, t # {}, t \ {Chosen(t)} \in T PROVE t \in T
    BY <1>5, <1>6, <2>2, ZenonT(60)
  <2> HIDE DEF T, E
  <2>3. SUBSET R \subseteq T
    BY <1>2, <2>1, <2>2, SubsetInduction
  <2> QED BY <2>3 DEF T
<1>7. LoweredOf(pre, B, R) = (CHOOSE h : h = E(h))[R]
  BY DEF FoldSet, MapThenFoldSet, Chosen, Step, LoweredOf
<1> HIDE DEF E
<1>8. (CHOOSE h : h = E(h))[R] = g[R]
  BY <1>5, <1>6
<1>9. Good(R, LoweredOf(pre, B, R))
  BY <1>4, <1>7, <1>8
<1> QED BY <1>9 DEF Good

-----------------------------------------------------------------------------
(***************************************************************************)
(* Copies to other streams.                                                *)
(***************************************************************************)
\* What is counted once more and once less is counted as before.
LEMMA CountedOnce ==
  ASSUME NEW B \in Counts, NEW p \in Int
  PROVE  (B (+) SetToBag({p})) (-) SetToBag({p}) = B
<1> DEFINE A == B (+) SetToBag({p})
<1>1. PICK P \in SUBSET Int : B \in [P -> Nat \ {0}]
  BY DEF Counts
<1>2. A = [e \in P \cup {p} |-> (IF e \in P THEN B[e] ELSE 0) + (IF e \in {p} THEN 1 ELSE 0)]
  BY <1>1 DEF SetToBag, (+)
<1>3. DOMAIN A = P \cup {p} /\ \A e \in P \cup {p} : A[e] = (IF e \in P THEN B[e] ELSE 0) + (IF e = p THEN 1 ELSE 0)
  BY <1>2
<1> HIDE DEF A
<1> DEFINE M == [e \in P \cup {p} |-> IF e = p THEN A[e] - 1 ELSE A[e]]
<1>4. A (-) SetToBag({p}) = [e \in {e \in DOMAIN M : M[e] > 0} |-> M[e]]
  BY <1>3 DEF SetToBag, (-)
<1>5. \A e \in P : M[e] = B[e] /\ B[e] \in Nat /\ B[e] > 0
  BY <1>1, <1>3
<1>6. p \notin P => M[p] = 0
  BY <1>3
<1>7. DOMAIN M = P \cup {p}
  OBVIOUS
<1> HIDE DEF M
<1>8. {e \in DOMAIN M : M[e] > 0} = P
  <2>1. \A e \in P : e \in DOMAIN M /\ M[e] > 0
    BY <1>5, <1>7
  <2>2. \A e \in DOMAIN M : e \notin P => e = p
    BY <1>7
  <2>3. ASSUME NEW e \in DOMAIN M, M[e] > 0 PROVE e \in P
    <3>1. CASE e \in P
      BY <3>1
    <3>2. CASE e \notin P
      BY <1>6, <2>2, <2>3, <3>2
    <3> QED BY <3>1, <3>2
  <2> QED BY <2>1, <2>3
<1>9. A (-) SetToBag({p}) = [e \in P |-> B[e]]
  BY <1>4, <1>5, <1>8
<1> QED BY <1>1, <1>9 DEF A

\* A cell that is copied to an empty one: the position is where it was before the pending
\* shift, and is counted there until the shift is added again.
LEMMA CopyCellExact ==
  ASSUME NEW c, Exact(c), NEW d, Exact(d), NEW i \in Idx, c.pos[i] # -1, d.pos[i] = -1, NEW s \in Seqs
  PROVE  Exact(CopyCell(d, c, i, s)) /\ Cell(d, CopyCell(d, c, i, s), i, c.pos[i], {s}, c.shift[i])
<1> DEFINE p == c.pos[i] - c.shift[i]
           m == c.shift[i]
           placed == seq_add(pos_set(d, i, p), i, s)
<1>0. CellsType(d) /\ c.pos[i] \in Nat /\ m \in Int /\ p \in Int /\ p + m = c.pos[i] /\ (m = 0 => p = c.pos[i])
      /\ d.seq[i] = {} /\ d.shift[i] = 0 /\ d.used \in SUBSET Idx
  <2>1. CellsType(d) /\ d.used \in SUBSET Idx
    BY DEF Exact, CellsType
  <2> QED BY <2>1, UsedFacts
<1>m. m = c.shift[i]
  OBVIOUS
<1>c. CopyCell(d, c, i, s) = IF m = 0 THEN placed ELSE pos_add(placed, i, m)
  BY DEF CopyCell
<1> HIDE DEF p, m
<1>p. /\ Shape(placed) /\ Cell(d, placed, i, p, {s}, 0)
      /\ placed.used = d.used \cup {i} /\ placed.has_shift = d.has_shift
      /\ placed.seq_pos = [d.seq_pos EXCEPT ![s] = @ (+) SetToBag({p})]
  BY <1>0 DEF seq_add, pos_set, seq_pos_inc, CellsType, Shape, Members, Cell
<1>1. CASE m = 0
  <2>1. p \in Nat /\ p = c.pos[i]
    BY <1>0, <1>1
  <2> DEFINE b == pos_set(d, i, p)
  <2>2. Exact(b) /\ Cell(d, b, i, p, {}, 0)
    BY <2>1, PosSetExact
  <2>3. placed = seq_add(b, i, s)
    OBVIOUS
  <2> HIDE DEF b
  <2>4. b.pos[i] # -1 /\ s \notin b.seq[i]
    BY <1>0, <2>1, <2>2 DEF Cell, CellsType
  <2>5. Exact(seq_add(b, i, s))
    BY <2>2, <2>4, SeqAddExact
  <2> HIDE DEF placed
  <2> QED BY <1>1, <1>c, <1>m, <1>p, <2>1, <2>3, <2>5
<1> HIDE DEF placed
<1>2. CASE m # 0
  <2> DEFINE e == CopyCell(d, c, i, s)
             moved == [seq_pos_rm(placed, i) EXCEPT !.pos[i] = @ + m, !.shift[i] = @ + m, !.has_shift = TRUE]
  <2>2. placed.pos \in [Idx -> Int] /\ placed.seq \in [Idx -> SUBSET Seqs] /\ placed.shift \in [Idx -> Int]
        /\ placed.pos[i] = p /\ placed.seq[i] = {s} /\ placed.shift[i] = 0
    BY <1>0, <1>p DEF Cell, CellsType
  <2>3. /\ Shape(moved)
        /\ moved.pos = [placed.pos EXCEPT ![i] = placed.pos[i] + m] /\ moved.seq = placed.seq
        /\ moved.shift = [placed.shift EXCEPT ![i] = placed.shift[i] + m] /\ moved.used = placed.used
        /\ moved.has_shift = TRUE
        /\ moved.seq_pos = [t \in Seqs |-> IF t \in placed.seq[i] THEN placed.seq_pos[t] (-) SetToBag({placed.pos[i]}) ELSE placed.seq_pos[t]]
    BY <1>p DEF seq_pos_rm, Shape, Members
  <2>4. pos_add(placed, i, m) = IF moved.pos[i] < 0 THEN Emptied(moved, i) ELSE seq_pos_add(moved, i)
    BY DEF pos_add
  <2> HIDE DEF moved, e
  <2>5. moved.pos[i] = c.pos[i] /\ moved.seq[i] = {s} /\ moved.shift[i] = m /\ ~(moved.pos[i] < 0)
    BY <1>0, <2>2, <2>3
  <2>6. e = seq_pos_add(moved, i)
    BY <1>2, <1>c, <2>4, <2>5 DEF e
  <2>7. /\ Shape(e) /\ e.pos = moved.pos /\ e.seq = moved.seq /\ e.shift = moved.shift
        /\ e.used = moved.used /\ e.has_shift = TRUE
        /\ e.seq_pos = [t \in Seqs |-> IF t \in moved.seq[i] THEN moved.seq_pos[t] (+) SetToBag({moved.pos[i]}) ELSE moved.seq_pos[t]]
    BY <2>3, <2>6 DEF seq_pos_add, Shape, Members
  <2>8. /\ placed.pos = [d.pos EXCEPT ![i] = p] /\ placed.seq = [d.seq EXCEPT ![i] = {s}]
        /\ placed.shift = [d.shift EXCEPT ![i] = 0] /\ d.pos \in [Idx -> Int] /\ d.seq \in [Idx -> SUBSET Seqs]
        /\ d.shift \in [Idx -> Int]
    BY <1>0, <1>p DEF Cell, CellsType
  <2>9. Cell(d, e, i, c.pos[i], {s}, m)
    <3>1. moved.pos = [d.pos EXCEPT ![i] = c.pos[i]]
      BY <1>0, <2>2, <2>3, <2>8
    <3>2. moved.shift = [d.shift EXCEPT ![i] = m]
      BY <1>0, <2>2, <2>3, <2>8
    <3> QED BY <2>3, <2>7, <2>8, <3>1, <3>2 DEF Cell
  <2>10. d.seq_pos \in [Seqs -> Counts] /\ d.seq_pos[s] \in Counts
    BY <1>0 DEF CellsType
  <2>11. (d.seq_pos[s] (+) SetToBag({p})) (-) SetToBag({p}) = d.seq_pos[s]
    BY <1>0, <2>10, CountedOnce
  <2>12. placed.seq_pos[s] = d.seq_pos[s] (+) SetToBag({p}) /\ \A t \in Seqs : t # s => placed.seq_pos[t] = d.seq_pos[t]
    BY <1>p, <2>10
  <2>13. \A t \in Seqs : moved.seq_pos[t] = IF t = s THEN placed.seq_pos[t] (-) SetToBag({p}) ELSE placed.seq_pos[t]
    BY <2>2, <2>3
  <2>14. \A t \in Seqs : moved.seq_pos[t] = d.seq_pos[t]
    BY <2>11, <2>12, <2>13
  <2>15. e.pos[i] = c.pos[i] /\ e.seq[i] = {s} /\ e.shift[i] = m
    BY <2>5, <2>7
  <2>16. \A t \in Seqs : e.seq_pos[t] = IF t \in e.seq[i] THEN d.seq_pos[t] (+) SetToBag({e.pos[i]}) ELSE d.seq_pos[t]
    BY <2>5, <2>7, <2>14, <2>15
  <2>17. \A t \in Seqs : e.seq_pos[t] = Recount(d.seq_pos[t], t \in d.seq[i], d.pos[i], t \in e.seq[i], e.pos[i])
    BY <1>0, <2>16 DEF Recount
  <2>18. \E p_ \in Int, q_ \in SUBSET Seqs, sh_ \in Int : Cell(d, e, i, p_, q_, sh_)
    <3>1. c.pos[i] \in Int /\ {s} \in SUBSET Seqs /\ m \in Int
      BY <1>0
    <3> QED BY <2>9, <3>1
  <2>19. Follows(d, e, i)
    <3>1. e.pos[i] >= -1 /\ e.pos[i] # -1
      BY <1>0, <2>15
    <3>2. e.used = IF e.pos[i] = -1 THEN d.used \ {i} ELSE d.used \cup {i}
      BY <1>p, <2>3, <2>7, <3>1
    <3>3. e.has_shift \in BOOLEAN /\ (d.has_shift \/ e.shift[i] # 0 => e.has_shift)
      BY <2>7, Zenon
    <3>4. e.seq_pos = [t \in Seqs |-> e.seq_pos[t]]
      BY <2>7
    <3> QED BY <2>17, <2>18, <3>1, <3>2, <3>3, <3>4 DEF Follows
  <2>20. Exact(e)
    BY <2>7, <2>19, CellChanged
  <2> QED BY <1>m, <2>9, <2>20 DEF e
<1> QED BY <1>1, <1>2

CopiedOf(c, I, s) == Each(Reset, I, LAMBDA i, d : CopyCell(d, c, i, s))

\* A copy to an empty stream is exact, whatever shifts are pending.
LEMMA CopyEach ==
  ASSUME NEW c, Exact(c), NEW I \in SUBSET Idx, \A i \in I : c.pos[i] # -1, NEW s \in Seqs
  PROVE  LET u == CopiedOf(c, I, s)
         IN /\ Exact(u)
            /\ \A i \in Idx : IF i \in I THEN Holds(u, i, c.pos[i], {s}, c.shift[i]) ELSE Gone(u, i)
<1> DEFINE Good(t, d) == /\ Exact(d) /\ \A i \in t : Holds(d, i, c.pos[i], {s}, c.shift[i])
                         /\ \A i \in Idx \ t : Gone(d, i)
           P == {y \in (SUBSET I) \X CellStates : Good(y[1], y[2])}
           Step(x, d) == CopyCell(d, c, x, s)
           F == [y \in I \X CellStates |-> IF Step(y[1], y[2]) \in CellStates THEN Step(y[1], y[2]) ELSE y[2]]
           E(h) == [t \in SUBSET I |-> IF t = {} THEN Reset ELSE Step(Chosen(t), h[t \ {Chosen(t)}])]
<1>1. F \in [I \X CellStates -> CellStates]
  <2> HIDE DEF Step
  <2> QED OBVIOUS
<1>2. IsFiniteSet(I) /\ Reset \in CellStates /\ Good({}, Reset)
  <2>1. Exact(Reset) /\ \A i \in Idx : Gone(Reset, i)
    BY ResetExact DEF Reset, Gone, Holds
  <2> QED BY <2>1, IdxFinite, FS_Subset, StatesFacts
<1>3. ASSUME NEW t \in SUBSET I, NEW x \in I \ t, NEW d \in CellStates, Good(t, d)
      PROVE  Good(t \cup {x}, Step(x, d)) /\ Step(x, d) \in CellStates
  <2> DEFINE w == CopyCell(d, c, x, s)
  <2>1. Exact(d) /\ Gone(d, x)
    BY <1>3
  <2>2. d.pos[x] = -1 /\ c.pos[x] # -1
    BY <2>1 DEF Gone, Holds
  <2>3. Exact(w) /\ Cell(d, w, x, c.pos[x], {s}, c.shift[x])
    BY <2>1, <2>2, CopyCellExact
  <2>4. w = Step(x, d) /\ x \in Idx
    OBVIOUS
  <2> HIDE DEF w
  <2>5. Holds(w, x, c.pos[x], {s}, c.shift[x]) /\ \A j \in Idx \ {x} : Same(d, w, j)
    BY <2>1, <2>3, <2>4, CellIs
  <2>6. Good(t \cup {x}, w)
    <3>1. \A i \in t : i \in Idx \ {x}
      OBVIOUS
    <3> QED BY <1>3, <2>3, <2>5, <3>1 DEF Same, Holds, Gone
  <2> QED BY <2>3, <2>4, <2>6, StatesFacts
<1> HIDE DEF Good, Step
<1>4. PICK g : Folds(g, I, CellStates, Reset, F) /\ \A t \in SUBSET I : Good(t, g[t])
  <2>1. <<{}, Reset>> \in P
    BY <1>2
  <2>2. Preserves(P, I, CellStates, Reset, F)
    BY <1>1, <1>2, <1>3, <2>1 DEF Preserves
  <2> HIDE DEF F
  <2>3. \A t, d : <<t, d>> \in P => Good(t, d)
    OBVIOUS
  <2> HIDE DEF P
  <2>4. PICK g : Folds(g, I, CellStates, Reset, F) /\ \A t \in SUBSET I : <<t, g[t]>> \in P
    BY <2>2, FoldKeeps
  <2> QED BY <2>3, <2>4
<1>5. g = E(g)
  <2>1. ASSUME NEW t \in SUBSET I, t # {} PROVE g[t] = Step(Chosen(t), g[t \ {Chosen(t)}])
    <3>1. Chosen(t) \in t /\ t \ {Chosen(t)} \in SUBSET I
      BY <2>1 DEF Chosen
    <3>2. /\ Chosen(t) \in I \ (t \ {Chosen(t)}) /\ Good(t \ {Chosen(t)}, g[t \ {Chosen(t)}])
          /\ g[t \ {Chosen(t)}] \in CellStates
      BY <1>4, <3>1 DEF Folds
    <3>3. g[t] = F[<<Chosen(t), g[t \ {Chosen(t)}]>>]
      BY <1>4, <2>1 DEF Folds
    <3> QED BY <1>3, <3>1, <3>2, <3>3
  <2> QED BY <1>4, <2>1 DEF Folds
<1>6. ASSUME NEW h, h = E(h) PROVE h[I] = g[I]
  <2> DEFINE T == {t \in SUBSET I : h[t] = g[t]}
  <2>1. {} \in T
    BY <1>5, <1>6
  <2>2. ASSUME NEW t \in SUBSET I, t # {}, t \ {Chosen(t)} \in T PROVE t \in T
    BY <1>5, <1>6, <2>2, ZenonT(60)
  <2> HIDE DEF T, E
  <2>3. SUBSET I \subseteq T
    BY <1>2, <2>1, <2>2, SubsetInduction
  <2> QED BY <2>3 DEF T
<1>7. CopiedOf(c, I, s) = (CHOOSE h : h = E(h))[I]
  BY DEF Each, FoldSet, MapThenFoldSet, Chosen, Step, CopiedOf
<1> HIDE DEF E
<1>8. (CHOOSE h : h = E(h))[I] = g[I]
  BY <1>5, <1>6
<1>9. Good(I, CopiedOf(c, I, s))
  BY <1>4, <1>7, <1>8
<1> QED BY <1>9 DEF Good

FilledOf(toks, K) == FoldSet(LAMBDA k, c : Place(c, k - 1, toks[k]), Reset, K)

\* A stream that is filled from a saved state is exact.
LEMMA FilledEach ==
  ASSUME NEW toks, NEW K \in SUBSET Nat, IsFiniteSet(K), \A k \in K : k - 1 \in Idx /\ IsToken(toks[k])
  PROVE  LET u == FilledOf(toks, K)
         IN /\ Exact(u) /\ u.has_shift = FALSE
            /\ \A i \in Idx : IF i + 1 \in K THEN Holds(u, i, toks[i + 1].pos, toks[i + 1].seqs, 0) ELSE Gone(u, i)
<1> DEFINE Good(t, d) ==
             /\ Exact(d) /\ d.has_shift = FALSE
             /\ \A i \in Idx : IF i + 1 \in t THEN Holds(d, i, toks[i + 1].pos, toks[i + 1].seqs, 0) ELSE Gone(d, i)
           P == {y \in (SUBSET K) \X CellStates : Good(y[1], y[2])}
           Step(x, d) == Place(d, x - 1, toks[x])
           F == [y \in K \X CellStates |-> IF Step(y[1], y[2]) \in CellStates THEN Step(y[1], y[2]) ELSE y[2]]
           E(h) == [t \in SUBSET K |-> IF t = {} THEN Reset ELSE Step(Chosen(t), h[t \ {Chosen(t)}])]
<1>1. F \in [K \X CellStates -> CellStates]
  <2> HIDE DEF Step
  <2> QED OBVIOUS
<1>2. IsFiniteSet(K) /\ Reset \in CellStates /\ Good({}, Reset)
  <2>1. Reset.has_shift = FALSE /\ \A i \in Idx : Gone(Reset, i)
    BY DEF Reset, Gone, Holds
  <2> QED BY <2>1, ResetExact, StatesFacts
<1>3. ASSUME NEW t \in SUBSET K, NEW x \in K \ t, NEW d \in CellStates, Good(t, d)
      PROVE  Good(t \cup {x}, Step(x, d)) /\ Step(x, d) \in CellStates
  <2>1. Exact(d) /\ d.has_shift = FALSE /\ x - 1 \in Idx /\ IsToken(toks[x])
    BY <1>3
  <2> DEFINE w == Place(d, x - 1, toks[x])
  <2>2. /\ Exact(w) /\ w.has_shift = d.has_shift
        /\ Holds(w, x - 1, toks[x].pos, toks[x].seqs, 0) /\ \A j \in Idx \ {x - 1} : Same(d, w, j)
    BY <2>1, PlaceExact
  <2>3. w = Step(x, d) /\ x \in Nat
    OBVIOUS
  <2> HIDE DEF w
  <2>4. ASSUME NEW i \in Idx
        PROVE  IF i + 1 \in t \cup {x} THEN Holds(w, i, toks[i + 1].pos, toks[i + 1].seqs, 0) ELSE Gone(w, i)
    <3>1. i \in Int
      BY IdxFinite
    <3>2. CASE i = x - 1
      <4>1. i + 1 = x
        BY <2>3, <3>2
      <4> QED BY <2>2, <3>2, <4>1
    <3>3. CASE i # x - 1
      <4>1. i + 1 # x /\ Same(d, w, i)
        BY <2>2, <2>3, <3>1, <3>3
      <4> QED BY <1>3, <4>1 DEF Same, Holds, Gone
    <3> QED BY <3>2, <3>3
  <2>5. Good(t \cup {x}, w)
    BY <2>1, <2>2, <2>4
  <2> QED BY <2>2, <2>3, <2>5, StatesFacts
<1> HIDE DEF Good, Step
<1>4. PICK g : Folds(g, K, CellStates, Reset, F) /\ \A t \in SUBSET K : Good(t, g[t])
  <2>1. <<{}, Reset>> \in P
    BY <1>2
  <2>2. Preserves(P, K, CellStates, Reset, F)
    BY <1>1, <1>2, <1>3, <2>1 DEF Preserves
  <2> HIDE DEF F
  <2>3. \A t, d : <<t, d>> \in P => Good(t, d)
    OBVIOUS
  <2> HIDE DEF P
  <2>4. PICK g : Folds(g, K, CellStates, Reset, F) /\ \A t \in SUBSET K : <<t, g[t]>> \in P
    BY <2>2, FoldKeeps
  <2> QED BY <2>3, <2>4
<1>5. g = E(g)
  <2>1. ASSUME NEW t \in SUBSET K, t # {} PROVE g[t] = Step(Chosen(t), g[t \ {Chosen(t)}])
    <3>1. Chosen(t) \in t /\ t \ {Chosen(t)} \in SUBSET K
      BY <2>1 DEF Chosen
    <3>2. /\ Chosen(t) \in K \ (t \ {Chosen(t)}) /\ Good(t \ {Chosen(t)}, g[t \ {Chosen(t)}])
          /\ g[t \ {Chosen(t)}] \in CellStates
      BY <1>4, <3>1 DEF Folds
    <3>3. g[t] = F[<<Chosen(t), g[t \ {Chosen(t)}]>>]
      BY <1>4, <2>1 DEF Folds
    <3> QED BY <1>3, <3>1, <3>2, <3>3
  <2> QED BY <1>4, <2>1 DEF Folds
<1>6. ASSUME NEW h, h = E(h) PROVE h[K] = g[K]
  <2> DEFINE T == {t \in SUBSET K : h[t] = g[t]}
  <2>1. {} \in T
    BY <1>5, <1>6
  <2>2. ASSUME NEW t \in SUBSET K, t # {}, t \ {Chosen(t)} \in T PROVE t \in T
    BY <1>5, <1>6, <2>2, ZenonT(60)
  <2> HIDE DEF T, E
  <2>3. SUBSET K \subseteq T
    BY <1>2, <2>1, <2>2, SubsetInduction
  <2> QED BY <2>3 DEF T
<1>7. FilledOf(toks, K) = (CHOOSE h : h = E(h))[K]
  BY DEF Each, FoldSet, MapThenFoldSet, Chosen, Step, FilledOf
<1> HIDE DEF E
<1>8. (CHOOSE h : h = E(h))[K] = g[K]
  BY <1>5, <1>6
<1>9. Good(K, FilledOf(toks, K))
  BY <1>4, <1>7, <1>8
<1> QED BY <1>9 DEF Good

\* Where the search starts after cells were freed.
LEMMA HeadFacts ==
  ASSUME NEW c, NEW d
  PROVE  /\ Freed(c, d) # {} => Min(Freed(c, d)) \in Idx
         /\ \A h \in 0 .. NCells : HeadAfter(h, c, d) \in 0 .. NCells
<1>1. Freed(c, d) \in SUBSET Nat /\ Freed(c, d) \subseteq Idx /\ Idx \subseteq Nat
  BY CellsAssumption DEF Freed, Idx
<1>2. Freed(c, d) # {} => Min(Freed(c, d)) \in Freed(c, d)
  BY <1>1, MinFacts
<1>3. Idx \subseteq 0 .. NCells
  BY CellsAssumption DEF Idx
<1> QED BY <1>1, <1>2, <1>3 DEF HeadAfter

\* The k-th of the saved tokens was in the cell i.
SavedFrom(st, I, k, i) ==
  /\ Saved(st, I).cells[k].pos = cells[st].pos[i] /\ Saved(st, I).cells[k].seqs = cells[st].seq[i]
  /\ Saved(st, I).data[k] = data[st][i]

\* What is saved are tokens, as many as there are cells.
LEMMA SavedFacts ==
  ASSUME AllExact(cells), NEW st \in Streams, NEW I \in SUBSET Idx, \A i \in I : cells[st].pos[i] # -1
  PROVE  LET toks == Saved(st, I).cells
         IN /\ Len(toks) \in Nat /\ DOMAIN toks = 1 .. Len(toks) /\ Len(toks) <= NCells
            /\ (I = {}) <=> (Len(toks) = 0)
            /\ \A k \in DOMAIN toks : IsToken(toks[k]) /\ \E i \in I : SavedFrom(st, I, k, i)
            /\ \A i \in I : \E k \in DOMAIN toks : SavedFrom(st, I, k, i)
            /\ DOMAIN Saved(st, I).data = DOMAIN toks
<1> DEFINE n == Cardinality(I)
           q == Increasing(I)
           toks == Saved(st, I).cells
<1>1. I \in SUBSET Int /\ IsFiniteSet(I)
  BY IdxFinite, FS_Subset
<1>2. /\ n \in Nat /\ DOMAIN q = 1 .. n /\ \A k \in 1 .. n : q[k] \in I
      /\ \A i \in I : \E k \in 1 .. n : q[k] = i
  BY <1>1, IncreasingFacts
<1>3. n <= NCells /\ (I = {} <=> n = 0)
  <2>1. Cardinality(Idx) = NCells
    <3>1. NCells \in Nat \ {0}
      BY CellsAssumption
    <3>2. 0 \in Int /\ NCells - 1 \in Int /\ (NCells - 1) - 0 + 1 = NCells /\ ~(0 > NCells - 1)
      BY <3>1
    <3>3. Cardinality(0 .. NCells - 1) = IF 0 > NCells - 1 THEN 0 ELSE (NCells - 1) - 0 + 1
      BY <3>2, FS_Interval
    <3> QED BY <3>2, <3>3 DEF Idx
  <2> QED BY <1>1, <2>1, IdxFinite, FS_Subset, FS_EmptySet
<1>4. toks = [k \in 1 .. n |-> [pos |-> cells[st].pos[q[k]], seqs |-> cells[st].seq[q[k]]]]
  BY <1>2 DEF Saved
<1>7. Saved(st, I).data = [k \in 1 .. n |-> data[st][q[k]]]
  BY <1>2 DEF Saved
<1> HIDE DEF n, q
<1>8. \A k \in 1 .. n : SavedFrom(st, I, k, q[k])
  BY <1>4, <1>7 DEF SavedFrom
<1>9. DOMAIN Saved(st, I).data = 1 .. n
  BY <1>7
<1> HIDE DEF toks
<1>5. Len(toks) = n /\ DOMAIN toks = 1 .. n
  BY <1>2, <1>4
<1>6. ASSUME NEW k \in 1 .. n PROVE IsToken(toks[k])
  <2>1. q[k] \in Idx /\ cells[st].pos[q[k]] # -1 /\ Exact(cells[st])
    BY <1>2 DEF AllExact
  <2>2. cells[st].pos[q[k]] \in Nat /\ cells[st].seq[q[k]] \in SUBSET Seqs
    BY <2>1, UsedFacts
  <2> QED BY <1>4, <2>2 DEF IsToken
<1> QED BY <1>2, <1>3, <1>5, <1>6, <1>8, <1>9 DEF toks

\* From the first position of a sequence among given tokens on.
LEMMA FromFirstFacts ==
  ASSUME NEW T, \A t \in T : IsToken(t), NEW s \in Firsts(T)
  PROVE  FromFirst(T, s)[1] \in Nat /\ \A t \in T : First(t) = s => t.pos >= FromFirst(T, s)[1]
<1> DEFINE P == {t.pos : t \in {t \in T : First(t) = s}}
<1>1. P \in SUBSET Nat /\ P # {}
  BY DEF Firsts, IsToken
<1>2. \A t \in T : First(t) = s => t.pos \in P
  OBVIOUS
<1>3. FromFirst(T, s)[1] = Min(P)
  BY DEF FromFirst
<1> HIDE DEF P
<1>4. Min(P) \in Nat /\ \A p \in P : Min(P) <= p
  BY <1>1, MinFacts
<1>5. \A t \in T : First(t) = s => t.pos >= Min(P)
  BY <1>1, <1>2, <1>4
<1> QED BY <1>3, <1>4, <1>5

(***************************************************************************)
(* The invariant: the cells of all streams are exact, the searches start   *)
(* at numbers, prefixes are numbers, and what is still to be computed has  *)
(* places in the caches.                                                   *)
(***************************************************************************)
Works(q) == (\E X : q \in Seq(X)) /\ \A k \in 1 .. Len(q) : IsPlace(q[k].slot, q[k].ub)
KvInv ==
  /\ AllExact(cells)
  /\ head \in Heads
  /\ prefix \in PrefixValues
  /\ Works(todo)

\* One stream changes.
LEMMA OneChanged ==
  ASSUME NEW C, AllExact(C), NEW st \in Streams, NEW d, Exact(d)
  PROVE  AllExact([C EXCEPT ![st] = d])
BY StatesFacts DEF AllExact

\* All streams change.
LEMMA AllChanged ==
  ASSUME NEW D, D = [st \in Streams |-> D[st]], \A st \in Streams : Exact(D[st])
  PROVE  AllExact(D)
<1>1. \A st \in Streams : D[st] \in CellStates
  BY StatesFacts
<1> QED BY <1>1 DEF AllExact

\* Ranges are of numbers.
LEMMA RangeFacts == ASSUME NEW r \in Ranges PROVE r[1] \in Nat /\ r[2] \in Int
BY ArgumentsAssumption DEF Ranges, Store!Ranges

\* Prefixes stay numbers.
LEMMA LoweredFacts ==
  ASSUME NEW pre \in PrefixValues, NEW S, NEW r, r[1] \in Nat
  PROVE  Lowered(pre, S, r) \in PrefixValues
BY ArgumentsAssumption DEF Lowered, PrefixValues

\* Only cells that hold something are in a sequence.
LEMMA HavingFacts ==
  ASSUME NEW c, Exact(c), NEW r, NEW s
  PROVE  Having(c, r, s) \in SUBSET Idx /\ \A i \in Having(c, r, s) : c.pos[i] # -1 /\ s \in c.seq[i]
<1>1. \A i \in Idx : c.pos[i] = -1 => c.seq[i] = {}
  BY UsedFacts
<1> QED BY <1>1 DEF Having, InRange, seq_has

\* At the start the cells are reset and there is nothing to compute.
LEMMA InitInv == Init => KvInv
<1> SUFFICES ASSUME Init PROVE KvInv
  OBVIOUS
<1>1. AllExact(cells)
  <2>1. cells = [st \in Streams |-> cells[st]] /\ \A st \in Streams : cells[st] = Reset
    BY DEF Init
  <2> QED BY <2>1, ResetExact, AllChanged
<1>2. head \in Heads /\ prefix \in PrefixValues
  BY CellsAssumption, ArgumentsAssumption DEF Init, Heads, PrefixValues, Store!NoPrefix
<1>3. Works(todo)
  <2>1. todo \in Seq({}) /\ Len(todo) = 0
    BY DEF Init
  <2> QED BY <2>1 DEF Works
<1> QED BY <1>1, <1>2, <1>3 DEF KvInv

\* clear() resets all cells.
LEMMA ClearKeeps == ASSUME KvInv, NEW zero \in BOOLEAN, Clear(zero) PROVE KvInv'
<1>1. AllExact(cells')
  <2>1. cells' = [st \in Streams |-> cells'[st]] /\ \A st \in Streams : cells'[st] = Reset
    BY DEF Clear
  <2> QED BY <2>1, ResetExact, AllChanged
<1>2. head' \in Heads /\ prefix' \in PrefixValues /\ todo' = todo
  BY CellsAssumption, ArgumentsAssumption DEF Clear, Heads, PrefixValues, Store!NoPrefix
<1> QED BY <1>1, <1>2 DEF KvInv

\* seq_rm of one sequence.
LEMMA SeqRmKeeps == ASSUME KvInv, NEW s \in Seqs, NEW r \in Ranges, SeqRm(s, r) PROVE KvInv'
<1> DEFINE st == StreamOf(s)
           d  == WithoutSeq(cells[st], s, r)
<1>1. st \in Streams /\ Exact(cells[st])
  BY StreamFacts DEF KvInv, AllExact
<1>2. Exact(d)
  BY <1>1, WithoutExact
<1>3. cells' = [cells EXCEPT ![st] = d] /\ head' = [head EXCEPT ![st] = HeadAfter(@, cells[st], d)] /\ todo' = todo
      /\ prefix' = Lowered(prefix, {s}, r)
  BY DEF SeqRm
<1> HIDE DEF st, d
<1>4. AllExact(cells')
  BY <1>1, <1>2, <1>3, OneChanged DEF KvInv
<1>5. head' \in Heads
  BY <1>1, <1>3, HeadFacts DEF KvInv, Heads
<1>6. prefix' \in PrefixValues
  BY <1>3, RangeFacts, LoweredFacts DEF KvInv
<1> QED BY <1>3, <1>4, <1>5, <1>6 DEF KvInv

\* seq_rm of every sequence empties the cells in the range.
LEMMA SeqRmAllKeeps == ASSUME KvInv, NEW r \in Ranges, SeqRmAll(r) PROVE KvInv'
<1>1. cells' = [st \in Streams |-> RmOf(cells[st], InRange(cells[st], r))] /\ todo' = todo
      /\ prefix' = Lowered(prefix, Seqs, r) /\ head' = [st \in Streams |-> HeadAfter(head[st], cells[st], cells'[st])]
  BY DEF SeqRmAll, RmOf, Each, FoldSet, MapThenFoldSet
<1>2. ASSUME NEW st \in Streams PROVE Exact(RmOf(cells[st], InRange(cells[st], r)))
  <2>1. Exact(cells[st]) /\ InRange(cells[st], r) \in SUBSET Idx
    BY DEF KvInv, AllExact, InRange
  <2> QED BY <2>1, RmEach DEF Behind
<1>3. AllExact(cells')
  BY <1>1, <1>2, AllChanged
<1>4. head' \in Heads
  BY <1>1, HeadFacts DEF KvInv, Heads
<1>5. prefix' \in PrefixValues
  BY <1>1, RangeFacts, LoweredFacts DEF KvInv
<1> QED BY <1>1, <1>3, <1>4, <1>5 DEF KvInv

\* seq_cp within a stream, onto a sequence that has none of the cells.
LEMMA SeqCpSharedKeeps ==
  ASSUME ~CopyOnto, KvInv, NEW src \in Seqs, NEW dst \in Seqs, NEW r \in Ranges, SeqCpShared(src, dst, r)
  PROVE  KvInv'
<1> DEFINE I == Having(cells[0], r, src)
<1>1. 0 \in Streams /\ Exact(cells[0])
  BY DEF SeqCpShared, Streams, KvInv, AllExact
<1>2. cells' = [cells EXCEPT ![0] = SeqAddOf(cells[0], I, dst)] /\ UNCHANGED <<head, prefix, todo>>
      /\ \A i \in I : dst \notin cells[0].seq[i]
  BY DEF SeqCpShared, SeqAddOf, Each, FoldSet, MapThenFoldSet, seq_has
<1>3. I \in SUBSET Idx /\ \A i \in I : cells[0].pos[i] # -1
  BY <1>1, HavingFacts
<1> HIDE DEF I
<1>4. Exact(SeqAddOf(cells[0], I, dst))
  BY <1>1, <1>2, <1>3, SeqAddEach DEF Behind
<1>5. AllExact(cells')
  BY <1>1, <1>2, <1>4, OneChanged DEF KvInv
<1> QED BY <1>2, <1>5 DEF KvInv

\* seq_cp to another stream starts from reset cells.
LEMMA SeqCpStreamKeeps ==
  ASSUME KvInv, NEW src \in Seqs, NEW dst \in Seqs, NEW r \in Ranges, SeqCpStream(src, dst, r)
  PROVE  KvInv'
<1> DEFINE I == {i \in Idx : seq_has(cells[src], i, src)}
<1>1. src \in Streams /\ dst \in Streams /\ Exact(cells[src])
  BY DEF SeqCpStream, Streams, KvInv, AllExact
<1>2. cells' = [cells EXCEPT ![dst] = CopiedOf(cells[src], I, dst)] /\ head' = [head EXCEPT ![dst] = head[src]]
      /\ prefix' = [prefix EXCEPT ![dst] = IF Sliding THEN prefix[src] ELSE @] /\ todo' = todo
  BY DEF SeqCpStream, CopiedOf, Each, FoldSet, MapThenFoldSet
<1>3. I \in SUBSET Idx /\ \A i \in I : cells[src].pos[i] # -1
  BY <1>1, UsedFacts DEF seq_has
<1> HIDE DEF I
<1>4. Exact(CopiedOf(cells[src], I, dst))
  BY <1>1, <1>3, CopyEach
<1>5. AllExact(cells')
  BY <1>1, <1>2, <1>4, OneChanged DEF KvInv
<1>6. head' \in Heads /\ prefix' \in PrefixValues
  BY <1>1, <1>2 DEF KvInv, Heads, PrefixValues
<1> QED BY <1>2, <1>5, <1>6 DEF KvInv

\* seq_keep, in one stream or in all.
LEMMA SeqKeepKeeps == ASSUME KvInv, NEW s \in Seqs, SeqKeep(s) PROVE KvInv'
<1>1. /\ cells' = [st \in Streams |-> IF st = StreamOf(s) \/ Sliding THEN SeqKeepOf(cells[st], Idx, s) ELSE cells[st]]
      /\ todo' = todo /\ head' = [st \in Streams |-> HeadAfter(head[st], cells[st], cells'[st])]
      /\ prefix' = IF Sliding THEN [Store!NoPrefix EXCEPT ![s] = prefix[s]] ELSE prefix
  BY DEF SeqKeep, SeqKeepOf, Each, FoldSet, MapThenFoldSet
<1>2. ASSUME NEW st \in Streams PROVE Exact(SeqKeepOf(cells[st], Idx, s)) /\ Exact(cells[st])
  <2>1. Exact(cells[st]) /\ Idx \in SUBSET Idx
    BY DEF KvInv, AllExact
  <2> QED BY <2>1, SeqKeepEach DEF Behind
<1>3. AllExact(cells')
  <2>1. \A st \in Streams : Exact(cells'[st])
    BY <1>1, <1>2
  <2> QED BY <1>1, <2>1, AllChanged
<1>4. head' \in Heads
  BY <1>1, HeadFacts DEF KvInv, Heads
<1>5. prefix' \in PrefixValues
  BY <1>1, ArgumentsAssumption DEF KvInv, PrefixValues, Store!NoPrefix
<1> QED BY <1>1, <1>3, <1>4, <1>5 DEF KvInv

\* seq_set_prefix does not touch the cells.
LEMMA SetPrefixKeeps == ASSUME KvInv, NEW s \in Seqs, NEW p \in 0 .. PrefixCap, SetPrefix(s, p) PROVE KvInv'
<1>1. UNCHANGED <<cells, head, todo>> /\ prefix' \in PrefixValues
  BY ArgumentsAssumption DEF SetPrefix, Accepted, KvInv, PrefixValues, vars
<1> QED BY <1>1 DEF KvInv

\* seq_add, which may empty cells.
LEMMA SeqAddKeeps ==
  ASSUME KvInv, NEW s \in Seqs, NEW r \in Ranges, NEW shift \in Int, SeqAdd(s, r, shift)
  PROVE  KvInv'
<1> DEFINE st == StreamOf(s)
           c  == cells[st]
           I  == Having(c, r, s)
           d  == PosAddOf(c, I, shift)
<1>1. st \in Streams /\ Exact(c)
  BY StreamFacts DEF KvInv, AllExact
<1>2. cells' = [cells EXCEPT ![st] = d] /\ UNCHANGED <<prefix, todo>>
      /\ head' = [head EXCEPT ![st] = IF Freed(c, d) # {} THEN Min(Freed(c, d)) ELSE 0]
  BY DEF SeqAdd, PosAddOf, Each, FoldSet, MapThenFoldSet
<1>3. I \in SUBSET Idx /\ \A i \in I : c.pos[i] # -1
  BY <1>1, HavingFacts
<1> HIDE DEF I, c
<1>4. Exact(d)
  BY <1>1, <1>3, PosAddEach DEF Behind
<1> HIDE DEF d, st
<1>5. AllExact(cells')
  BY <1>1, <1>2, <1>4, OneChanged DEF KvInv
<1>6. head' \in Heads
  <2>1. (Freed(c, d) # {} => Min(Freed(c, d)) \in 0 .. NCells) /\ 0 \in 0 .. NCells
    BY HeadFacts, CellsAssumption DEF Idx
  <2> QED BY <1>1, <1>2, <2>1 DEF KvInv, Heads
<1> QED BY <1>2, <1>5, <1>6 DEF KvInv

\* seq_div.
LEMMA SeqDivKeeps ==
  ASSUME KvInv, NEW s \in Seqs, NEW r \in Ranges, NEW m \in Nat \ {0}, SeqDiv(s, r, m)
  PROVE  KvInv'
<1> DEFINE st == StreamOf(s)
           c  == cells[st]
           I  == Having(c, r, s)
           d  == PosDivOf(c, I, m)
<1>1. st \in Streams /\ Exact(c)
  BY StreamFacts DEF KvInv, AllExact
<1>2. cells' = [cells EXCEPT ![st] = d] /\ UNCHANGED <<head, prefix, todo>>
  BY DEF SeqDiv, PosDivOf, Each, FoldSet, MapThenFoldSet
<1>3. I \in SUBSET Idx /\ \A i \in I : c.pos[i] # -1
  BY <1>1, HavingFacts
<1> HIDE DEF I, c
<1>4. Exact(d)
  BY <1>1, <1>3, PosDivEach DEF Behind
<1> HIDE DEF d, st
<1>5. AllExact(cells')
  BY <1>1, <1>2, <1>4, OneChanged DEF KvInv
<1> QED BY <1>2, <1>5 DEF KvInv

\* decode places all micro-batches and goes back, or has no place for one.
LEMMA BeginKeeps ==
  ASSUME KvInv, NEW S \in SUBSET Seqs, S # {}, NEW n \in Nat, NEW tok \in Toks, NEW shared \in BOOLEAN,
         Begin(S, n, tok, shared)
  PROVE  KvInv'
<1> DEFINE ubs == UbatchesOf(S, n, tok, shared)
           p == prepare(Updated, head, prefix, ubs)
<1>1. IsBatch(ubs)
  <2>1. \A s \in S : PosMax(s) + n <= MaxPos
    BY DEF Begin, MayDecode
  <2> QED BY <2>1, UbatchesFacts DEF KvInv
<1>2. AllExact(Updated) /\ Unshifted(Updated)
  <2>1. CASE Shifting
    <3>1. Updated = [st \in Streams |-> reset_shift(cells[st])]
      BY <2>1 DEF Updated
    <3>2. \A st \in Streams : Exact(reset_shift(cells[st])) /\ ~reset_shift(cells[st]).has_shift
      BY ResetShiftExact DEF KvInv, AllExact
    <3>3. Updated = [st \in Streams |-> Updated[st]] /\ \A st \in Streams : Exact(Updated[st]) /\ ~Updated[st].has_shift
      BY <3>1, <3>2
    <3> QED BY <3>3, AllChanged DEF Unshifted
  <2>2. CASE ~Shifting
    BY <2>2 DEF Updated, KvInv, Unshifted, Shifting
  <2> QED BY <2>1, <2>2
<1>3. AllExact(p.cells) /\ (p.ok => \A j \in 1 .. Len(ubs) : IsPlace(p.slots[j], ubs[j]))
  <2> HIDE DEF ubs
  <2>1. prefix \in [Seqs -> Int] /\ head \in Heads
    BY DEF KvInv, PrefixValues
  <2> QED BY <1>1, <1>2, <2>1, PrepareFacts
<1>4. cells' = p.cells /\ UNCHANGED <<head, prefix>>
      /\ todo' = IF p.ok THEN [k \in DOMAIN ubs |-> [ub |-> ubs[k], slot |-> p.slots[k]]] ELSE <<>>
  BY DEF Begin
<1> HIDE DEF p, ubs
<1>5. Works(todo')
  <2>1. CASE p.ok
    <3> DEFINE m == Len(ubs)
               X == {[ub |-> ubs[k], slot |-> p.slots[k]] : k \in 1 .. m}
    <3>1. m \in Nat /\ DOMAIN ubs = 1 .. m
      BY <1>1 DEF IsBatch
    <3> HIDE DEF m
    <3>2. todo' = [k \in 1 .. m |-> [ub |-> ubs[k], slot |-> p.slots[k]]]
      BY <1>4, <2>1, <3>1
    <3>3. todo' \in Seq(X) /\ Len(todo') = m
      BY <3>1, <3>2
    <3>4. \A k \in 1 .. m : IsPlace(todo'[k].slot, todo'[k].ub)
      BY <1>3, <2>1, <3>2 DEF m
    <3> HIDE DEF X
    <3> QED BY <3>3, <3>4 DEF Works
  <2>2. CASE ~p.ok
    <3>1. todo' \in Seq({}) /\ Len(todo') = 0
      BY <1>4, <2>2
    <3> QED BY <3>1 DEF Works
  <2> QED BY <2>1, <2>2
<1> QED BY <1>3, <1>4, <1>5 DEF KvInv

\* The first micro-batch has a place, and so have the others.
LEMMA WorkFacts ==
  ASSUME Works(todo), todo # <<>>
  PROVE  IsPlace(todo[1].slot, todo[1].ub) /\ Works(Tail(todo))
<1>1. PICK X : todo \in Seq(X)
  BY DEF Works
<1>2. Len(todo) \in Nat /\ Len(todo) # 0
  BY <1>1
<1>3. IsPlace(todo[1].slot, todo[1].ub)
  BY <1>2 DEF Works
<1>4. Tail(todo) \in Seq(X) /\ Len(Tail(todo)) = Len(todo) - 1
      /\ \A k \in 1 .. Len(todo) - 1 : Tail(todo)[k] = todo[k + 1]
  BY <1>1, <1>2
<1>5. ASSUME NEW k \in 1 .. Len(todo) - 1 PROVE IsPlace(Tail(todo)[k].slot, Tail(todo)[k].ub)
  <2>1. k + 1 \in 1 .. Len(todo)
    BY <1>2
  <2> QED BY <1>4, <2>1 DEF Works
<1> QED BY <1>3, <1>4, <1>5 DEF Works

\* A micro-batch is placed where the dry run found room.
LEMMA UbatchKeeps == ASSUME KvInv, Ubatch PROVE KvInv'
<1> DEFINE ub == todo[1].ub  slot == todo[1].slot
<1>1. /\ cells' = apply_ubatch(cells, slot, ub) /\ head' = HeadsAfter(head, slot)
      /\ todo' = Tail(todo) /\ prefix' = prefix /\ todo # <<>>
  BY DEF Ubatch
<1>2. IsPlace(slot, ub) /\ Works(Tail(todo))
  BY <1>1, WorkFacts DEF KvInv
<1> HIDE DEF ub, slot
<1>3. AllExact(cells')
  BY <1>1, <1>2, ApplyUbatchFacts DEF KvInv
<1>4. head' \in Heads
  BY <1>1, <1>2, HeadsFacts DEF KvInv
<1> QED BY <1>1, <1>2, <1>3, <1>4 DEF KvInv

\* The tokens of a micro-batch with places have first sequences.
LEMMA TokensFacts ==
  ASSUME NEW slot, NEW ub, IsPlace(slot, ub), NEW st \in DOMAIN ub
  PROVE  \A t \in Range(ub[st]) : IsToken(t) /\ First(t) \in Seqs
<1>1. ASSUME NEW k \in 1 .. Len(ub[st]) PROVE IsToken(ub[st][k]) /\ First(ub[st][k]) \in Seqs
  <2>1. IsToken(ub[st][k]) /\ ub[st][k].seqs # {}
    BY DEF IsPlace, IsWork
  <2>2. ub[st][k].seqs \in SUBSET Nat /\ ub[st][k].seqs \subseteq Seqs
    BY <2>1, SeqsAssumption DEF IsToken
  <2>3. Min(ub[st][k].seqs) \in ub[st][k].seqs
    BY <2>1, <2>2, MinFacts
  <2> QED BY <2>1, <2>2, <2>3 DEF First
<1>2. DOMAIN ub[st] = 1 .. Len(ub[st])
  BY DEF IsPlace
<1> QED BY <1>1, <1>2 DEF Range

\* A micro-batch that fails leaves the cells exact, without its tokens.
LEMMA UbatchFailsKeeps == ASSUME KvInv, UbatchFails PROVE KvInv'
<1> DEFINE ub == todo[1].ub  slot == todo[1].slot
           C == apply_ubatch(cells, slot, ub)
           H == HeadsAfter(head, slot)
           T == TokensOf(ub)
<1>1. /\ cells' = [st \in Streams |-> IF st \in DOMAIN ub THEN Undone(C[st], Range(ub[st])) ELSE C[st]]
      /\ head' = [st \in Streams |-> HeadAfter(H[st], C[st], cells'[st])]
      /\ prefix' = LoweredOf(prefix, T, Firsts(T))
      /\ todo' = <<>> /\ todo # <<>>
  BY DEF UbatchFails, LoweredOf, FoldSet, MapThenFoldSet
<1>2. IsPlace(slot, ub)
  BY <1>1, WorkFacts DEF KvInv
<1> HIDE DEF ub, slot
<1>3. AllExact(C)
  BY <1>2, ApplyUbatchFacts DEF KvInv
<1>4. H \in Heads
  BY <1>2, HeadsFacts DEF KvInv
<1> HIDE DEF C, H
<1>5. ASSUME NEW st \in Streams PROVE Exact(cells'[st])
  <2>1. CASE st \in DOMAIN ub
    <3> DEFINE R == Range(ub[st])
    <3>1. \A t \in R : First(t) \in Seqs
      BY <1>2, <2>1, TokensFacts
    <3>2. Firsts(R) \in SUBSET Seqs
      BY <3>1 DEF Firsts
    <3>3. IsFiniteSet(Firsts(R))
      BY <3>2, SeqsAssumption, FS_Subset
    <3>4. Exact(UndoneOf(C[st], R, Firsts(R)))
      BY <1>3, <3>3, UndoneEach DEF AllExact
    <3>5. Undone(C[st], R) = UndoneOf(C[st], R, Firsts(R))
      BY DEF Undone, UndoneOf
    <3> HIDE DEF R
    <3>6. cells'[st] = Undone(C[st], R)
      BY <1>1, <2>1 DEF R
    <3> QED BY <3>4, <3>5, <3>6
  <2>2. CASE st \notin DOMAIN ub
    BY <1>1, <1>3, <2>2 DEF AllExact
  <2> QED BY <2>1, <2>2
<1>6. AllExact(cells')
  BY <1>1, <1>5, AllChanged
<1>7. head' \in Heads
  BY <1>1, <1>4, HeadFacts DEF Heads
<1>8. prefix' \in PrefixValues
  <2>1. \A t \in T : IsToken(t) /\ First(t) \in Seqs
    BY <1>2, TokensFacts DEF TokensOf
  <2> HIDE DEF T
  <2>2. Firsts(T) \in SUBSET Seqs
    BY <2>1 DEF Firsts
  <2>3. IsFiniteSet(Firsts(T))
    BY <2>2, SeqsAssumption, FS_Subset
  <2>4. \A s \in Firsts(T) : FromFirst(T, s)[1] \in Nat
    BY <2>1, FromFirstFacts
  <2> QED BY <1>1, <2>3, <2>4, LoweredEach DEF KvInv
<1>9. Works(todo')
  <2>1. todo' \in Seq({}) /\ Len(todo') = 0
    BY <1>1
  <2> QED BY <2>1 DEF Works
<1> QED BY <1>6, <1>7, <1>8, <1>9 DEF KvInv

\* The k-th of the tokens that are loaded, and what is loaded into its buffers, was in the cell i.
LoadedFrom(src, dst, k) ==
  \E i \in Idx : /\ Loaded(src, dst)[k].pos = cells[StreamOf(src)].pos[i]
                 /\ SavedSeq(src).data[k] = data[StreamOf(src)][i]

\* The tokens of a sequence are loaded into adjacent cells, after those that the other
\* sequence had were removed.
LEMMA LoadingFacts ==
  ASSUME KvInv, NEW src \in Seqs, NEW dst \in Seqs
  PROVE  LET toks == Loaded(src, dst)
             slot == LoadSlot(src, dst)
         IN /\ Exact(CellsLoading(dst)) /\ CellsLoading(dst).has_shift = cells[StreamOf(dst)].has_shift
            /\ \A i \in Idx : Less(cells[StreamOf(dst)], CellsLoading(dst), i)
            /\ HeadLoading(dst) \in 0 .. NCells /\ PrefixLoaded(src, dst) \in PrefixValues
            /\ Len(toks) \in Nat /\ \A k \in 1 .. Len(toks) : IsToken(toks[k]) /\ LoadedFrom(src, dst, k)
            /\ slot # NoSlot => IsSlot(slot, toks) /\ Adjacent(slot)
<1> DEFINE st == StreamOf(dst)
           c == CellsLoading(dst)
           h == HeadLoading(dst)
           pre == PrefixLoaded(src, dst)
           toks == Loaded(src, dst)
           slot == LoadSlot(src, dst)
<1>1. st \in Streams /\ StreamOf(src) \in Streams
  BY StreamFacts
<1>2. Exact(c) /\ c.has_shift = cells[st].has_shift /\ \A i \in Idx : Less(cells[st], c, i)
  BY <1>1, WithoutExact DEF CellsLoading, KvInv, AllExact
<1>3. h \in 0 .. NCells
  BY <1>1, HeadFacts DEF HeadLoading, KvInv, Heads
<1>4. pre \in PrefixValues
  BY DEF PrefixLoaded, KvInv, PrefixValues
<1>5. /\ Len(toks) \in Nat /\ \A k \in 1 .. Len(toks) : IsToken(toks[k]) /\ LoadedFrom(src, dst, k)
      /\ Len(toks) # 0 => toks[1].seqs \in SUBSET Seqs /\ toks[1].seqs # {}
  <2> DEFINE q == SavedSeq(src).cells
             I == {i \in Idx : seq_has(cells[StreamOf(src)], i, src)}
  <2>1. I \in SUBSET Idx /\ \A i \in I : cells[StreamOf(src)].pos[i] # -1
    BY <1>1, UsedFacts DEF seq_has, KvInv, AllExact
  <2>2. q = Saved(StreamOf(src), I).cells /\ SavedSeq(src) = Saved(StreamOf(src), I)
    BY DEF SavedSeq
  <2> HIDE DEF I, q
  <2>3. /\ Len(q) \in Nat /\ DOMAIN q = 1 .. Len(q) /\ \A k \in DOMAIN q : IsToken(q[k])
        /\ \A k \in DOMAIN q : \E i \in I : SavedFrom(StreamOf(src), I, k, i)
    BY <1>1, <2>1, <2>2, SavedFacts DEF KvInv
  <2>4. toks = [k \in DOMAIN q |-> [pos |-> q[k].pos, seqs |-> {dst}]]
    BY DEF Loaded, q
  <2> HIDE DEF toks
  <2> DEFINE n == Len(q)
  <2>5. toks = [k \in 1 .. n |-> [pos |-> q[k].pos, seqs |-> {dst}]]
    BY <2>3, <2>4
  <2>6. n \in Nat /\ \A k \in 1 .. n : q[k].pos \in Nat
    BY <2>3 DEF IsToken
  <2> HIDE DEF n
  <2>7. Len(toks) = n
    BY <2>5, <2>6
  <2>8. \A k \in 1 .. n : toks[k].pos \in Nat /\ toks[k].seqs = {dst}
    BY <2>5, <2>6
  <2>9. \A k \in 1 .. n : IsToken(toks[k])
    BY <2>8, dst \in Seqs DEF IsToken
  <2>10. n # 0 => 1 \in 1 .. n
    BY <2>6
  <2>11. n # 0 => toks[1].seqs = {dst}
    BY <2>8, <2>10
  <2>12. \A k \in 1 .. n : LoadedFrom(src, dst, k)
    <3> TAKE k \in 1 .. n
    <3>1. PICK i \in I : SavedFrom(StreamOf(src), I, k, i)
      BY <2>3 DEF n
    <3>2. toks[k].pos = q[k].pos /\ i \in Idx
      BY <2>1, <2>5
    <3> QED BY <2>2, <3>1, <3>2 DEF SavedFrom, LoadedFrom, toks
  <2> QED BY <2>6, <2>7, <2>9, <2>11, <2>12
<1>6. slot = SlotIn(c, h, pre, toks, TRUE)
  BY DEF LoadSlot
<1> HIDE DEF c, h, st, pre, toks, slot
<1>7. slot # NoSlot => IsSlot(slot, toks) /\ Adjacent(slot)
  <2>1. TRUE \in BOOLEAN /\ h \in Nat /\ pre \in [Seqs -> Int]
    BY <1>3, <1>4, CellsAssumption DEF PrefixValues
  <2>2. Len(toks) \in Nat /\ (Len(toks) # 0 => toks[1].seqs \in SUBSET Seqs /\ toks[1].seqs # {})
    BY <1>5
  <2> SUFFICES ASSUME SlotIn(c, h, pre, toks, TRUE) # NoSlot
               PROVE  IsSlot(slot, toks) /\ Adjacent(slot)
    BY <1>6
  <2> DEFINE cont == TRUE
             sl == SlotIn(c, h, pre, toks, cont)
  <2>3. cont \in BOOLEAN /\ cont /\ sl # NoSlot /\ slot = sl
    BY <1>6
  <2> HIDE DEF cont
  <2>3a. Len(toks) \in Nat
    BY <2>2
  <2>3b. Len(toks) # 0 => toks[1].seqs \in SUBSET Seqs /\ toks[1].seqs # {}
    BY <2>2
  <2>3c. h \in Nat /\ pre \in [Seqs -> Int] /\ cont \in BOOLEAN /\ sl # NoSlot
    BY <2>1, <2>3
  <2>4. IsSlot(sl, toks)
    BY <2>3a, <2>3b, <2>3c, SlotFacts
  <2>5. cont => Adjacent(sl)
    BY <2>3a, <2>3b, <2>3c, SlotFacts
  <2> HIDE DEF sl
  <2> QED BY <2>3, <2>4, <2>5
<1> QED BY <1>2, <1>3, <1>4, <1>5, <1>7 DEF c, h, st, pre, toks, slot

\* A sequence is loaded into adjacent cells, or is empty.
LEMMA LoadSeqKeeps ==
  ASSUME KvInv, NEW src \in Seqs, NEW dst \in Seqs, LoadSeq(src, dst)
  PROVE  KvInv'
<1> DEFINE st == StreamOf(dst)
           c == CellsLoading(dst)
           h == HeadLoading(dst)
           pre == PrefixLoaded(src, dst)
           toks == Loaded(src, dst)
           slot == LoadSlot(src, dst)
<1>1. st \in Streams /\ StreamOf(src) \in Streams
  BY StreamFacts
<1>2. /\ Exact(c) /\ h \in 0 .. NCells /\ pre \in PrefixValues
      /\ Len(toks) \in Nat /\ \A k \in 1 .. Len(toks) : IsToken(toks[k])
      /\ slot # NoSlot => IsSlot(slot, toks)
  BY LoadingFacts
<1>7. /\ todo' = todo
      /\ IF slot = NoSlot THEN NotLoaded(dst) ELSE LoadAt(src, dst, slot)
  BY DEF LoadSeq
<1>8. CASE slot = NoSlot
  <2>1. cells' = [cells EXCEPT ![st] = c] /\ head' = [head EXCEPT ![st] = h] /\ prefix' = [prefix EXCEPT ![dst] = -1]
    BY <1>7, <1>8 DEF NotLoaded
  <2> HIDE DEF c, h, st
  <2>2. AllExact(cells')
    BY <1>1, <1>2, <2>1, OneChanged DEF KvInv
  <2>3. head' \in Heads /\ prefix' \in PrefixValues
    BY <1>1, <1>2, <2>1, ArgumentsAssumption DEF KvInv, Heads, PrefixValues
  <2> QED BY <1>7, <2>2, <2>3 DEF KvInv
<1>9. CASE slot # NoSlot
  <2>1. cells' = [cells EXCEPT ![st] = ApplyIn(c, slot, toks)] /\ head' = [head EXCEPT ![st] = slot[1]] /\ prefix' = pre
    BY <1>7, <1>9 DEF LoadAt
  <2> HIDE DEF c, h, st, pre, toks, slot
  <2>2. IsSlot(slot, toks)
    BY <1>2, <1>9
  <2>3. slot \in Seq(Idx) /\ Apart(slot) /\ Len(slot) = Len(toks) /\ Len(slot) \in Nat \ {0}
    BY <2>2 DEF IsSlot
  <2>4. Exact(ApplyIn(c, slot, toks))
    BY <1>2, <2>3, ApplyExact
  <2>5. AllExact(cells')
    BY <1>1, <2>1, <2>4, OneChanged DEF KvInv
  <2>6. slot[1] \in 0 .. NCells
    <3>1. slot[1] \in Idx
      BY <2>3
    <3> QED BY <3>1, CellsAssumption DEF Idx
  <2>7. head' \in Heads /\ prefix' \in PrefixValues
    BY <1>1, <1>2, <2>1, <2>6 DEF KvInv, Heads
  <2> QED BY <1>7, <2>5, <2>7 DEF KvInv
<1> QED BY <1>8, <1>9

\* The cells of a stream are filled from the first one on.
LEMMA ReloadKeeps == ASSUME KvInv, Reload PROVE KvInv'
<1> DEFINE q(st) == Saved(st, cells[st].used).cells
<1>1. /\ cells' = [st \in Streams |-> FilledOf(q(st), DOMAIN q(st))]
      /\ head' = [st \in Streams |-> 0] /\ UNCHANGED <<prefix, todo>>
  BY DEF Reload, FilledOf, FoldSet, MapThenFoldSet
<1>2. ASSUME NEW st \in Streams PROVE Exact(FilledOf(q(st), DOMAIN q(st)))
  <2>1. Exact(cells[st])
    BY DEF KvInv, AllExact
  <2>2. cells[st].used \in SUBSET Idx /\ \A i \in cells[st].used : cells[st].pos[i] # -1
    BY <2>1, UsedFacts DEF Exact, CellsType
  <2> DEFINE toks == q(st)
  <2>3. /\ Len(toks) \in Nat /\ DOMAIN toks = 1 .. Len(toks) /\ Len(toks) <= NCells
        /\ \A k \in DOMAIN toks : IsToken(toks[k])
    BY <2>2, SavedFacts DEF KvInv
  <2> HIDE DEF toks
  <2>4. IsFiniteSet(DOMAIN toks)
    BY <2>3, FS_Interval
  <2>5. DOMAIN toks \in SUBSET Nat /\ \A k \in DOMAIN toks : k - 1 \in Idx
    BY <2>3, CellsAssumption DEF Idx
  <2> QED BY <2>3, <2>4, <2>5, FilledEach DEF toks
<1> HIDE DEF q
<1>3. AllExact(cells')
  BY <1>1, <1>2, AllChanged
<1>4. head' \in Heads
  BY <1>1, CellsAssumption DEF Heads
<1> QED BY <1>1, <1>3, <1>4 DEF KvInv

\* Every step keeps the invariant.
LEMMA StepKeeps == ASSUME ~CopyOnto, KvInv, [Next]_vars PROVE KvInv'
<1>1. ASSUME NEW zero \in BOOLEAN, Clear(zero) PROVE KvInv'
  BY <1>1, ClearKeeps
<1>2. ASSUME NEW r \in Ranges, SeqRmAll(r) PROVE KvInv'
  BY <1>2, SeqRmAllKeeps
<1>3. ASSUME NEW r \in Ranges, NEW s \in Seqs, SeqRm(s, r) PROVE KvInv'
  BY <1>3, SeqRmKeeps
<1>4. ASSUME NEW r \in Ranges, NEW s \in Seqs, NEW d \in Shifts, SeqAdd(s, r, d) PROVE KvInv'
  <2>1. d \in Int
    BY ArgumentsAssumption
  <2> QED BY <1>4, <2>1, SeqAddKeeps
<1>5. ASSUME NEW r \in Ranges, NEW s \in Seqs, NEW d \in Divs, SeqDiv(s, r, d) PROVE KvInv'
  <2>1. d \in Nat \ {0}
    BY ArgumentsAssumption
  <2> QED BY <1>5, <2>1, SeqDivKeeps
<1>6. ASSUME NEW r \in Ranges, NEW s \in Seqs, NEW t \in Seqs, SeqCp(s, t, r) PROVE KvInv'
  <2>1. CASE SeqCpShared(s, t, r)
    BY <2>1, SeqCpSharedKeeps
  <2>2. CASE SeqCpStream(s, t, r)
    BY <2>2, SeqCpStreamKeeps
  <2> QED BY <1>6, <2>1, <2>2 DEF SeqCp
<1>7. ASSUME NEW s \in Seqs, SeqKeep(s) PROVE KvInv'
  BY <1>7, SeqKeepKeeps
<1>8. ASSUME NEW s \in Seqs, NEW p \in 0 .. PrefixCap, SetPrefix(s, p) PROVE KvInv'
  BY <1>8, SetPrefixKeeps
<1>9. ASSUME NEW s \in Seqs, NEW t \in Seqs, LoadSeq(s, t) PROVE KvInv'
  BY <1>9, LoadSeqKeeps
<1>10. ASSUME NEW b \in Batches, Begin(b.seqs, b.n, b.tok, b.shared) PROVE KvInv'
  <2>1. b.seqs \in SUBSET Seqs /\ b.seqs # {} /\ b.n \in Nat /\ b.tok \in Toks /\ b.shared \in BOOLEAN
    BY DecodeAssumption DEF Batches
  <2> QED BY <1>10, <2>1, BeginKeeps
<1>11. CASE Ubatch
  BY <1>11, UbatchKeeps
<1>12. CASE UbatchFails
  BY <1>12, UbatchFailsKeeps
<1>13. CASE Reload
  BY <1>13, ReloadKeeps
<1>14. CASE UNCHANGED vars
  BY <1>14 DEF KvInv, vars
<1> QED BY <1>1, <1>2, <1>3, <1>4, <1>5, <1>6, <1>7, <1>8, <1>9, <1>10, <1>11, <1>12, <1>13, <1>14 DEF Next

\* The derived members of the cells - the used cells, and how often a sequence has a
\* position - agree with the cells after every call of the cache, for any number of cells,
\* streams, sequences, tokens and pending copies, unless seq_cp copies a sequence onto one
\* that has some of its cells.
THEOREM CountsStayExact == ASSUME ~CopyOnto PROVE Spec => []CountsExact
<1>1. KvInv /\ [Next]_vars => KvInv'
  BY StepKeeps
<1>2. KvInv => CountsExact
  BY DEF KvInv, AllExact, Exact, CountsExact
<1> QED BY InitInv, <1>1, <1>2, PTL DEF Spec

-----------------------------------------------------------------------------
(***************************************************************************)
(* The buffers, and the copies between them that are pending.              *)
(***************************************************************************)
\* What is claimed of the keys: that they were computed ("done"), that they follow their
\* cells ("keys"), and for those that they stay in range ("range").
AreClaims(mode) == "range" \in mode => "keys" \in mode

Rots(mode)    == IF "range" \in mode THEN 0 .. MaxPos ELSE Int
Values(mode)  == [tok : Toks \cup {"none"}, rot : Rots(mode)]
Buffers(mode) == [Streams -> [Idx -> Values(mode)]]
Pairs   == Seq(Streams \X Streams)

\* One copy is made; one after the other; and all of them.
CopyMade(B, p)   == [B EXCEPT ![p[2]] = B[p[1]]]
Making(mode, D, q, n, g) == /\ g \in [0 .. n -> Buffers(mode)] /\ g[0] = D
                      /\ \A k \in 1 .. n : g[k] = CopyMade(g[k - 1], q[k])
Made(D, q) == LET after[k \in 0 .. Len(q)] == IF k = 0 THEN D ELSE CopyMade(after[k - 1], q[k])
              IN after[Len(q)]

\* Keys are rotated by integers, and any position will do.
LEMMA RotsFacts ==
  ASSUME NEW mode
  PROVE  Rots(mode) \subseteq Int /\ 0 .. MaxPos \subseteq Rots(mode) /\ NoData \in Values(mode)
<1>1. Rots(mode) \subseteq Int /\ 0 .. MaxPos \subseteq Rots(mode) /\ 0 \in 0 .. MaxPos
  BY ArgumentsAssumption DEF Rots
<1> QED BY <1>1 DEF NoData, Values

\* A copy leaves buffers.
LEMMA CopyMadeFacts ==
  ASSUME NEW mode, AreClaims(mode), NEW B \in Buffers(mode), NEW p \in Streams \X Streams
  PROVE  /\ CopyMade(B, p) \in Buffers(mode)
         /\ \A st \in Streams : CopyMade(B, p)[st] = IF st = p[2] THEN B[p[1]] ELSE B[st]
<1>1. p[1] \in Streams /\ p[2] \in Streams
  OBVIOUS
<1> QED BY <1>1 DEF CopyMade, Buffers

\* There is one way to make the copies in their order.
LEMMA MakingOnce ==
  ASSUME NEW mode, AreClaims(mode), NEW D, NEW q, NEW r, NEW n \in Nat, NEW m \in Nat, NEW g, NEW h, n <= m,
         \A k \in 1 .. n : r[k] = q[k], Making(mode, D, q, n, g), Making(mode, D, r, m, h)
  PROVE  h[n] = g[n]
<1> DEFINE T == {k \in Nat : k <= n => h[k] = g[k]}
<1>1. 0 \in T
  BY DEF Making
<1>2. ASSUME NEW k \in Nat, k \in T PROVE k + 1 \in T
  <2>1. k + 1 <= n => k + 1 \in 1 .. n /\ k + 1 \in 1 .. m /\ (k + 1) - 1 = k /\ k <= n
    OBVIOUS
  <2> QED BY <1>2, <2>1 DEF Making
<1> HIDE DEF T
<1>3. Nat \subseteq T
  BY <1>1, <1>2, SetInduction
<1>4. n \in T /\ n <= n
  BY <1>3
<1> QED BY <1>4 DEF T

\* The recursion makes them.
LEMMA MadeIs ==
  ASSUME NEW mode, AreClaims(mode), NEW D \in Buffers(mode), NEW q \in Pairs
  PROVE  \E g : Making(mode, D, q, Len(q), g) /\ Made(D, q) = g[Len(q)]
<1> DEFINE n == Len(q)
           Step(k, d) == CopyMade(d, q[k])
           P == (0 .. n) \X Buffers(mode)
           G == [y \in (1 .. n) \X Buffers(mode) |-> Step(y[1], y[2])]
           E(h) == [k \in 0 .. n |-> IF k = 0 THEN D ELSE Step(k, h[k - 1])]
<1>0. Made(D, q) = (CHOOSE h : h = E(h))[n]
  BY DEF Made
<1>1. n \in Nat /\ \A k \in 1 .. n : q[k] \in Streams \X Streams
  BY DEF Pairs
<1>2. \A k \in 1 .. n, d \in Buffers(mode) : Step(k, d) \in Buffers(mode)
  BY <1>1, CopyMadeFacts
<1> HIDE DEF n, Step
<1>3. G \in [(1 .. n) \X Buffers(mode) -> Buffers(mode)] /\ \A k \in 1 .. n, d \in Buffers(mode) : G[<<k, d>>] = Step(k, d)
  BY <1>2
<1> HIDE DEF G
<1>4. Advances(P, n, Buffers(mode), D, G)
  <2>1. <<0, D>> \in P
    BY <1>1
  <2>2. \A k \in 1 .. n : \A d \in Buffers(mode) : <<k - 1, d>> \in P => <<k, G[<<k, d>>]>> \in P
    BY <1>1, <1>3
  <2> HIDE DEF P
  <2> QED BY <1>1, <1>3, <2>1, <2>2 DEF Advances
<1>5. PICK g : Walks(g, n, Buffers(mode), D, G)
  BY <1>4, WalkKeeps
<1>6. Making(mode, D, q, n, g)
  <2>1. \A k \in 1 .. n : k - 1 \in 0 .. n
    BY <1>1
  <2> QED BY <1>3, <1>5, <2>1 DEF Walks, Making, Step
<1>7. g = E(g)
  <2>1. \A k \in 0 .. n : k = 0 \/ k \in 1 .. n
    BY <1>1
  <2> QED BY <1>6, <2>1 DEF Making, Step
<1>8. ASSUME NEW h, h = E(h) PROVE h[n] = g[n]
  <2> DEFINE T == {k \in Nat : k <= n => h[k] = g[k]}
  <2>1. 0 \in T
    BY <1>1, <1>7, <1>8
  <2>2. ASSUME NEW k \in Nat, k \in T PROVE k + 1 \in T
    <3>1. k + 1 <= n => k + 1 \in 1 .. n /\ k + 1 \in 0 .. n /\ (k + 1) - 1 = k /\ k <= n
      BY <1>1
    <3>2. k + 1 <= n => h[k + 1] = Step(k + 1, h[k])
      BY <1>8, <3>1
    <3>3. k + 1 <= n => g[k + 1] = Step(k + 1, g[k])
      BY <1>7, <3>1
    <3> QED BY <2>2, <3>1, <3>2, <3>3
  <2> HIDE DEF T, E
  <2>3. Nat \subseteq T
    BY <2>1, <2>2, SetInduction
  <2>4. n \in T /\ n <= n
    BY <1>1, <2>3
  <2> QED BY <2>4 DEF T
<1> HIDE DEF E
<1>9. Made(D, q) = g[n]
  BY <1>0, <1>7, <1>8
<1> QED BY <1>6, <1>9 DEF n

\* Copies are made one by one.
LEMMA MadeFacts ==
  ASSUME NEW mode, AreClaims(mode), NEW D \in Buffers(mode)
  PROVE  /\ Made(D, <<>>) = D
         /\ \A q \in Pairs : Made(D, q) \in Buffers(mode)
         /\ \A q \in Pairs, p \in Streams \X Streams : Made(D, Append(q, p)) = CopyMade(Made(D, q), p)
<1>1. Made(D, <<>>) = D
  <2>1. <<>> \in Pairs /\ Len(<<>>) = 0
    BY DEF Pairs
  <2> QED BY <2>1, MadeIs DEF Making
<1>2. ASSUME NEW q \in Pairs PROVE Made(D, q) \in Buffers(mode)
  <2>1. Len(q) \in 0 .. Len(q)
    BY DEF Pairs
  <2> QED BY <2>1, MadeIs DEF Making
<1>3. ASSUME NEW q \in Pairs, NEW p \in Streams \X Streams PROVE Made(D, Append(q, p)) = CopyMade(Made(D, q), p)
  <2> DEFINE n == Len(q)  r == Append(q, p)
  <2>1. r \in Pairs /\ n \in Nat /\ Len(r) = n + 1 /\ r[n + 1] = p /\ \A k \in 1 .. n : r[k] = q[k]
    BY DEF Pairs
  <2> HIDE DEF n, r
  <2>2. PICK g : Making(mode, D, q, n, g) /\ Made(D, q) = g[n]
    BY MadeIs DEF n
  <2>3. PICK h : Making(mode, D, r, n + 1, h) /\ Made(D, r) = h[n + 1]
    BY <2>1, MadeIs
  <2>4. h[n] = g[n]
    <3>1. n + 1 \in Nat /\ n <= n + 1
      BY <2>1
    <3> QED BY <2>1, <2>2, <2>3, <3>1, MakingOnce
  <2>5. n + 1 \in 1 .. n + 1 /\ (n + 1) - 1 = n
    BY <2>1
  <2>6. h[n + 1] = CopyMade(h[n], p)
    BY <2>1, <2>3, <2>5 DEF Making
  <2> QED BY <2>2, <2>3, <2>4, <2>6 DEF r
<1> QED BY <1>1, <1>2, <1>3

\* These are the buffers that the invariants speak of.
LEMMA CopiedIsMade == Copied = Made(data, copies)
BY DEF Copied, Made, CopyMade

(***************************************************************************)
(* The invariant of the keys, as far as it is claimed: what the buffers    *)
(* hold, once the pending copies are made, was computed for the token of   *)
(* the cell, and its key is rotated to where the token was before the      *)
(* shifts that are pending.                                                *)
(***************************************************************************)
InPlaceAt(mode, c, b, i) ==
  c.pos[i] # -1 => /\ "range" \in mode => c.pos[i] <= MaxPos
                   /\ "done" \in mode => b[i].tok # "none"
                   /\ "keys" \in mode => b[i].rot = c.pos[i] - c.shift[i]
InPlace(mode, C, B) == \A st \in Streams, i \in Idx : InPlaceAt(mode, C[st], B[st], i)

\* The same of a value for a token at p, with no shift.
Fits(mode, p, v) ==
  /\ p \in Nat /\ v \in Values(mode)
  /\ "range" \in mode => p <= MaxPos
  /\ "done" \in mode => v.tok # "none"
  /\ "keys" \in mode => v.rot = p

KeyInv(mode) ==
  /\ KvInv
  /\ data \in Buffers(mode) /\ copies \in Pairs
  /\ todo # <<>> => copies = <<>>
  /\ InPlace(mode, cells, Made(data, copies))

\* The cell has nothing that was not there, but its position may have been shifted.
Carried(c, d, i) ==
  d.pos[i] # -1 => /\ c.pos[i] # -1 /\ d.pos[i] - d.shift[i] = c.pos[i] - c.shift[i]
                   /\ d.pos[i] <= MaxPos \/ d.pos[i] = c.pos[i]

\* Without claims nothing has to be shown of the keys.
LEMMA NoClaims == \A c, b, i : InPlaceAt({}, c, b, i)
BY DEF InPlaceAt

\* What is lost, and what stays, is carried along.
LEMMA LessCarried == ASSUME NEW c, NEW d, NEW i, Less(c, d, i) \/ Same(c, d, i) PROVE Carried(c, d, i)
BY DEF Less, Same, Gone, Holds, Carried

\* And stays in place.
LEMMA CarriedInPlace ==
  ASSUME NEW mode, AreClaims(mode), NEW c, NEW d, NEW b, NEW i, InPlaceAt(mode, c, b, i), Carried(c, d, i)
  PROVE  InPlaceAt(mode, d, b, i)
BY DEF InPlaceAt, Carried

\* Calls that leave the buffers alone, and only move or remove tokens.
LEMMA KeysKept ==
  ASSUME NEW mode, AreClaims(mode), KeyInv(mode), KvInv', UNCHANGED <<data, copies, todo>>,
         \A st \in Streams, i \in Idx : Carried(cells[st], cells'[st], i)
  PROVE  KeyInv(mode)'
<1>1. InPlace(mode, cells', Made(data', copies'))
  BY CarriedInPlace DEF KeyInv, InPlace
<1> QED BY <1>1 DEF KeyInv

\* Nothing is in place at the start, as nothing is there.
LEMMA InitKeys == ASSUME NEW mode, AreClaims(mode), Init PROVE KeyInv(mode)
<1>1. data \in Buffers(mode)
  <2>1. NoData \in Values(mode)
    BY RotsFacts
  <2> QED BY <2>1 DEF Init, Buffers
<1>2. copies \in Pairs /\ copies = <<>> /\ todo = <<>>
  BY DEF Init, Pairs
<1>3. InPlace(mode, cells, Made(data, copies))
  BY DEF InPlace, InPlaceAt, Init, Reset
<1> QED BY <1>1, <1>2, <1>3, InitInv DEF KeyInv

\* clear() leaves no cell in use, whether the buffers are cleared as well or not.
LEMMA ClearKeys ==
  ASSUME NEW mode, AreClaims(mode), KeyInv(mode), KvInv', NEW zero \in BOOLEAN, Clear(zero)
  PROVE  KeyInv(mode)'
<1>1. data' \in Buffers(mode)
  <2>1. NoData \in Values(mode)
    BY RotsFacts
  <2> QED BY <2>1 DEF Clear, Buffers, KeyInv
<1>2. InPlace(mode, cells', Made(data', copies'))
  BY DEF InPlace, InPlaceAt, Clear, Reset
<1> QED BY <1>1, <1>2 DEF KeyInv, Clear

\* seq_rm only removes.
LEMMA SeqRmKeys ==
  ASSUME NEW mode, AreClaims(mode), KeyInv(mode), KvInv', NEW s \in Seqs, NEW r \in Ranges, SeqRm(s, r)
  PROVE  KeyInv(mode)'
<1> DEFINE st == StreamOf(s)
           d  == WithoutSeq(cells[st], s, r)
<1>1. st \in Streams /\ AllExact(cells)
  BY StreamFacts DEF KeyInv, KvInv
<1>2. \A i \in Idx : Less(cells[st], d, i)
  BY <1>1, WithoutExact DEF AllExact
<1>3. cells' = [cells EXCEPT ![st] = d] /\ UNCHANGED <<data, copies, todo>>
  BY DEF SeqRm
<1> HIDE DEF st, d
<1>4. \A x \in Streams, i \in Idx : Less(cells[x], cells'[x], i) \/ Same(cells[x], cells'[x], i)
  BY <1>1, <1>2, <1>3 DEF AllExact, Same, Holds
<1> QED BY <1>3, <1>4, LessCarried, KeysKept

\* So does seq_rm of every sequence.
LEMMA SeqRmAllKeys ==
  ASSUME NEW mode, AreClaims(mode), KeyInv(mode), KvInv', NEW r \in Ranges, SeqRmAll(r)
  PROVE  KeyInv(mode)'
<1>1. cells' = [st \in Streams |-> RmOf(cells[st], InRange(cells[st], r))] /\ UNCHANGED <<data, copies, todo>>
  BY DEF SeqRmAll, RmOf, Each, FoldSet, MapThenFoldSet
<1>2. ASSUME NEW st \in Streams, NEW i \in Idx PROVE Less(cells[st], cells'[st], i) \/ Same(cells[st], cells'[st], i)
  <2> DEFINE c == cells[st]
             I == InRange(c, r)
             d == RmOf(c, I)
  <2>1. Exact(c) /\ I \in SUBSET Idx /\ cells'[st] = d
    BY <1>1 DEF KeyInv, KvInv, AllExact, InRange
  <2> HIDE DEF c, I
  <2>2. Behind(c, {c.has_shift}, I, d) /\ \A j \in I : Gone(d, j)
    BY <2>1, RmEach
  <2> HIDE DEF d
  <2>3. Less(c, d, i) \/ Same(c, d, i)
    BY <2>2 DEF Behind, Less, Same, Holds
  <2> QED BY <2>1, <2>3 DEF c
<1> QED BY <1>1, <1>2, LessCarried, KeysKept

\* seq_cp within a stream changes sequences only.
LEMMA SeqCpSharedKeys ==
  ASSUME NEW mode, AreClaims(mode), ~CopyOnto, KeyInv(mode), KvInv', NEW src \in Seqs, NEW dst \in Seqs, NEW r \in Ranges, SeqCpShared(src, dst, r)
  PROVE  KeyInv(mode)'
<1> DEFINE c == cells[0]
           I == Having(c, r, src)
           d == SeqAddOf(c, I, dst)
<1>1. 0 \in Streams /\ Exact(c) /\ AllExact(cells)
  BY DEF SeqCpShared, Streams, KeyInv, KvInv, AllExact
<1>2. cells' = [cells EXCEPT ![0] = d] /\ UNCHANGED <<data, copies, todo>>
      /\ \A i \in I : dst \notin c.seq[i]
  BY DEF SeqCpShared, SeqAddOf, Each, FoldSet, MapThenFoldSet, seq_has
<1>3. I \in SUBSET Idx /\ \A i \in I : c.pos[i] # -1
  BY <1>1, HavingFacts
<1> HIDE DEF I, c
<1>4. Behind(c, {c.has_shift}, I, d) /\ \A i \in I : Holds(d, i, c.pos[i], c.seq[i] \cup {dst}, c.shift[i])
  BY <1>1, <1>2, <1>3, SeqAddEach
<1> HIDE DEF d
<1>5. \A i \in Idx : Carried(c, d, i)
  BY <1>4 DEF Carried, Behind, Holds
<1>6. \A st \in Streams, i \in Idx : Carried(cells[st], cells'[st], i)
  BY <1>1, <1>2, <1>5 DEF AllExact, Carried, c
<1> QED BY <1>2, <1>6, KeysKept

\* seq_cp to another stream: the shifts are pending there as well, and the keys are copied
\* as they are.
LEMMA SeqCpStreamKeys ==
  ASSUME NEW mode, AreClaims(mode), KeyInv(mode), KvInv', NEW src \in Seqs, NEW dst \in Seqs, NEW r \in Ranges, SeqCpStream(src, dst, r)
  PROVE  KeyInv(mode)'
<1> DEFINE c == cells[src]
           I == {i \in Idx : seq_has(c, i, src)}
           d == CopiedOf(c, I, dst)
           M == Made(data, copies)
<1>1. src \in Streams /\ dst \in Streams /\ Exact(c) /\ AllExact(cells)
  BY DEF SeqCpStream, Streams, KeyInv, KvInv, AllExact
<1>2. /\ cells' = [cells EXCEPT ![dst] = d] /\ copies' = Append(copies, <<src, dst>>)
      /\ data' = data /\ todo' = todo /\ todo = <<>>
  BY DEF SeqCpStream, Resting, CopiedOf, Each, FoldSet, MapThenFoldSet
<1>3. I \in SUBSET Idx /\ \A i \in I : c.pos[i] # -1
  BY <1>1, UsedFacts DEF seq_has
<1> HIDE DEF I, c
<1>4. \A i \in Idx : IF i \in I THEN Holds(d, i, c.pos[i], {dst}, c.shift[i]) ELSE Gone(d, i)
  BY <1>1, <1>3, CopyEach
<1> HIDE DEF d
<1>5. data \in Buffers(mode) /\ copies \in Pairs /\ InPlace(mode, cells, M)
  BY DEF KeyInv
<1>6. /\ <<src, dst>> \in Streams \X Streams /\ copies' \in Pairs
      /\ Made(data', copies') = CopyMade(M, <<src, dst>>)
  BY <1>1, <1>2, <1>5, MadeFacts DEF Pairs
<1>7. M \in Buffers(mode)
  BY <1>5, MadeFacts
<1> HIDE DEF M
<1> DEFINE N == CopyMade(M, <<src, dst>>)
<1>8. N[dst] = M[src] /\ \A st \in Streams : st # dst => N[st] = M[st]
  BY <1>1, <1>6, <1>7, CopyMadeFacts
<1> HIDE DEF N
<1>9. \A st \in Streams, i \in Idx : InPlaceAt(mode, cells'[st], N[st], i)
  <2> TAKE st \in Streams, i \in Idx
  <2>1. CASE st # dst
    <3>1. cells'[st] = cells[st] /\ N[st] = M[st]
      BY <1>1, <1>2, <1>8, <2>1 DEF AllExact
    <3> QED BY <1>5, <3>1 DEF InPlace
  <2>2. CASE st = dst
    <3>1. cells'[st] = d /\ N[st] = M[src] /\ InPlaceAt(mode, c, M[src], i)
      BY <1>1, <1>2, <1>5, <1>8, <2>2 DEF AllExact, InPlace, c
    <3>2. InPlaceAt(mode, d, M[src], i)
      BY <1>4, <3>1 DEF InPlaceAt, Holds, Gone
    <3> QED BY <3>1, <3>2
  <2> QED BY <2>1, <2>2
<1> QED BY <1>2, <1>5, <1>6, <1>9 DEF KeyInv, InPlace, N

\* seq_keep only removes.
LEMMA SeqKeepKeys ==
  ASSUME NEW mode, AreClaims(mode), KeyInv(mode), KvInv', NEW s \in Seqs, SeqKeep(s)
  PROVE  KeyInv(mode)'
<1>1. /\ cells' = [st \in Streams |-> IF st = StreamOf(s) \/ Sliding THEN SeqKeepOf(cells[st], Idx, s) ELSE cells[st]]
      /\ UNCHANGED <<data, copies, todo>>
  BY DEF SeqKeep, SeqKeepOf, Each, FoldSet, MapThenFoldSet
<1>2. ASSUME NEW st \in Streams, NEW i \in Idx PROVE Carried(cells[st], cells'[st], i)
  <2> DEFINE c == cells[st]
             d == SeqKeepOf(c, Idx, s)
  <2>1. Exact(c) /\ Idx \in SUBSET Idx /\ (cells'[st] = d \/ cells'[st] = c)
    BY <1>1 DEF KeyInv, KvInv, AllExact
  <2> HIDE DEF c
  <2>2. Alone(c, d, i, s)
    BY <2>1, SeqKeepEach
  <2> HIDE DEF d
  <2>3. Carried(c, d, i) /\ Carried(c, c, i)
    BY <2>2 DEF Alone, Carried, Holds, Gone, Same
  <2> QED BY <2>1, <2>3 DEF c
<1> QED BY <1>1, <1>2, KeysKept

\* seq_set_prefix does not touch the cells.
LEMMA SetPrefixKeys ==
  ASSUME NEW mode, AreClaims(mode), KeyInv(mode), KvInv', NEW s \in Seqs, NEW p \in 0 .. PrefixCap, SetPrefix(s, p)
  PROVE  KeyInv(mode)'
<1>1. UNCHANGED <<cells, data, copies, todo>>
  BY DEF SetPrefix, Accepted, vars
<1>2. \A st \in Streams, i \in Idx : Carried(cells[st], cells'[st], i)
  BY <1>1 DEF Carried
<1> QED BY <1>1, <1>2, KeysKept

\* seq_add moves tokens, and remembers by how far.
LEMMA SeqAddKeys ==
  ASSUME NEW mode, AreClaims(mode), KeyInv(mode), KvInv', NEW s \in Seqs, NEW r \in Ranges, NEW shift \in Int, SeqAdd(s, r, shift)
  PROVE  KeyInv(mode)'
<1> DEFINE st == StreamOf(s)
           c  == cells[st]
           I  == Having(c, r, s)
           d  == PosAddOf(c, I, shift)
<1>1. st \in Streams /\ Exact(c) /\ AllExact(cells)
  BY StreamFacts DEF KeyInv, KvInv, AllExact
<1>2. cells' = [cells EXCEPT ![st] = d] /\ UNCHANGED <<data, copies, todo>> /\ \A i \in Idx : d.pos[i] <= MaxPos
  BY DEF SeqAdd, PosAddOf, Each, FoldSet, MapThenFoldSet
<1>3. I \in SUBSET Idx /\ \A i \in I : c.pos[i] # -1
  BY <1>1, HavingFacts
<1> HIDE DEF I, c
<1>4. Behind(c, BOOLEAN, I, d) /\ \A i \in I : Shifted(c, d, i, shift)
  BY <1>1, <1>3, PosAddEach
<1> HIDE DEF d, st
<1>5. ASSUME NEW i \in Idx PROVE Carried(c, d, i)
  <2>1. CASE i \in I
    <3>1. Shifted(c, d, i, shift) /\ c.pos[i] # -1 /\ c.pos[i] \in Int /\ c.shift[i] \in Int
      BY <1>1, <1>3, <1>4, <2>1, UsedFacts
    <3>2. CASE Gone(d, i)
      BY <3>2 DEF Carried, Gone, Holds
    <3>3. CASE ~Gone(d, i)
      <4>1. Holds(d, i, c.pos[i] + shift, c.seq[i], c.shift[i] + shift)
        BY <3>1, <3>3 DEF Shifted
      <4>2. d.pos[i] - d.shift[i] = c.pos[i] - c.shift[i]
        BY <3>1, <4>1 DEF Holds
      <4> QED BY <1>2, <3>1, <4>2 DEF Carried
    <3> QED BY <3>2, <3>3
  <2>2. CASE i \notin I
    BY <1>4, <2>2 DEF Behind, Carried
  <2> QED BY <2>1, <2>2
<1>6. \A x \in Streams, i \in Idx : Carried(cells[x], cells'[x], i)
  <2> TAKE x \in Streams, i \in Idx
  <2>1. c = cells[st]
    BY DEF c, st
  <2>2. CASE x = st
    BY <1>1, <1>2, <1>5, <2>1, <2>2 DEF AllExact
  <2>3. CASE x # st
    BY <1>1, <1>2, <2>3 DEF AllExact, Carried
  <2> QED BY <2>2, <2>3
<1> QED BY <1>2, <1>6, KeysKept

\* seq_div moves tokens, too, but what was computed for them stays.
LEMMA SeqDivKeys ==
  ASSUME NEW mode, "keys" \notin mode, AreClaims(mode), KeyInv(mode), KvInv',
         NEW s \in Seqs, NEW r \in Ranges, NEW m \in Nat \ {0}, SeqDiv(s, r, m)
  PROVE  KeyInv(mode)'
<1> DEFINE st == StreamOf(s)
           c  == cells[st]
           I  == Having(c, r, s)
           d  == PosDivOf(c, I, m)
<1>1. st \in Streams /\ Exact(c) /\ AllExact(cells)
  BY StreamFacts DEF KeyInv, KvInv, AllExact
<1>2. cells' = [cells EXCEPT ![st] = d] /\ UNCHANGED <<data, copies, todo>>
  BY DEF SeqDiv, PosDivOf, Each, FoldSet, MapThenFoldSet
<1>3. I \in SUBSET Idx /\ \A i \in I : c.pos[i] # -1
  BY <1>1, HavingFacts
<1> HIDE DEF I, c
<1>4. Behind(c, BOOLEAN, I, d)
  BY <1>1, <1>3, PosDivEach
<1> HIDE DEF d, st
<1>5. \A i \in Idx : d.pos[i] # -1 => c.pos[i] # -1
  BY <1>3, <1>4 DEF Behind
<1>6. \A x \in Streams, i \in Idx : cells'[x].pos[i] # -1 => cells[x].pos[i] # -1
  <2>1. c = cells[st]
    BY DEF c, st
  <2>2. \A x \in Streams : cells'[x] = IF x = st THEN d ELSE cells[x]
    BY <1>1, <1>2 DEF AllExact
  <2> QED BY <1>5, <2>1, <2>2
<1>7. InPlace(mode, cells', Made(data', copies'))
  BY <1>2, <1>6 DEF KeyInv, InPlace, InPlaceAt, AreClaims
<1> QED BY <1>2, <1>7 DEF KeyInv

\* What has to be computed when a decode begins, and the updated memory.
UpdatedCell(c, d, i) == d.pos[i] = c.pos[i] /\ d.seq[i] = c.seq[i] /\ d.shift[i] = 0

\* The memory is updated: no shift is pending any more.
LEMMA UpdatedFacts ==
  ASSUME KvInv
  PROVE  /\ AllExact(Updated) /\ Unshifted(Updated)
         /\ \A st \in Streams, i \in Idx : UpdatedCell(cells[st], Updated[st], i)
<1>1. CASE Shifting
  <2>1. Updated = [st \in Streams |-> reset_shift(cells[st])]
    BY <1>1 DEF Updated
  <2>2. ASSUME NEW st \in Streams
        PROVE  /\ Exact(Updated[st]) /\ ~Updated[st].has_shift
               /\ \A i \in Idx : UpdatedCell(cells[st], Updated[st], i)
    <3>1. Exact(cells[st]) /\ Updated[st] = reset_shift(cells[st])
      BY <2>1 DEF KvInv, AllExact
    <3> QED BY <3>1, ResetShiftExact DEF UpdatedCell
  <2>3. Updated = [st \in Streams |-> Updated[st]]
    BY <2>1
  <2> QED BY <2>2, <2>3, AllChanged DEF Unshifted
<1>2. CASE ~Shifting
  <2>1. Updated = cells /\ \A st \in Streams : Exact(cells[st]) /\ ~cells[st].has_shift
    BY <1>2 DEF Updated, KvInv, AllExact, Shifting
  <2>2. \A st \in Streams, i \in Idx : cells[st].shift[i] = 0
    BY <2>1, UsedFacts
  <2> QED BY <1>2, <2>1, <2>2 DEF KvInv, Unshifted, UpdatedCell
<1> QED BY <1>1, <1>2

\* The keys are rotated by the shifts that are pending, to where their tokens are.
LEMMA RotatedFacts ==
  ASSUME NEW mode, AreClaims(mode), KeyInv(mode)
  PROVE  Rotated \in Buffers(mode) /\ InPlace(mode, Updated, Rotated)
<1> DEFINE M == Made(data, copies)
<1>1. M \in Buffers(mode) /\ InPlace(mode, cells, M) /\ KvInv
  BY MadeFacts DEF KeyInv
<1>2. Copied = M
  BY CopiedIsMade
<1> HIDE DEF M
<1>3. \A st \in Streams, i \in Idx : UpdatedCell(cells[st], Updated[st], i)
  BY <1>1, UpdatedFacts
<1>4. CASE Shifting
  <2>1. Rotated = [st \in Streams |-> [i \in Idx |-> [M[st][i] EXCEPT !.rot = @ + cells[st].shift[i]]]]
    BY <1>2, <1>4 DEF Rotated
  <2>2. ASSUME NEW st \in Streams, NEW i \in Idx
        PROVE  Rotated[st][i] \in Values(mode) /\ InPlaceAt(mode, Updated[st], Rotated[st], i)
    <3> DEFINE c == cells[st]
               b == M[st][i]
               v == Rotated[st][i]
    <3>1. v = [b EXCEPT !.rot = @ + c.shift[i]]
      BY <2>1
    <3>2. b \in Values(mode) /\ InPlaceAt(mode, c, M[st], i) /\ Exact(c)
      BY <1>1 DEF Buffers, InPlace, KvInv, AllExact
    <3>3. /\ c.pos[i] \in Int /\ c.pos[i] >= -1 /\ c.shift[i] \in Int
          /\ c.pos[i] = -1 => c.shift[i] = 0
      BY <3>2, UsedFacts
    <3>4. UpdatedCell(c, Updated[st], i)
      BY <1>3
    <3> HIDE DEF v, c
    <3>5. b.tok \in Toks \cup {"none"} /\ b.rot \in Rots(mode) /\ b = [tok |-> b.tok, rot |-> b.rot]
      BY <3>2 DEF Values
    <3>a. b.rot \in Int
      BY <3>5, RotsFacts
    <3> DEFINE rot == b.rot + c.shift[i]
    <3>b. v = [tok |-> b.tok, rot |-> rot]
      BY <3>1, <3>5
    <3>6. v.tok = b.tok /\ v.rot = rot
      BY <3>b
    <3>7. CASE c.pos[i] = -1
      <4>1. rot = b.rot
        BY <3>3, <3>7, <3>a
      <4>2. v \in Values(mode)
        BY <3>5, <3>b, <4>1 DEF Values
      <4> QED BY <3>4, <3>7, <4>2 DEF v, InPlaceAt, UpdatedCell
    <3>8. CASE c.pos[i] # -1
      <4>1. /\ "range" \in mode => c.pos[i] <= MaxPos
            /\ "done" \in mode => b.tok # "none"
            /\ "keys" \in mode => b.rot = c.pos[i] - c.shift[i]
        BY <3>2, <3>8 DEF InPlaceAt, b
      <4>2. rot \in Int /\ ("keys" \in mode => rot = c.pos[i]) /\ c.pos[i] >= 0 /\ c.pos[i] = c.pos[i] - 0
        BY <3>3, <3>8, <3>a, <4>1
      <4>3. rot \in Rots(mode)
        <5>1. CASE "range" \in mode
          <6>1. rot = c.pos[i] /\ c.pos[i] \in 0 .. MaxPos
            BY <3>3, <4>1, <4>2, <5>1, ArgumentsAssumption DEF AreClaims
          <6> QED BY <6>1, RotsFacts
        <5>2. CASE "range" \notin mode
          BY <4>2, <5>2 DEF Rots
        <5> QED BY <5>1, <5>2
      <4> HIDE DEF rot
      <4>4. v \in Values(mode)
        BY <3>5, <3>b, <4>3 DEF Values
      <4> QED BY <3>4, <3>6, <4>1, <4>2, <4>4 DEF v, InPlaceAt, UpdatedCell
    <3> QED BY <3>7, <3>8 DEF v
  <2>3. Rotated \in Buffers(mode)
    <3> HIDE DEF InPlaceAt
    <3>1. \A st \in Streams : Rotated[st] = [i \in Idx |-> Rotated[st][i]]
      BY <2>1
    <3>2. \A st \in Streams : Rotated[st] \in [Idx -> Values(mode)]
      BY <2>2, <3>1
    <3>3. Rotated = [st \in Streams |-> Rotated[st]]
      BY <2>1
    <3> QED BY <3>2, <3>3 DEF Buffers
  <2> QED BY <2>2, <2>3 DEF InPlace
<1>5. CASE ~Shifting
  <2>1. Rotated = M /\ Updated = cells
    BY <1>2, <1>5 DEF Rotated, Updated
  <2> QED BY <1>1, <2>1
<1> QED BY <1>4, <1>5

\* A decode begins: the copies are made, the keys rotated, and the dry run of the placement
\* leaves nothing in a cell that was not there.
LEMMA BeginKeys ==
  ASSUME NEW mode, AreClaims(mode), KeyInv(mode), KvInv', NEW S \in SUBSET Seqs, S # {}, NEW n \in Nat, NEW tok \in Toks, NEW shared \in BOOLEAN,
         Begin(S, n, tok, shared)
  PROVE  KeyInv(mode)'
<1> DEFINE ubs == UbatchesOf(S, n, tok, shared)
           p == prepare(Updated, head, prefix, ubs)
<1>1. cells' = p.cells /\ data' = Rotated /\ copies' = <<>>
  BY DEF Begin
<1>2. IsBatch(ubs)
  <2>1. \A s \in S : PosMax(s) + n <= MaxPos
    BY DEF Begin, MayDecode
  <2> QED BY <2>1, UbatchesFacts DEF KeyInv, KvInv
<1>3. /\ AllExact(Updated) /\ Unshifted(Updated) /\ head \in Heads /\ prefix \in [Seqs -> Int]
  BY UpdatedFacts DEF KeyInv, KvInv, PrefixValues
<1> HIDE DEF ubs
<1>4. Back(Updated, p.cells)
  BY <1>2, <1>3, PrepareFacts
<1> HIDE DEF p
<1>5. Rotated \in Buffers(mode) /\ InPlace(mode, Updated, Rotated)
  BY RotatedFacts
<1>6. copies' \in Pairs /\ Made(data', copies') = Rotated
  BY <1>1, <1>5, MadeFacts DEF Pairs
<1>7. InPlace(mode, cells', Rotated)
  BY <1>1, <1>4, <1>5, LessCarried, CarriedInPlace DEF Back, InPlace
<1> QED BY <1>1, <1>5, <1>6, <1>7 DEF KeyInv

\* The values of the tokens of a micro-batch are written to the cells of its slot.
LEMMA WrittenFacts ==
  ASSUME NEW mode, NEW D \in Buffers(mode), NEW slot, NEW ub, IsPlace(slot, ub), NEW val,
         \A t \in TokensOf(ub) : val[t] \in Values(mode)
  PROVE  LET w == Written(D, slot, ub, val)
         IN /\ w \in Buffers(mode)
            /\ \A st \in Streams, i \in Idx : Outside(slot, st, i) => w[st][i] = D[st][i]
            /\ \A st \in DOMAIN ub : \A k \in 1 .. Len(slot[st]) :
                 ub[st][k] \in TokensOf(ub) /\ w[st][slot[st][k]] = val[ub[st][k]]
<1> DEFINE w == Written(D, slot, ub, val)
           At0(st, i) == CHOOSE k \in DOMAIN slot[st] : slot[st][k] = i
<1>1. w = [st \in Streams |-> [i \in Idx |-> IF st \in DOMAIN slot /\ i \in Range(slot[st]) THEN val[ub[st][At0(st, i)]] ELSE D[st][i]]]
  BY DEF Written
<1>2. DOMAIN slot = DOMAIN ub /\ DOMAIN ub \subseteq Streams
  BY DEF IsPlace
<1>3. ASSUME NEW st \in DOMAIN ub
      PROVE  /\ slot[st] \in Seq(Idx) /\ Apart(slot[st]) /\ Len(slot[st]) \in Nat /\ DOMAIN slot[st] = 1 .. Len(slot[st])
             /\ \A k \in 1 .. Len(slot[st]) : ub[st][k] \in TokensOf(ub)
  <2>1. /\ slot[st] \in Seq(Idx) /\ Apart(slot[st]) /\ Len(slot[st]) = Len(ub[st]) /\ DOMAIN ub[st] = 1 .. Len(ub[st])
    BY DEF IsPlace, IsSlot
  <2>2. Len(slot[st]) \in Nat /\ DOMAIN slot[st] = 1 .. Len(slot[st])
    BY <2>1
  <2>3. \A k \in 1 .. Len(slot[st]) : ub[st][k] \in TokensOf(ub)
    BY <2>1 DEF TokensOf, Range
  <2> QED BY <2>1, <2>2, <2>3
<1>4. ASSUME NEW st \in DOMAIN ub, NEW i \in Range(slot[st])
      PROVE  At0(st, i) \in 1 .. Len(slot[st]) /\ slot[st][At0(st, i)] = i
  BY <1>3 DEF Range
<1> HIDE DEF w, At0
<1>5. ASSUME NEW st \in Streams, NEW i \in Idx
      PROVE  w[st][i] \in Values(mode) /\ (Outside(slot, st, i) => w[st][i] = D[st][i])
  <2>1. CASE st \in DOMAIN slot /\ i \in Range(slot[st])
    <3>1. w[st][i] = val[ub[st][At0(st, i)]]
      BY <1>1, <2>1
    <3>2. ~Outside(slot, st, i)
      BY <1>2, <1>4, <2>1 DEF Outside
    <3> QED BY <1>2, <1>3, <1>4, <2>1, <3>1, <3>2
  <2>2. CASE ~(st \in DOMAIN slot /\ i \in Range(slot[st]))
    <3>1. w[st][i] = D[st][i]
      BY <1>1, <2>2
    <3> QED BY <3>1 DEF Buffers
  <2> QED BY <2>1, <2>2
<1>6. w \in Buffers(mode)
  <2>1. \A st \in Streams : w[st] = [i \in Idx |-> w[st][i]]
    BY <1>1
  <2>2. \A st \in Streams : w[st] \in [Idx -> Values(mode)]
    BY <1>5, <2>1
  <2>3. w = [st \in Streams |-> w[st]]
    BY <1>1
  <2> QED BY <2>2, <2>3 DEF Buffers
<1>7. ASSUME NEW st \in DOMAIN ub, NEW k \in 1 .. Len(slot[st]) PROVE w[st][slot[st][k]] = val[ub[st][k]]
  <2> DEFINE i == slot[st][k]
  <2>1. st \in Streams /\ i \in Idx /\ i \in Range(slot[st])
    BY <1>2, <1>3 DEF Range
  <2>2. At0(st, i) = k
    BY <1>3, <1>4, <2>1 DEF Apart
  <2> HIDE DEF i
  <2>3. w[st][i] = val[ub[st][At0(st, i)]]
    BY <1>1, <1>2, <2>1
  <2> QED BY <2>2, <2>3 DEF i
<1> QED BY <1>3, <1>5, <1>6, <1>7 DEF w

\* A cell is in the slot or not.
LEMMA SlotCases ==
  ASSUME NEW slot, NEW ub, IsPlace(slot, ub), NEW st \in Streams, NEW i \in Idx, ~Outside(slot, st, i)
  PROVE  st \in DOMAIN ub /\ \E k \in 1 .. Len(slot[st]) : slot[st][k] = i /\ k \in 1 .. Len(ub[st]) /\ IsWork(ub[st][k])
<1>1. st \in DOMAIN ub
  BY DEF Outside, IsPlace
<1>2. Len(slot[st]) = Len(ub[st]) /\ \A k \in 1 .. Len(ub[st]) : IsWork(ub[st][k])
  BY <1>1 DEF IsPlace, IsSlot
<1> QED BY <1>1, <1>2 DEF Outside

\* A micro-batch is computed: keys and values of its tokens are where its tokens are.
LEMMA UbatchKeys == ASSUME NEW mode, AreClaims(mode), KeyInv(mode), KvInv', Ubatch PROVE KeyInv(mode)'
<1> DEFINE ub == todo[1].ub  slot == todo[1].slot
           val == [t \in TokensOf(ub) |-> [tok |-> t.tok, rot |-> t.pos]]
           w == Written(data, slot, ub, val)
<1>1. /\ cells' = apply_ubatch(cells, slot, ub) /\ data' = w /\ todo # <<>> /\ copies' = copies
  BY DEF Ubatch
<1>2. IsPlace(slot, ub) /\ AllExact(cells) /\ data \in Buffers(mode) /\ copies = <<>> /\ InPlace(mode, cells, Made(data, copies))
  BY <1>1, WorkFacts DEF KeyInv, KvInv
<1>3. \A t \in TokensOf(ub) : val[t] = [tok |-> t.tok, rot |-> t.pos]
  OBVIOUS
<1> HIDE DEF ub, slot, val
<1>4. \A t \in TokensOf(ub) : val[t] \in Values(mode)
  <2>1. \A t \in TokensOf(ub) : IsWork(t)
    BY <1>2 DEF TokensOf, Range, IsPlace
  <2>2. \A t \in TokensOf(ub) : t.tok \in Toks \cup {"none"} /\ t.pos \in 0 .. MaxPos
    BY <2>1, ArgumentsAssumption DEF IsWork, IsToken
  <2> TAKE t \in TokensOf(ub)
  <2>3. t.tok \in Toks \cup {"none"} /\ t.pos \in Rots(mode) /\ val[t] = [tok |-> t.tok, rot |-> t.pos]
    BY <1>3, <2>2, RotsFacts
  <2> QED BY <2>3 DEF Values
<1>5. /\ w \in Buffers(mode)
      /\ \A st \in Streams, i \in Idx : Outside(slot, st, i) => w[st][i] = data[st][i]
      /\ \A st \in DOMAIN ub : \A k \in 1 .. Len(slot[st]) :
           ub[st][k] \in TokensOf(ub) /\ w[st][slot[st][k]] = val[ub[st][k]]
  BY <1>2, <1>4, WrittenFacts
<1>6. Applied(cells, cells', slot, ub)
  BY <1>1, <1>2, ApplyUbatchFacts
<1> HIDE DEF w
<1>7. Made(data, copies) = data /\ Made(w, copies) = w
  BY <1>2, <1>5, MadeFacts
<1>8. ASSUME NEW st \in Streams, NEW i \in Idx PROVE InPlaceAt(mode, cells'[st], w[st], i)
  <2>1. CASE Outside(slot, st, i)
    <3>1. Less(cells[st], cells'[st], i) /\ w[st][i] = data[st][i] /\ InPlaceAt(mode, cells[st], data[st], i)
      BY <1>2, <1>5, <1>6, <1>7, <2>1 DEF Applied, InPlace
    <3> QED BY <3>1 DEF InPlaceAt, Less, Gone, Holds
  <2>2. CASE ~Outside(slot, st, i)
    <3>1. PICK k \in 1 .. Len(slot[st]) : slot[st][k] = i /\ k \in 1 .. Len(ub[st]) /\ IsWork(ub[st][k])
      BY <1>2, <2>2, SlotCases
    <3> DEFINE t == ub[st][k]
    <3>2. st \in DOMAIN ub
      BY <1>2, <2>2, SlotCases
    <3>3. Takes(cells'[st], i, t) /\ w[st][i] = [tok |-> t.tok, rot |-> t.pos]
      BY <1>3, <1>5, <1>6, <3>1, <3>2 DEF Applied
    <3>4. t.pos \in Nat /\ t.pos <= MaxPos /\ t.tok # "none" /\ t.pos - 0 = t.pos
      BY <3>1, ArgumentsAssumption DEF IsWork, IsToken
    <3> HIDE DEF t
    <3> QED BY <3>3, <3>4 DEF InPlaceAt, Takes, Gone, Holds
  <2> QED BY <2>1, <2>2
<1>9. InPlace(mode, cells', Made(data', copies'))
  BY <1>1, <1>7, <1>8 DEF InPlace
<1> QED BY <1>1, <1>2, <1>5, <1>9 DEF KeyInv

\* The steps after which the claims may not hold any more.  A micro-batch fails with a token
\* that is in several sequences ...
LosesShared == UbatchFails /\ \E t \in TokensOf(todo[1].ub) : Cardinality(t.seqs) # 1
\* ... state is loaded that was saved with copies, or with shifts, pending ...
Loads       == Reload \/ \E s, t \in Seqs : LoadSeq(s, t)
LosesCopies == Loads /\ copies # <<>>
LosesShifts == Loads /\ Shifting
\* ... or positions are divided: the keys are rotated the wrong way.
Divides     == \E s \in Seqs, r \in Ranges, d \in Divs : SeqDiv(s, r, d)

\* A micro-batch fails: if its tokens are in one sequence each, their sequences lose them with
\* what is written to their cells.
LEMMA UbatchFailsKeys ==
  ASSUME NEW mode, AreClaims(mode), KeyInv(mode), KvInv', UbatchFails, mode # {} => ~LosesShared
  PROVE  KeyInv(mode)'
<1> DEFINE ub == todo[1].ub  slot == todo[1].slot
           C == apply_ubatch(cells, slot, ub)
           val == [t \in TokensOf(ub) |-> NoData]
           w == Written(data, slot, ub, val)
<1>1. /\ cells' = [st \in Streams |-> IF st \in DOMAIN ub THEN Undone(C[st], Range(ub[st])) ELSE C[st]]
      /\ data' = w /\ todo' = <<>> /\ todo # <<>> /\ copies' = copies
      /\ mode # {} => \A t \in TokensOf(ub) : Cardinality(t.seqs) = 1
  BY DEF UbatchFails, LosesShared
<1>2. IsPlace(slot, ub) /\ AllExact(cells) /\ data \in Buffers(mode) /\ copies = <<>> /\ InPlace(mode, cells, Made(data, copies))
  BY <1>1, WorkFacts DEF KeyInv, KvInv
<1>3. \A t \in TokensOf(ub) : val[t] \in Values(mode)
  BY RotsFacts
<1> HIDE DEF ub, slot, val
<1>4. /\ w \in Buffers(mode)
      /\ \A st \in Streams, i \in Idx : Outside(slot, st, i) => w[st][i] = data[st][i]
      /\ \A st \in DOMAIN ub : \A k \in 1 .. Len(slot[st]) : ub[st][k] \in TokensOf(ub)
  BY <1>2, <1>3, WrittenFacts
<1>5. AllExact(C) /\ Applied(cells, C, slot, ub)
  BY <1>2, ApplyUbatchFacts
<1> HIDE DEF w, C
<1>6. ASSUME NEW st \in Streams
      PROVE  /\ \A i \in Idx : Less(C[st], cells'[st], i)
             /\ st \in DOMAIN ub => \A t \in Range(ub[st]), i \in Idx : C[st].pos[i] >= t.pos => First(t) \notin cells'[st].seq[i]
  <2>1. CASE st \in DOMAIN ub
    <3> DEFINE R == Range(ub[st])
               u == UndoneOf(C[st], R, Firsts(R))
    <3>1. \A t \in R : IsToken(t) /\ First(t) \in Seqs
      BY <1>2, <2>1, TokensFacts
    <3>2. Firsts(R) \in SUBSET Seqs
      BY <3>1 DEF Firsts
    <3>3. IsFiniteSet(Firsts(R)) /\ Exact(C[st])
      BY <1>5, <3>2, SeqsAssumption, FS_Subset DEF AllExact
    <3>4. /\ \A i \in Idx : Less(C[st], u, i)
          /\ \A s \in Firsts(R), i \in Idx : C[st].pos[i] >= FromFirst(R, s)[1] => s \notin u.seq[i]
      BY <3>3, UndoneEach
    <3>5. cells'[st] = u
      BY <1>1, <2>1 DEF Undone, UndoneOf
    <3> HIDE DEF R, u
    <3>6. ASSUME NEW t \in R, NEW i \in Idx, C[st].pos[i] >= t.pos PROVE First(t) \notin u.seq[i]
      <4>1. First(t) \in Firsts(R)
        BY DEF Firsts
      <4>2. FromFirst(R, First(t))[1] \in Nat /\ t.pos >= FromFirst(R, First(t))[1] /\ t.pos \in Nat
        BY <3>1, <4>1, FromFirstFacts DEF IsToken
      <4>3. C[st].pos[i] \in Int
        BY <3>3, UsedFacts
      <4>4. C[st].pos[i] >= FromFirst(R, First(t))[1]
        BY <3>6, <4>2, <4>3
      <4> QED BY <3>4, <4>1, <4>4
    <3> QED BY <3>4, <3>5, <3>6 DEF R
  <2>2. CASE st \notin DOMAIN ub
    <3>1. cells'[st] = C[st]
      BY <1>1, <2>2
    <3> QED BY <2>2, <3>1 DEF Less, Holds
  <2> QED BY <2>1, <2>2
<1>7. Made(data, copies) = data /\ Made(w, copies) = w
  BY <1>2, <1>4, MadeFacts
<1>8. ASSUME NEW st \in Streams, NEW i \in Idx PROVE InPlaceAt(mode, cells'[st], w[st], i)
  <2>0. Less(C[st], cells'[st], i)
    BY <1>6
  <2>1. CASE Outside(slot, st, i)
    <3>1. Less(cells[st], C[st], i) /\ w[st][i] = data[st][i] /\ InPlaceAt(mode, cells[st], data[st], i)
      BY <1>2, <1>4, <1>5, <1>7, <2>1 DEF Applied, InPlace
    <3>2. Less(cells[st], cells'[st], i)
      BY <2>0, <3>1, LessLess
    <3> QED BY <3>1, <3>2 DEF InPlaceAt, Less, Gone, Holds
  <2>2. CASE ~Outside(slot, st, i) /\ mode # {}
    <3>1. PICK k \in 1 .. Len(slot[st]) : slot[st][k] = i /\ k \in 1 .. Len(ub[st]) /\ IsWork(ub[st][k])
      BY <1>2, <2>2, SlotCases
    <3> DEFINE t == ub[st][k]
    <3>2. st \in DOMAIN ub /\ DOMAIN ub[st] = 1 .. Len(ub[st])
      BY <1>2, <2>2, SlotCases DEF IsPlace
    <3>3. Takes(C[st], i, t) /\ t \in Range(ub[st]) /\ t \in TokensOf(ub)
      BY <1>4, <1>5, <3>1, <3>2 DEF Applied, Range
    <3>4. t.seqs # {} /\ t.pos \in Nat /\ t.seqs = {First(t)}
      <4>1. t.seqs # {} /\ t.pos \in Nat /\ t.seqs \in SUBSET Nat /\ IsFiniteSet(t.seqs)
        BY <3>1, SeqsAssumption, FS_Subset DEF IsWork, IsToken
      <4>2. Cardinality(t.seqs) = 1
        BY <1>1, <2>2, <3>3
      <4>3. PICK s : t.seqs = {s}
        BY <4>1, <4>2, FS_Singleton
      <4>4. Min(t.seqs) \in t.seqs
        BY <4>1, MinFacts
      <4> QED BY <4>1, <4>3, <4>4 DEF First
    <3>5. C[st].pos[i] >= t.pos => First(t) \notin cells'[st].seq[i]
      BY <1>6, <3>2, <3>3
    <3> HIDE DEF t
    <3>6. Gone(cells'[st], i)
      <4>1. CASE Gone(C[st], i)
        BY <2>0, <4>1 DEF Less, Gone, Holds
      <4>2. CASE ~Gone(C[st], i)
        <5>1. C[st].pos[i] = t.pos /\ C[st].seq[i] = {First(t)}
          BY <3>3, <3>4, <4>2 DEF Takes, Holds
        <5>2. First(t) \notin cells'[st].seq[i]
          BY <3>4, <3>5, <5>1
        <5> QED BY <2>0, <5>1, <5>2 DEF Less
      <4> QED BY <4>1, <4>2
    <3> QED BY <3>6 DEF InPlaceAt, Gone, Holds
  <2>3. CASE mode = {}
    BY <2>3, NoClaims
  <2> QED BY <2>1, <2>2, <2>3
<1>9. InPlace(mode, cells', Made(data', copies'))
  BY <1>1, <1>7, <1>8 DEF InPlace
<1> QED BY <1>1, <1>2, <1>4, <1>9 DEF KeyInv

\* Nothing is pending that matters: the buffers are as the cells say.
LEMMA SettledFacts ==
  ASSUME NEW mode, AreClaims(mode), KeyInv(mode), mode # {} => copies = <<>>, "keys" \in mode => ~Shifting
  PROVE  \A st \in Streams, i \in Idx :
           /\ "keys" \in mode => cells[st].shift[i] = 0
           /\ InPlaceAt(mode, cells[st], data[st], i)
<1>1. "keys" \in mode => \A st \in Streams : ~cells[st].has_shift
  BY DEF Shifting
<1>2. InPlace(mode, cells, data)
  <2>1. CASE mode = {}
    BY <2>1, NoClaims DEF InPlace
  <2>2. CASE mode # {}
    BY <2>2, MadeFacts DEF KeyInv
  <2> QED BY <2>1, <2>2
<1>3. \A st \in Streams : Exact(cells[st])
  BY DEF KeyInv, KvInv, AllExact
<1>4. \A st \in Streams, i \in Idx : "keys" \in mode => cells[st].shift[i] = 0
  BY <1>1, <1>3, UsedFacts
<1> QED BY <1>2, <1>4 DEF InPlace

\* A saved value fits the position it is loaded to.
LEMMA SavedFits ==
  ASSUME NEW mode, NEW c, NEW b, NEW i, InPlaceAt(mode, c, b, i), "keys" \in mode => c.shift[i] = 0,
         b[i] \in Values(mode), c.pos[i] \in Nat
  PROVE  Fits(mode, c.pos[i], b[i])
<1>1. c.pos[i] # -1 /\ c.pos[i] - 0 = c.pos[i]
  OBVIOUS
<1> QED BY <1>1 DEF InPlaceAt, Fits

\* What is loaded comes with its buffers.
LEMMA LoadSeqKeys ==
  ASSUME NEW mode, AreClaims(mode), KeyInv(mode), KvInv', NEW src \in Seqs, NEW dst \in Seqs, LoadSeq(src, dst),
         mode # {} => copies = <<>>, "keys" \in mode => ~Shifting
  PROVE  KeyInv(mode)'
<1> DEFINE st == StreamOf(dst)
           sx == StreamOf(src)
           c == CellsLoading(dst)
           toks == Loaded(src, dst)
           slot == LoadSlot(src, dst)
           val == SavedSeq(src).data
<1>1. st \in Streams /\ sx \in Streams
  BY StreamFacts
<1>2. /\ Exact(c) /\ \A i \in Idx : Less(cells[st], c, i)
      /\ \A k \in 1 .. Len(toks) : IsToken(toks[k]) /\ LoadedFrom(src, dst, k)
      /\ slot # NoSlot => IsSlot(slot, toks) /\ Adjacent(slot)
  BY LoadingFacts DEF KeyInv
<1>3. /\ todo' = todo /\ copies' = copies
      /\ IF slot = NoSlot THEN NotLoaded(dst) ELSE LoadAt(src, dst, slot)
  BY DEF LoadSeq
<1>4. /\ data \in Buffers(mode) /\ copies \in Pairs /\ AllExact(cells)
      /\ \A x \in Streams, i \in Idx :
           ("keys" \in mode => cells[x].shift[i] = 0) /\ InPlaceAt(mode, cells[x], data[x], i)
  BY SettledFacts DEF KeyInv, KvInv
<1>5. ASSUME NEW k \in 1 .. Len(toks) PROVE Fits(mode, toks[k].pos, val[k])
  <2>1. PICK i \in Idx : toks[k].pos = cells[sx].pos[i] /\ val[k] = data[sx][i]
    BY <1>2 DEF LoadedFrom
  <2>2. toks[k].pos \in Nat
    BY <1>2 DEF IsToken
  <2>3. ("keys" \in mode => cells[sx].shift[i] = 0) /\ InPlaceAt(mode, cells[sx], data[sx], i) /\ data[sx][i] \in Values(mode)
    BY <1>1, <1>4 DEF Buffers
  <2>4. cells[sx].pos[i] \in Nat
    BY <2>1, <2>2
  <2> HIDE DEF toks, val, sx
  <2>5. Fits(mode, cells[sx].pos[i], data[sx][i])
    BY <2>3, <2>4, SavedFits
  <2> QED BY <2>1, <2>5
<1>6. CASE slot = NoSlot
  <2>1. cells' = [cells EXCEPT ![st] = c] /\ data' = data
    BY <1>3, <1>6 DEF NotLoaded
  <2> HIDE DEF c, st
  <2>2. \A x \in Streams, i \in Idx : Carried(cells[x], cells'[x], i)
    <3> TAKE x \in Streams, i \in Idx
    <3>1. cells'[x] = IF x = st THEN c ELSE cells[x]
      BY <1>1, <1>4, <2>1 DEF AllExact
    <3>2. Less(cells[x], cells'[x], i) \/ Same(cells[x], cells'[x], i)
      BY <1>2, <3>1 DEF Same, Holds
    <3> QED BY <3>2, LessCarried
  <2> QED BY <1>3, <2>1, <2>2, KeysKept
<1>7. CASE slot # NoSlot
  <2> DEFINE e == ApplyIn(c, slot, toks)
  <2>1. /\ cells' = [cells EXCEPT ![st] = e]
        /\ data' = [data EXCEPT ![st] = [i \in Idx |-> IF i \in Range(slot) THEN val[i - slot[1] + 1] ELSE @[i]]]
    BY <1>3, <1>7 DEF LoadAt
  <2> HIDE DEF c, st, sx, toks, slot, val
  <2>2. /\ slot \in Seq(Idx) /\ Apart(slot) /\ Len(slot) = Len(toks) /\ Len(slot) \in Nat \ {0}
        /\ \A k \in 1 .. Len(slot) : slot[k] = slot[1] + k - 1
    BY <1>2, <1>7 DEF IsSlot, Adjacent
  <2>3. /\ \A k \in 1 .. Len(slot) : Takes(e, slot[k], toks[k])
        /\ \A i \in Idx : (\A k \in 1 .. Len(slot) : slot[k] # i) => Less(c, e, i)
    BY <1>2, <2>2, ApplyExact
  <2> HIDE DEF e
  <2>4. ASSUME NEW k \in 1 .. Len(slot) PROVE slot[k] \in Range(slot) /\ slot[k] - slot[1] + 1 = k
    <3>0. 1 \in 1 .. Len(slot) /\ slot[k] = slot[1] + k - 1 /\ k \in Int
      BY <2>2
    <3>1. slot[1] \in Int
      <4>1. slot[1] \in Idx
        BY <2>2, <3>0
      <4> QED BY <4>1, CellsAssumption DEF Idx
    <3>2. slot[k] \in Range(slot)
      BY <2>2 DEF Range
    <3> QED BY <3>0, <3>1, <3>2
  <2>5. \A i \in Range(slot) : i \in Idx /\ \E k \in 1 .. Len(slot) : slot[k] = i
    BY <2>2 DEF Range
  <2>6. /\ \A x \in Streams : x # st => cells'[x] = cells[x] /\ data'[x] = data[x]
        /\ cells'[st] = e
        /\ \A i \in Idx : data'[st][i] = IF i \in Range(slot) THEN val[i - slot[1] + 1] ELSE data[st][i]
    BY <1>1, <1>4, <2>1 DEF AllExact, Buffers
  <2>7. ASSUME NEW k \in 1 .. Len(slot), NEW i \in Idx, slot[k] = i
        PROVE  InPlaceAt(mode, e, data'[st], i) /\ data'[st][i] \in Values(mode)
    <3>1. data'[st][i] = val[k] /\ Takes(e, i, toks[k])
      BY <2>3, <2>4, <2>6, <2>7
    <3>2. Fits(mode, toks[k].pos, val[k])
      BY <1>5, <2>2
    <3>3. toks[k].pos - 0 = toks[k].pos /\ val[k] \in Values(mode)
      BY <3>2 DEF Fits
    <3> QED BY <3>1, <3>2, <3>3 DEF Fits, Takes, InPlaceAt, Gone, Holds
  <2>8. ASSUME NEW i \in Idx, \A k \in 1 .. Len(slot) : slot[k] # i
        PROVE  InPlaceAt(mode, e, data'[st], i) /\ data'[st][i] \in Values(mode)
    <3>1. data'[st][i] = data[st][i]
      BY <2>5, <2>6, <2>8
    <3>2. Less(cells[st], e, i)
      BY <1>2, <2>3, <2>8, LessLess
    <3>3. InPlaceAt(mode, cells[st], data[st], i) /\ data[st][i] \in Values(mode)
      BY <1>1, <1>4 DEF Buffers
    <3> QED BY <3>1, <3>2, <3>3 DEF InPlaceAt, Less, Gone, Holds
  <2>9. \A x \in Streams, i \in Idx : InPlaceAt(mode, cells'[x], data'[x], i) /\ data'[x][i] \in Values(mode)
    <3> TAKE x \in Streams, i \in Idx
    <3>1. CASE x = st
      BY <2>6, <2>7, <2>8, <3>1
    <3>2. CASE x # st
      BY <1>4, <2>6, <3>2 DEF Buffers
    <3> QED BY <3>1, <3>2
  <2>10. data' \in Buffers(mode)
    <3>1. data' = [x \in Streams |-> data'[x]] /\ \A x \in Streams : data'[x] = [i \in Idx |-> data'[x][i]]
      BY <1>1, <1>4, <2>1 DEF Buffers
    <3>2. \A x \in Streams : data'[x] \in [Idx -> Values(mode)]
      BY <2>9, <3>1
    <3> QED BY <3>1, <3>2 DEF Buffers
  <2>11. InPlace(mode, cells', Made(data', copies'))
    <3>1. CASE mode = {}
      BY <3>1, NoClaims DEF InPlace
    <3>2. CASE mode # {}
      <4>1. copies' = <<>> /\ Made(data', copies') = data'
        BY <1>3, <2>10, <3>2, MadeFacts
      <4> QED BY <2>9, <4>1 DEF InPlace
    <3> QED BY <3>1, <3>2
  <2>12. (todo' # <<>> => copies' = <<>>) /\ copies' \in Pairs
    BY <1>3 DEF KeyInv
  <2> QED BY <2>10, <2>11, <2>12 DEF KeyInv
<1> QED BY <1>6, <1>7

\* The whole state is loaded by another process.
LEMMA ReloadKeys ==
  ASSUME NEW mode, AreClaims(mode), KeyInv(mode), KvInv', Reload,
         mode # {} => copies = <<>>, "keys" \in mode => ~Shifting
  PROVE  KeyInv(mode)'
<1> DEFINE x(st) == Saved(st, cells[st].used)
           q(st) == x(st).cells
           w(st) == x(st).data
<1>1. /\ cells' = [st \in Streams |-> FilledOf(q(st), DOMAIN q(st))] /\ copies' = <<>> /\ todo' = todo
      /\ data' = [st \in Streams |-> [i \in Idx |-> IF i + 1 \in DOMAIN w(st) THEN w(st)[i + 1] ELSE NoData]]
  BY DEF Reload, FilledOf, FoldSet, MapThenFoldSet
<1>2. /\ data \in Buffers(mode) /\ AllExact(cells)
      /\ \A st \in Streams, i \in Idx :
           ("keys" \in mode => cells[st].shift[i] = 0) /\ InPlaceAt(mode, cells[st], data[st], i)
  BY SettledFacts DEF KeyInv, KvInv
<1>3. NoData \in Values(mode)
  BY RotsFacts
<1>4. ASSUME NEW st \in Streams, NEW i \in Idx PROVE InPlaceAt(mode, cells'[st], data'[st], i) /\ data'[st][i] \in Values(mode)
  <2> DEFINE I == cells[st].used
             toks == q(st)
             u == FilledOf(toks, DOMAIN toks)
  <2>1. Exact(cells[st])
    BY <1>2 DEF AllExact
  <2>2. I \in SUBSET Idx /\ \A j \in I : cells[st].pos[j] # -1
    BY <2>1, UsedFacts DEF Exact, CellsType
  <2>3. /\ Len(toks) \in Nat /\ DOMAIN toks = 1 .. Len(toks) /\ Len(toks) <= NCells
        /\ \A k \in DOMAIN toks : IsToken(toks[k]) /\ \E j \in I : SavedFrom(st, I, k, j)
        /\ DOMAIN w(st) = DOMAIN toks
    BY <1>2, <2>2, SavedFacts
  <2>4. /\ cells'[st] = u
        /\ data'[st][i] = IF i + 1 \in DOMAIN toks THEN w(st)[i + 1] ELSE NoData
    BY <1>1, <2>3
  <2>5. ASSUME NEW k \in DOMAIN toks
        PROVE  Fits(mode, toks[k].pos, w(st)[k])
    <3>1. PICK j \in I : toks[k].pos = cells[st].pos[j] /\ w(st)[k] = data[st][j]
      BY <2>3 DEF SavedFrom
    <3>2. toks[k].pos \in Nat /\ j \in Idx
      BY <2>2, <2>3 DEF IsToken
    <3>3. ("keys" \in mode => cells[st].shift[j] = 0) /\ InPlaceAt(mode, cells[st], data[st], j) /\ data[st][j] \in Values(mode)
      BY <1>2, <3>2 DEF Buffers
    <3>4. cells[st].pos[j] \in Nat
      BY <3>1, <3>2
    <3> HIDE DEF toks, w
    <3>5. Fits(mode, cells[st].pos[j], data[st][j])
      BY <3>3, <3>4, SavedFits
    <3> QED BY <3>1, <3>5
  <2> HIDE DEF toks, w
  <2>6. IF i + 1 \in DOMAIN toks THEN Holds(u, i, toks[i + 1].pos, toks[i + 1].seqs, 0) ELSE Gone(u, i)
    <3> DEFINE K == DOMAIN toks
    <3>0. K = 1 .. Len(toks) /\ Len(toks) \in Nat
      BY <2>3
    <3>1. IsFiniteSet(K)
      <4>1. IsFiniteSet(1 .. Len(toks))
        BY <3>0, FS_Interval
      <4> QED BY <3>0, <4>1
    <3>2. K \in SUBSET Nat /\ \A k \in K : k - 1 \in Idx /\ IsToken(toks[k])
      BY <2>3, CellsAssumption DEF Idx
    <3> HIDE DEF K
    <3>3. IF i + 1 \in K THEN Holds(FilledOf(toks, K), i, toks[i + 1].pos, toks[i + 1].seqs, 0) ELSE Gone(FilledOf(toks, K), i)
      BY <3>1, <3>2, FilledEach
    <3> QED BY <3>3 DEF K
  <2> HIDE DEF u
  <2>7. CASE i + 1 \in DOMAIN toks
    <3> DEFINE k == i + 1
    <3>1. /\ Holds(u, i, toks[k].pos, toks[k].seqs, 0) /\ data'[st][i] = w(st)[k]
          /\ Fits(mode, toks[k].pos, w(st)[k])
      BY <2>4, <2>5, <2>6, <2>7
    <3>2. toks[k].pos - 0 = toks[k].pos /\ w(st)[k] \in Values(mode)
      BY <3>1 DEF Fits
    <3> HIDE DEF k
    <3> QED BY <2>4, <3>1, <3>2 DEF Fits, InPlaceAt, Holds
  <2>8. CASE i + 1 \notin DOMAIN toks
    BY <1>3, <2>4, <2>6, <2>8 DEF InPlaceAt, Gone, Holds
  <2> QED BY <2>7, <2>8
<1>5. data' \in Buffers(mode)
  <2>1. data' = [st \in Streams |-> data'[st]] /\ \A st \in Streams : data'[st] = [i \in Idx |-> data'[st][i]]
    BY <1>1
  <2>2. \A st \in Streams : data'[st] \in [Idx -> Values(mode)]
    BY <1>4, <2>1
  <2> QED BY <2>1, <2>2 DEF Buffers
<1>6. copies' \in Pairs /\ Made(data', copies') = data'
  BY <1>1, <1>5, MadeFacts DEF Pairs
<1> QED BY <1>1, <1>4, <1>5, <1>6 DEF KeyInv, InPlace

\* Every step but these keeps what is claimed of the keys.
LEMMA KeyStepKeeps ==
  ASSUME NEW mode, AreClaims(mode), ~CopyOnto, KeyInv(mode), [Next]_vars,
         mode # {} => ~LosesShared /\ ~LosesCopies, "keys" \in mode => ~LosesShifts /\ ~Divides
  PROVE  KeyInv(mode)'
<1>0. KvInv'
  BY StepKeeps DEF KeyInv
<1>1. ASSUME NEW zero \in BOOLEAN, Clear(zero) PROVE KeyInv(mode)'
  BY <1>0, <1>1, ClearKeys
<1>2. ASSUME NEW r \in Ranges, SeqRmAll(r) PROVE KeyInv(mode)'
  BY <1>0, <1>2, SeqRmAllKeys
<1>3. ASSUME NEW r \in Ranges, NEW s \in Seqs, SeqRm(s, r) PROVE KeyInv(mode)'
  BY <1>0, <1>3, SeqRmKeys
<1>4. ASSUME NEW r \in Ranges, NEW s \in Seqs, NEW d \in Shifts, SeqAdd(s, r, d) PROVE KeyInv(mode)'
  <2>1. d \in Int
    BY ArgumentsAssumption
  <2> QED BY <1>0, <1>4, <2>1, SeqAddKeys
<1>5. ASSUME NEW r \in Ranges, NEW s \in Seqs, NEW t \in Seqs, SeqCp(s, t, r) PROVE KeyInv(mode)'
  <2>1. CASE SeqCpShared(s, t, r)
    BY <1>0, <2>1, SeqCpSharedKeys
  <2>2. CASE SeqCpStream(s, t, r)
    BY <1>0, <2>2, SeqCpStreamKeys
  <2> QED BY <1>5, <2>1, <2>2 DEF SeqCp
<1>6. ASSUME NEW s \in Seqs, SeqKeep(s) PROVE KeyInv(mode)'
  BY <1>0, <1>6, SeqKeepKeys
<1>7. ASSUME NEW s \in Seqs, NEW p \in 0 .. PrefixCap, SetPrefix(s, p) PROVE KeyInv(mode)'
  BY <1>0, <1>7, SetPrefixKeys
<1>8. ASSUME NEW s \in Seqs, NEW t \in Seqs, LoadSeq(s, t) PROVE KeyInv(mode)'
  BY <1>0, <1>8, LoadSeqKeys DEF Loads, LosesCopies, LosesShifts
<1>9. ASSUME NEW b \in Batches, Begin(b.seqs, b.n, b.tok, b.shared) PROVE KeyInv(mode)'
  <2>1. b.seqs \in SUBSET Seqs /\ b.seqs # {} /\ b.n \in Nat /\ b.tok \in Toks /\ b.shared \in BOOLEAN
    BY DecodeAssumption DEF Batches
  <2> QED BY <1>0, <1>9, <2>1, BeginKeys
<1>10. CASE Ubatch
  BY <1>0, <1>10, UbatchKeys
<1>11. CASE UbatchFails
  BY <1>0, <1>11, UbatchFailsKeys
<1>12. CASE Reload
  BY <1>0, <1>12, ReloadKeys DEF Loads, LosesCopies, LosesShifts
<1>13. CASE UNCHANGED vars
  BY <1>0, <1>13 DEF KeyInv, vars
<1>14. ASSUME NEW r \in Ranges, NEW s \in Seqs, NEW d \in Divs, SeqDiv(s, r, d) PROVE KeyInv(mode)'
  <2>1. d \in Nat \ {0}
    BY ArgumentsAssumption
  <2>2. "keys" \notin mode
    BY <1>14 DEF Divides
  <2> QED BY <1>0, <1>14, <2>1, <2>2, SeqDivKeys
<1> QED BY <1>1, <1>2, <1>3, <1>4, <1>5, <1>6, <1>7, <1>8, <1>9, <1>10, <1>11, <1>12, <1>13, <1>14 DEF Next

\* A used cell, the key that it has once the copies are made, and its shift.
LEMMA KeyFacts ==
  ASSUME NEW mode, AreClaims(mode), KeyInv(mode), NEW st \in Streams, NEW i \in Idx
  PROVE  /\ Copied[st][i] \in Values(mode)
         /\ i \in cells[st].used <=> cells[st].pos[i] # -1
         /\ InPlaceAt(mode, cells[st], Copied[st], i)
<1>1. Copied \in Buffers(mode) /\ InPlace(mode, cells, Copied)
  BY CopiedIsMade, MadeFacts DEF KeyInv
<1>2. Exact(cells[st])
  BY DEF KeyInv, KvInv, AllExact
<1> QED BY <1>1, <1>2, UsedFacts DEF Buffers, InPlace

\* Without claims the buffers and cells have their types, whatever happened; what the two
\* properties add is what the invariant claims with them.
Bare == KeyInv({})
LEMMA BareInv == ASSUME ~CopyOnto PROVE Spec => []Bare
<1>1. Init => Bare
  BY InitKeys DEF AreClaims, Bare
<1>2. Bare /\ [Next]_vars => Bare'
  BY KeyStepKeeps DEF AreClaims, Bare
<1> QED BY <1>1, <1>2, PTL DEF Spec

LEMMA BareFacts ==
  ASSUME Bare
  PROVE  /\ \A st \in Streams, i \in Idx :
              /\ i \in cells[st].used <=> cells[st].pos[i] # -1
              /\ cells[st].pos[i] \in Int /\ cells[st].shift[i] \in Int /\ Copied[st][i].rot \in Int
         /\ \A st \in Streams : cells[st].used \subseteq Idx
<1>1. \A st \in Streams : Exact(cells[st])
  BY DEF Bare, KeyInv, KvInv, AllExact
<1>2. \A st \in Streams, i \in Idx : Copied[st][i] \in Values({}) /\ Rots({}) \subseteq Int
  BY KeyFacts, RotsFacts DEF AreClaims, Bare
<1>3. \A st \in Streams, i \in Idx : Copied[st][i].rot \in Int
  BY <1>2 DEF Values
<1>4. \A st \in Streams : cells[st].used \subseteq Idx
  BY <1>1 DEF Exact, CellsType
<1> QED BY <1>1, <1>3, <1>4, UsedFacts

LEMMA KeysClaim == Bare => (KeysFollow <=> KeyInv({"keys"}))
<1> SUFFICES ASSUME Bare PROVE KeysFollow <=> KeyInv({"keys"})
  OBVIOUS
<1>1. \A st \in Streams, i \in Idx :
        i \in cells[st].used =>
          ((Copied[st][i].rot + cells[st].shift[i] = cells[st].pos[i])
            <=> (Copied[st][i].rot = cells[st].pos[i] - cells[st].shift[i]))
  BY BareFacts
<1>2. KeysFollow <=> InPlace({"keys"}, cells, Copied)
  BY <1>1, BareFacts DEF KeysFollow, InPlace, InPlaceAt
<1>3. KeyInv({"keys"}) <=> InPlace({"keys"}, cells, Copied)
  BY CopiedIsMade DEF Bare, KeyInv, Buffers, Values, Rots
<1> QED BY <1>2, <1>3

LEMMA DoneClaim == Bare => (NoGarbage <=> KeyInv({"done"}))
<1> SUFFICES ASSUME Bare PROVE NoGarbage <=> KeyInv({"done"})
  OBVIOUS
<1>1. NoGarbage <=> InPlace({"done"}, cells, Copied)
  BY BareFacts DEF NoGarbage, InPlace, InPlaceAt
<1>2. KeyInv({"done"}) <=> InPlace({"done"}, cells, Copied)
  BY CopiedIsMade DEF Bare, KeyInv, Buffers, Values, Rots
<1> QED BY <1>1, <1>2

\* The keys of every used cell, with the pending copies made, are rotated to where the shifts
\* that are pending expect them.  Four steps can end that, and no other: a micro-batch that
\* fails with a token of several sequences, state saved with copies or with shifts pending,
\* and positions that are divided (llama-kv-cells.h:412 adds to the shift what the position
\* loses).  Any other step keeps it, from any state reached, whatever came
\* before; without those steps it always holds.  (The assumption is the assertion of
\* llama-kv-cells.h:285: no copy onto a sequence that has the cell.)
THEOREM KeysAlwaysFollow ==
  ASSUME ~CopyOnto
  PROVE  Spec => /\ [][KeysFollow /\ ~(LosesShared \/ LosesCopies \/ LosesShifts \/ Divides) => KeysFollow']_vars
                 /\ [][~(LosesShared \/ LosesCopies \/ LosesShifts \/ Divides)]_vars => []KeysFollow
<1> DEFINE Loses == LosesShared \/ LosesCopies \/ LosesShifts \/ Divides
<1>1. Init => KeysFollow
  BY InitKeys, KeysClaim DEF AreClaims, Bare
<1>a. (Bare => (KeysFollow <=> KeyInv({"keys"})))'
  BY KeysClaim, PTL
<1>2. Bare /\ Bare' /\ [Next]_vars => [KeysFollow /\ ~Loses => KeysFollow']_vars
  <2> SUFFICES ASSUME Bare, Bare', [Next]_vars, KeysFollow, ~Loses PROVE KeysFollow'
    OBVIOUS
  <2>1. KeyInv({"keys"})
    BY KeysClaim
  <2>2. KeyInv({"keys"})'
    BY <2>1, KeyStepKeeps DEF AreClaims
  <2> QED BY <1>a, <2>2
<1>3. KeysFollow /\ UNCHANGED vars => KeysFollow'
  <2> SUFFICES ASSUME KeysFollow, UNCHANGED vars PROVE KeysFollow'
    OBVIOUS
  <2>1. Copied' = Copied /\ cells' = cells
    BY DEF Copied, vars
  <2> QED BY <2>1 DEF KeysFollow
<1> HIDE DEF Loses
<1>4. Spec => [][KeysFollow /\ ~Loses => KeysFollow']_vars
  BY <1>2, BareInv, PTL DEF Spec
<1>5. [KeysFollow /\ ~Loses => KeysFollow']_vars /\ [~Loses]_vars /\ KeysFollow => KeysFollow'
  BY <1>3
<1>6. Spec => ([][~Loses]_vars => []KeysFollow)
  BY <1>1, <1>4, <1>5, PTL DEF Spec
<1> QED BY <1>4, <1>6 DEF Loses

\* No used cell shows keys and values that were never computed.  Two steps can end that, and
\* no other: a micro-batch that fails with a token of several sequences (llama-context.cpp:1149
\* removes it from the first one only), and state saved with copies pending.
THEOREM NothingIsGarbage ==
  ASSUME ~CopyOnto
  PROVE  Spec => /\ [][NoGarbage /\ ~(LosesShared \/ LosesCopies) => NoGarbage']_vars
                 /\ [][~(LosesShared \/ LosesCopies)]_vars => []NoGarbage
<1> DEFINE Loses == LosesShared \/ LosesCopies
<1>1. Init => NoGarbage
  BY InitKeys, DoneClaim DEF AreClaims, Bare
<1>a. (Bare => (NoGarbage <=> KeyInv({"done"})))'
  BY DoneClaim, PTL
<1>2. Bare /\ Bare' /\ [Next]_vars => [NoGarbage /\ ~Loses => NoGarbage']_vars
  <2> SUFFICES ASSUME Bare, Bare', [Next]_vars, NoGarbage, ~Loses PROVE NoGarbage'
    OBVIOUS
  <2>1. KeyInv({"done"})
    BY DoneClaim
  <2>2. KeyInv({"done"})'
    BY <2>1, KeyStepKeeps DEF AreClaims
  <2> QED BY <1>a, <2>2
<1>3. NoGarbage /\ UNCHANGED vars => NoGarbage'
  <2> SUFFICES ASSUME NoGarbage, UNCHANGED vars PROVE NoGarbage'
    OBVIOUS
  <2>1. Copied' = Copied /\ cells' = cells
    BY DEF Copied, vars
  <2> QED BY <2>1 DEF NoGarbage
<1> HIDE DEF Loses
<1>4. Spec => [][NoGarbage /\ ~Loses => NoGarbage']_vars
  BY <1>2, BareInv, PTL DEF Spec
<1>5. [NoGarbage /\ ~Loses => NoGarbage']_vars /\ [~Loses]_vars /\ NoGarbage => NoGarbage'
  BY <1>3
<1>6. Spec => ([][~Loses]_vars => []NoGarbage)
  BY <1>1, <1>4, <1>5, PTL DEF Spec
<1> QED BY <1>4, <1>6 DEF Loses

\* The members of the cache stay in their ranges: a position below the bound, a shift
\* that does not exceed it, a head within the cells, a key rotated by no more than the shifts.
THEOREM TypeCorrect ==
  ASSUME ~CopyOnto, ~SharedFails, ~LoadPending, Divs = {}
  PROVE  Spec => []TypeOK
<1> DEFINE all == {"keys", "range"}
<1>0. AreClaims(all)
  BY DEF AreClaims
<1> HIDE DEF all
<1>1. KeyInv(all) /\ [Next]_vars => KeyInv(all)'
  <2>1. [Next]_vars => ~LosesShared /\ ~LosesCopies /\ ~LosesShifts /\ ~Divides
    BY DEF LosesShared, UbatchFails, LosesCopies, LosesShifts, Loads, LoadSeq, Reload, Settled, Divides
  <2> QED BY <1>0, <2>1, KeyStepKeeps
<1>2. KeyInv(all) => TypeOK
  <2> SUFFICES ASSUME KeyInv(all) PROVE TypeOK
    OBVIOUS
  <2>a. "keys" \in all /\ "range" \in all /\ Rots(all) = 0 .. MaxPos
    BY DEF all, Rots
  <2>1. ASSUME NEW st \in Streams
        PROVE  /\ cells[st].pos \in [Idx -> Positions]
               /\ cells[st].shift \in [Idx -> -MaxPos .. MaxPos]
               /\ cells[st].seq \in [Idx -> SUBSET Seqs]
               /\ cells[st].used \subseteq Idx
               /\ cells[st].has_shift \in BOOLEAN
    <3>1. Exact(cells[st]) /\ MaxPos \in Nat
      BY ArgumentsAssumption DEF KeyInv, KvInv, AllExact
    <3>2. /\ cells[st].pos \in [Idx -> Int] /\ cells[st].shift \in [Idx -> Int]
          /\ cells[st].seq \in [Idx -> SUBSET Seqs] /\ cells[st].used \subseteq Idx /\ cells[st].has_shift \in BOOLEAN
      BY <3>1 DEF Exact, CellsType
    <3>3. ASSUME NEW i \in Idx PROVE cells[st].pos[i] \in -1 .. MaxPos /\ cells[st].shift[i] \in -MaxPos .. MaxPos
      <4> DEFINE p == cells[st].pos[i]
                 sh == cells[st].shift[i]
                 v == Copied[st][i]
      <4>1. p \in Int /\ p >= -1 /\ sh \in Int /\ (p = -1 => sh = 0)
        BY <3>1, UsedFacts
      <4>2. v.rot \in 0 .. MaxPos /\ (p # -1 => p <= MaxPos /\ v.rot = p - sh)
        BY <1>0, <2>a, KeyFacts DEF Values, InPlaceAt
      <4> HIDE DEF p, sh, v
      <4>3. p \in -1 .. MaxPos /\ sh \in -MaxPos .. MaxPos
        BY <3>1, <4>1, <4>2
      <4> QED BY <4>3 DEF p, sh
    <3> QED BY <3>2, <3>3 DEF Positions
  <2>2. ASSUME NEW st \in Streams, NEW i \in Idx
        PROVE  data[st][i] \in [tok : Toks \union {"none"}, rot : 0 .. 2 * MaxPos]
    <3>1. data[st][i] \in Values(all) /\ MaxPos \in Nat
      BY ArgumentsAssumption DEF KeyInv, Buffers
    <3>2. 0 .. MaxPos \subseteq 0 .. 2 * MaxPos
      BY <3>1
    <3> QED BY <2>a, <3>1, <3>2 DEF Values
  <2>3. /\ \A st \in Streams : head[st] \in 0 .. NCells
        /\ prefix \in [Seqs -> -1 .. PrefixCap] /\ copies \in Seq(Streams \X Streams)
    BY DEF KeyInv, KvInv, Heads, PrefixValues, Pairs
  <2> QED BY <2>1, <2>2, <2>3 DEF TypeOK
<1>3. Init => KeyInv(all)
  BY <1>0, InitKeys
<1> QED BY <1>1, <1>2, <1>3, PTL DEF Spec

-----------------------------------------------------------------------------
\* Cells with the same tokens are the same: the derived members follow from them.
LEMMA SameCells ==
  ASSUME NEW c, NEW d, Exact(c), Exact(d), c.has_shift = d.has_shift, \A i \in Idx : Same(c, d, i)
  PROVE  c = d
<1>1. /\ CellsType(c) /\ CellsType(d) /\ c = [m \in Members |-> c[m]] /\ d = [m \in Members |-> d[m]]
  BY DEF Exact, CellsType, Shape
<1>2. c.pos = d.pos /\ c.seq = d.seq /\ c.shift = d.shift
  <2> DEFINE F(m) == [i \in Idx |-> m[i]]
  <2>1. /\ c.pos = F(c.pos) /\ d.pos = F(d.pos) /\ c.seq = F(c.seq) /\ d.seq = F(d.seq)
        /\ c.shift = F(c.shift) /\ d.shift = F(d.shift)
    BY <1>1 DEF CellsType
  <2>2. \A i \in Idx : d.pos[i] = c.pos[i] /\ d.seq[i] = c.seq[i] /\ d.shift[i] = c.shift[i]
    BY DEF Same, Holds
  <2>3. F(c.pos) = F(d.pos) /\ F(c.seq) = F(d.seq) /\ F(c.shift) = F(d.shift)
    BY <2>2
  <2> QED BY <2>1, <2>3
<1> DEFINE Counted(e) == /\ e.used = {i \in Idx : e.pos[i] # -1}
                         /\ \A s \in Seqs : e.seq_pos[s] = Hist(e.pos, e.seq, s)
<1>6. Counted(c) /\ Counted(d)
  <2>1. CountsExactIn(c) /\ CountsExactIn(d)
    BY DEF Exact
  <2> QED BY <2>1, ExactIs
<1>3. c.used = d.used
  BY <1>2, <1>6
<1>4. c.seq_pos = d.seq_pos
  <2>1. \A s \in Seqs : c.seq_pos[s] = d.seq_pos[s]
    BY <1>2, <1>6
  <2>2. c.seq_pos = [s \in Seqs |-> c.seq_pos[s]] /\ d.seq_pos = [s \in Seqs |-> d.seq_pos[s]]
    BY <1>1 DEF CellsType
  <2>3. [s \in Seqs |-> c.seq_pos[s]] = [s \in Seqs |-> d.seq_pos[s]]
    BY <2>1
  <2> QED BY <2>2, <2>3
<1>5. \A m \in Members : c[m] = d[m]
  BY <1>2, <1>3, <1>4 DEF Members
<1> QED BY <1>1, <1>5

\* prepare is a dry run without a sliding window, with a prefix and without: a decode
\* that begins leaves the cells, the used ones and the counts of positions included, as they
\* were, whether it finds slots for all its micro-batches, for some or for none.
THEOREM DryRunRestores ==
  ASSUME ~CopyOnto, SwaType = "none"
  PROVE  Spec => []PrepareRestores
<1>1. KvInv /\ [Next]_vars => KvInv'
  BY StepKeeps
<1>2. KvInv => PrepareRestores
  <2> SUFFICES ASSUME KvInv, NEW b \in Batches, MayDecode(b.seqs, b.n, b.shared)
               PROVE  prepare(Updated, head, prefix, UbatchesOf(b.seqs, b.n, b.tok, b.shared)).cells = Updated
    BY DEF PrepareRestores
  <2> DEFINE ubs == UbatchesOf(b.seqs, b.n, b.tok, b.shared)
             D == prepare(Updated, head, prefix, ubs).cells
  <2>1. b.seqs \in SUBSET Seqs /\ b.seqs # {} /\ b.n \in Nat /\ b.tok \in Toks /\ b.shared \in BOOLEAN
    BY DecodeAssumption DEF Batches
  <2>2. IsBatch(ubs)
    <3>1. \A s \in b.seqs : PosMax(s) + b.n <= MaxPos
      BY DEF MayDecode
    <3> QED BY <2>1, <3>1, UbatchesFacts DEF KvInv
  <2>3. /\ AllExact(Updated) /\ Unshifted(Updated) /\ head \in Heads /\ prefix \in [Seqs -> Int]
    BY UpdatedFacts DEF KvInv, PrefixValues
  <2> HIDE DEF ubs
  <2>4. AllExact(D) /\ Unshifted(D) /\ Back(Updated, D)
    BY <2>2, <2>3, PrepareFacts
  <2> HIDE DEF D
  <2>5. ASSUME NEW st \in Streams PROVE D[st] = Updated[st]
    <3>1. Exact(D[st]) /\ Exact(Updated[st]) /\ \A i \in Idx : Same(Updated[st], D[st], i)
      BY <2>3, <2>4 DEF AllExact, Back
    <3>2. Updated[st].has_shift = D[st].has_shift
      BY <2>3, <2>4, <3>1 DEF Unshifted, Exact, CellsType
    <3> QED BY <3>1, <3>2, SameCells
  <2>6. D = Updated
    BY <2>3, <2>4, <2>5 DEF AllExact
  <2> QED BY <2>6 DEF D, ubs
<1> QED BY InitInv, <1>1, <1>2, PTL DEF Spec

=============================================================================
