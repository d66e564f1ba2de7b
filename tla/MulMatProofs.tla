----------------------------- MODULE MulMatProofs -----------------------------
(***************************************************************************)
(* Proofs about MulMat, for any graph, any number of threads and any size  *)
(* of the products and of what they are cut into.  Arithmetic first: every *)
(* way to cut a product up gives each piece once.  Then the invariant: the *)
(* threads pass the barriers in lockstep, so that all of them compute a    *)
(* product in the same way, none multiplies before all inputs are          *)
(* prepared, and every output is computed exactly once.                    *)
(***************************************************************************)
EXTENDS MulMat, Recursion

(***************************************************************************)
(* How the work is cut up.                                                 *)
(***************************************************************************)
LEMMA DivTimes ==
  ASSUME NEW a \in Nat, NEW n \in Nat \ {0}
  PROVE  (a * n) \div n = a
OBVIOUS

\* A larger number has no smaller quotient.
LEMMA DivMonotone ==
  ASSUME NEW a \in Nat, NEW b \in Nat, NEW n \in Nat \ {0}, a <= b
  PROVE  a \div n <= b \div n
OBVIOUS

\* The cuts go up from 0 to n.
LEMMA CutFacts ==
  ASSUME NEW n \in Nat
  PROVE  /\ Cut(n, 0) = 0 /\ Cut(n, NThreads) = n
         /\ \A t \in Nat : Cut(n, t) \in Nat
         /\ \A t, u \in Nat : t <= u => Cut(n, t) <= Cut(n, u)
<1> USE ThreadsAssumption DEF Cut
<1>1. Cut(n, 0) = 0
  OBVIOUS
<1>2. Cut(n, NThreads) = n
  BY DivTimes
<1>3. \A t \in Nat : Cut(n, t) \in Nat
  OBVIOUS
<1>4. ASSUME NEW t \in Nat, NEW u \in Nat, t <= u PROVE Cut(n, t) <= Cut(n, u)
  <2>1. n * t \in Nat /\ n * u \in Nat /\ n * t <= n * u
    BY <1>4
  <2> QED BY <2>1, DivMonotone
<1> QED BY <1>1, <1>2, <1>3, <1>4

\* A share for each thread, and none of the n things is left out.
LEMMA SharesCover ==
  ASSUME NEW n \in Nat
  PROVE  /\ \A t \in Threads : Share(n, t) \subseteq 0 .. n - 1
         /\ \A i \in 0 .. n - 1 : \E t \in Threads : i \in Share(n, t)
<1>1. ASSUME NEW t \in Threads PROVE Share(n, t) \subseteq 0 .. n - 1
  <2>1. t \in Nat /\ t + 1 \in Nat /\ NThreads \in Nat /\ t + 1 <= NThreads
    BY ThreadsAssumption DEF Threads
  <2>a. Cut(n, t) \in Nat /\ Cut(n, t + 1) \in Nat
    BY <2>1, CutFacts
  <2>b. Cut(n, t + 1) <= Cut(n, NThreads)
    BY <2>1, CutFacts
  <2>2. Cut(n, t) \in Nat /\ Cut(n, t + 1) \in Nat /\ Cut(n, t + 1) <= n
    BY <2>a, <2>b, CutFacts
  <2> QED BY <2>2 DEF Share
<1>2. ASSUME NEW i \in 0 .. n - 1 PROVE \E t \in Threads : i \in Share(n, t)
  <2> DEFINE S == {t \in Nat : i < Cut(n, t + 1)}
  <2>1. NThreads - 1 \in S
    <3>1. NThreads - 1 \in Nat /\ (NThreads - 1) + 1 = NThreads
      BY ThreadsAssumption
    <3>2. i < Cut(n, NThreads)
      BY CutFacts
    <3> QED BY <3>1, <3>2
  <2>2. PICK t \in S : \A u \in S : t <= u
    BY <2>1, LeastNatural
  <2>3. t \in Threads
    BY <2>1, <2>2, ThreadsAssumption DEF Threads
  <2>4. Cut(n, t) <= i
    <3>1. CASE t = 0
      BY <3>1, CutFacts
    <3>2. CASE t # 0
      <4>1. t - 1 \in Nat /\ t - 1 \notin S
        BY <2>2, <3>2
      <4> QED BY <4>1, CutFacts
    <3> QED BY <3>1, <3>2
  <2> QED BY <2>2, <2>3, <2>4, CutFacts DEF Share
<1> QED BY <1>1, <1>2

\* Every thread takes each NThreads-th of a set of numbers.
LEMMA StridesCover ==
  ASSUME NEW S \in SUBSET Nat
  PROVE  /\ \A t \in Threads : Strided(S, t) \subseteq S
         /\ \A i \in S : \E t \in Threads : i \in Strided(S, t)
BY ThreadsAssumption DEF Strided, Threads

\* The ways to compute a product of a kind.
Computes(p, w) ==
  \/ p.op = "mul_mat" /\ w \in {"lut", "direct"}
  \/ p.op = "wide" /\ w \in {"wide", "wide_lut"}
  \/ p.op \in Row4 /\ w \in RowWays

\* What the assumptions say of one product.
LEMMA ProductFacts ==
  ASSUME NEW k \in DOMAIN Products
  PROVE  /\ Products[k] \in ProductType
         /\ Products[k].nr0 \in Nat \ {0} /\ Products[k].ne1 \in Nat \ {0}
         /\ Products[k].planes \in Nat \ {0} /\ Products[k].nb \in Nat \ {0}
         /\ NCols(Products[k]) \in Nat \ {0}
         /\ Products[k].op # "mul_mat" => Products[k].f32
         /\ Products[k].op \in Row4 => Products[k].nr0 % Tile = 0
         /\ Prepared(Products[k]) \subseteq Inputs
<1> DEFINE p == Products[k]
<1>1. p \in ProductType
  BY ProductsAssumption
<1>2. \A n \in {p.nr0, p.ne1, p.planes, p.nb} : n > 0
  BY ProductsAssumption
<1>3. p.nr0 \in Nat \ {0} /\ p.ne1 \in Nat \ {0} /\ p.planes \in Nat \ {0} /\ p.nb \in Nat \ {0}
  BY <1>1, <1>2 DEF ProductType
<1>4. NCols(p) \in Nat \ {0}
  BY <1>3 DEF NCols
<1>5. p.op # "mul_mat" => p.f32
  BY ProductsAssumption
<1>6. p.op \in Row4 => p.nr0 % Tile = 0
  BY ProductsAssumption
<1>7. Prepared(p) \subseteq Inputs
  BY DEF Inputs
<1> QED BY <1>1, <1>3, <1>4, <1>5, <1>6, <1>7

\* Together the threads quantise all inputs of a product.
LEMMA QuantiseCovers ==
  ASSUME NEW k \in DOMAIN Products, NEW w, Computes(Products[k], w)
  PROVE  /\ \A t \in Threads : QuantiseShare(Products[k], w, t) \subseteq Prepared(Products[k])
         /\ \A u \in Prepared(Products[k]) : \E t \in Threads : u \in QuantiseShare(Products[k], w, t)
<1> DEFINE p == Products[k]
<1>1. p.nb \in Nat /\ NCols(p) \in Nat
  BY ProductFacts
<1> HIDE DEF p
<1>2. /\ \A t \in Threads : Strided(Cols(p), t) \subseteq Cols(p) /\ Strided(Blocks(p), t) \subseteq Blocks(p)
      /\ \A i \in Cols(p) : \E t \in Threads : i \in Strided(Cols(p), t)
      /\ \A i \in Blocks(p) : \E t \in Threads : i \in Strided(Blocks(p), t)
  <2>1. Cols(p) \in SUBSET Nat /\ Blocks(p) \in SUBSET Nat
    BY <1>1 DEF Cols, Blocks
  <2> QED BY <2>1, StridesCover
<1>3. /\ \A t \in Threads : Share(p.nb, t) \subseteq Blocks(p) /\ Share(NCols(p), t) \subseteq Cols(p)
      /\ \A i \in Blocks(p) : \E t \in Threads : i \in Share(p.nb, t)
      /\ \A i \in Cols(p) : \E t \in Threads : i \in Share(NCols(p), t)
  BY <1>1, SharesCover DEF Blocks, Cols
<1>4. 0 \in Threads
  BY ThreadsAssumption DEF Threads
<1>5. p.op \notin Row4 => Padding(p) = {}
  BY DEF Padding, uses_panel, Row4
<1>6. CASE w = "direct"
  <2>1. Prepared(p) = Cols(p) \X Blocks(p)
    BY <1>5, <1>6 DEF Prepared, Computes, Row4, RowWays, p
  <2>2. CASE OneQuantizes
    <3>1. \A t \in Threads : QuantiseShare(p, w, t) = IF t = 0 THEN Cols(p) \X Blocks(p) ELSE {}
      BY <1>6, <2>2 DEF QuantiseShare, RowWays
    <3> QED BY <1>4, <2>1, <3>1 DEF p
  <2>3. CASE ~OneQuantizes
    <3>1. \A t \in Threads : QuantiseShare(p, w, t) = Cols(p) \X Share(p.nb, t)
      BY <1>6, <2>3 DEF QuantiseShare, RowWays
    <3> QED BY <1>3, <2>1, <3>1 DEF p
  <2> QED BY <2>2, <2>3
<1>7. CASE w \in {"lut", "wide"}
  <2>1. Prepared(p) = Cols(p) \X Blocks(p)
    BY <1>5, <1>7 DEF Prepared, Computes, Row4, RowWays, p
  <2>2. \A t \in Threads : QuantiseShare(p, w, t) = Strided(Cols(p), t) \X Blocks(p)
    BY <1>7 DEF QuantiseShare, RowWays
  <2> QED BY <1>2, <2>1, <2>2 DEF p
<1>8. CASE w = "wide_lut"
  <2>1. Prepared(p) = Cols(p) \X Blocks(p)
    BY <1>5, <1>8 DEF Prepared, Computes, Row4, RowWays, p
  <2>2. \A t \in Threads : QuantiseShare(p, w, t) =
          IF NCols(p) >= NThreads THEN Strided(Cols(p), t) \X Blocks(p) ELSE Cols(p) \X Strided(Blocks(p), t)
    BY <1>8 DEF QuantiseShare, RowWays
  <2> QED BY <1>2, <2>1, <2>2 DEF p
<1>9. CASE w \in RowWays
  <2>1. \A t \in Threads : QuantiseShare(p, w, t) =
          (Share(NCols(p), t) \cup IF t = 0 THEN Padding(p) ELSE {}) \X Blocks(p)
    BY <1>9 DEF QuantiseShare, RowWays
  <2> QED BY <1>3, <1>4, <2>1 DEF Prepared, p
<1> QED BY <1>6, <1>7, <1>8, <1>9 DEF Computes, p

\* Together they make all tables and scales of a product that has no padding.
LEMMA TablesCover ==
  ASSUME NEW k \in DOMAIN Products, Products[k].op \notin Row4, NEW w
  PROVE  /\ \A t \in Threads : TableShare(Products[k], t) \subseteq Prepared(Products[k])
         /\ \A t \in Threads : ScaleShare(Products[k], w, t) \subseteq Prepared(Products[k])
         /\ \A u \in Prepared(Products[k]) : \E t \in Threads : u \in TableShare(Products[k], t)
         /\ \A u \in Prepared(Products[k]) : \E t \in Threads : u \in ScaleShare(Products[k], w, t)
<1> DEFINE p == Products[k]
<1>1. p.nb \in Nat /\ NCols(p) \in Nat
  BY ProductFacts
<1>2. Prepared(p) = Cols(p) \X Blocks(p)
  BY DEF Prepared, Padding, uses_panel, Row4
<1> HIDE DEF p
<1>3. /\ \A t \in Threads : Strided(Cols(p), t) \subseteq Cols(p) /\ Strided(Blocks(p), t) \subseteq Blocks(p)
      /\ \A i \in Cols(p) : \E t \in Threads : i \in Strided(Cols(p), t)
      /\ \A i \in Blocks(p) : \E t \in Threads : i \in Strided(Blocks(p), t)
  <2>1. Cols(p) \in SUBSET Nat /\ Blocks(p) \in SUBSET Nat
    BY <1>1 DEF Cols, Blocks
  <2> QED BY <2>1, StridesCover
<1>4. 0 \in Threads
  BY ThreadsAssumption DEF Threads
<1>5. /\ \A t \in Threads : TableShare(p, t) \subseteq Cols(p) \X Blocks(p)
      /\ \A u \in Cols(p) \X Blocks(p) : \E t \in Threads : u \in TableShare(p, t)
  BY <1>3 DEF TableShare
<1>6. /\ \A t \in Threads : ScaleShare(p, w, t) \subseteq Cols(p) \X Blocks(p)
      /\ \A u \in Cols(p) \X Blocks(p) : \E t \in Threads : u \in ScaleShare(p, w, t)
  BY <1>4, <1>5 DEF ScaleShare
<1> QED BY <1>2, <1>5, <1>6 DEF p
-----------------------------------------------------------------------------
(***************************************************************************)
(* Division: quotient and remainder, and the parts of a range.             *)
(***************************************************************************)
\* A number is its quotient and its remainder.
LEMMA DivFacts ==
  ASSUME NEW a \in Nat, NEW n \in Nat \ {0}
  PROVE  a \div n \in Nat /\ a % n \in 0 .. n - 1 /\ a = n * (a \div n) + (a % n)
<1>1. a \div n \in Nat
  OBVIOUS
<1>2. a % n \in 0 .. n - 1
  OBVIOUS
<1>3. a = n * (a \div n) + (a % n)
  OBVIOUS
<1> QED BY <1>1, <1>2, <1>3

\* They are the only ones.
LEMMA DivUnique ==
  ASSUME NEW n \in Nat \ {0}, NEW q \in Nat, NEW r \in 0 .. n - 1
  PROVE  (n * q + r) \div n = q /\ (n * q + r) % n = r
OBVIOUS

\* The numbers with a quotient are a range.
LEMMA QuotientRange ==
  ASSUME NEW a \in Nat, NEW n \in Nat \ {0}, NEW q \in Nat
  PROVE  a \div n = q <=> a \in n * q .. n * q + n - 1
<1>1. ASSUME a \in n * q .. n * q + n - 1 PROVE a \div n = q
  <2>1. a = n * q + (a - n * q) /\ a - n * q \in 0 .. n - 1
    BY <1>1
  <2> QED BY <2>1, DivUnique
<1>2. ASSUME a \div n = q PROVE a \in n * q .. n * q + n - 1
  BY <1>2, DivFacts
<1> QED BY <1>1, <1>2

\* A quotient is below a bound whose product is not reached.
LEMMA QuotientBelow ==
  ASSUME NEW a \in Nat, NEW n \in Nat \ {0}, NEW m \in Nat
  PROVE  a < n * m <=> a \div n < m
<1> DEFINE q == a \div n
<1>1. q \in Nat /\ n * q <= a /\ a < n * q + n
  BY DivFacts
<1> HIDE DEF q
<1>2. ASSUME q < m PROVE a < n * m
  <2>1. n * (q + 1) <= n * m
    BY <1>1, <1>2
  <2> QED BY <1>1, <2>1
<1>3. ASSUME ~(q < m) PROVE ~(a < n * m)
  <2>1. n * m <= n * q
    BY <1>1, <1>3
  <2> QED BY <1>1, <2>1
<1> QED BY <1>2, <1>3 DEF q

\* Rounded up, so many parts are enough.
LEMMA CeilFacts ==
  ASSUME NEW a \in Nat \ {0}, NEW n \in Nat \ {0}
  PROVE  CeilDiv(a, n) \in Nat \ {0} /\ a <= n * CeilDiv(a, n)
<1> DEFINE b == a + n - 1
<1>1. b \in Nat /\ b >= n
  OBVIOUS
<1>2. b \div n \in Nat /\ b < n * (b \div n) + n
  BY <1>1, DivFacts
<1>3. b \div n # 0
  BY <1>1, <1>2
<1> QED BY <1>2, <1>3 DEF CeilDiv

\* Part i of n equal parts holds the numbers whose quotient is i, and n are enough.
LEMMA PartFacts ==
  ASSUME NEW size \in Nat \ {0}, NEW n \in Nat \ {0}
  PROVE  /\ CeilDiv(size, n) \in Nat \ {0}
         /\ \A x \in 0 .. size - 1 : x \div CeilDiv(size, n) \in 0 .. n - 1
         /\ \A i \in Nat, x \in Int :
              (Part(size, n, i)[1] <= x /\ x < Part(size, n, i)[2])
                <=> (x \in 0 .. size - 1 /\ x \div CeilDiv(size, n) = i)
<1> DEFINE d == CeilDiv(size, n)
<1>1. d \in Nat \ {0} /\ size <= n * d
  BY CeilFacts
<1>2. \A i \in Nat : Part(size, n, i)[1] = d * i /\ Part(size, n, i)[2] = Smaller(d * i + d, size)
  BY DEF Part
<1> HIDE DEF d
<1>3. ASSUME NEW x \in 0 .. size - 1 PROVE x \div d \in 0 .. n - 1
  <2>1. x < d * n /\ x \in Nat
    BY <1>1
  <2>2. x \div d < n /\ x \div d \in Nat
    BY <1>1, <2>1, QuotientBelow, DivFacts
  <2> QED BY <2>2
<1>4. ASSUME NEW i \in Nat, NEW x \in Int
      PROVE  (d * i <= x /\ x < Smaller(d * i + d, size)) <=> (x \in 0 .. size - 1 /\ x \div d = i)
  <2>1. d * i \in Nat
    BY <1>1
  <2>2. CASE x \in Nat
    <3>1. x \div d = i <=> (d * i <= x /\ x < d * i + d)
      BY <1>1, <2>1, <2>2, QuotientRange
    <3> QED BY <1>1, <2>1, <2>2, <3>1 DEF Smaller
  <2>3. CASE x \notin Nat
    BY <1>1, <2>1, <2>3
  <2> QED BY <2>2, <2>3
<1> QED BY <1>1, <1>2, <1>3, <1>4 DEF d
-----------------------------------------------------------------------------
(***************************************************************************)
(* The pieces of a product.  Each way to cut the outputs up gives a piece  *)
(* all cells with the same index, or with an index in the same share.      *)
(***************************************************************************)
\* A cell is its row and its column.
LEMMA CellFacts ==
  ASSUME NEW k \in DOMAIN Products, NEW x \in Outs(k)
  PROVE  /\ x.row \in 0 .. Products[k].nr0 - 1 /\ x.col \in Cols(Products[k])
         /\ x = Cell(Products[k], x.row, x.col)
BY DEF Outs, Cell

\* The job a cell is part of.
JobSize(w)     == IF w = "pairs" THEN RowGroup ELSE Tile
TokenOf(w, c)  == CASE w = "dotprod" -> c [] w = "pairs" -> c \div 2 [] w = "panel" -> 0
JobOf(p, w, x) == TokenOf(w, x.col) * (p.nr0 \div JobSize(w)) + x.row \div JobSize(w)

\* The rows of a row4 product are groups of the size of its jobs.
LEMMA GroupFacts ==
  ASSUME NEW k \in DOMAIN Products, Products[k].op \in Row4, NEW w
  PROVE  /\ JobSize(w) \in Nat \ {0}
         /\ Products[k].nr0 \div JobSize(w) \in Nat \ {0}
         /\ JobSize(w) * (Products[k].nr0 \div JobSize(w)) = Products[k].nr0
<1> DEFINE n == Products[k].nr0
           s == JobSize(w)
<1>1. n \in Nat \ {0} /\ n % Tile = 0
  BY ProductFacts
<1>2. Tile \in Nat \ {0} /\ RowGroup \in Nat \ {0} /\ Tile % RowGroup = 0
  BY SizesAssumption
<1>3. s \in Nat \ {0}
  BY <1>2 DEF JobSize
<1>4. n % s = 0
  <2>1. CASE w = "pairs"
    <3>a. n = Tile * (n \div Tile) + (n % Tile)
      BY <1>1, <1>2, DivFacts
    <3>b. Tile = RowGroup * (Tile \div RowGroup) + (Tile % RowGroup)
      BY <1>2, DivFacts
    <3>1. n = Tile * (n \div Tile) /\ Tile = RowGroup * (Tile \div RowGroup)
      BY <1>1, <1>2, <3>a, <3>b
    <3>2. n \div Tile \in Nat /\ Tile \div RowGroup \in Nat
      BY <1>1, <1>2, DivFacts
    <3> DEFINE a == n \div Tile
               b == Tile \div RowGroup
    <3>3. n = RowGroup * (b * a) + 0
      <4> HIDE DEF a, b
      <4>1. a \in Nat /\ b \in Nat /\ n = (RowGroup * b) * a
        BY <3>1, <3>2 DEF a, b
      <4> QED BY <4>1, <1>2
    <3>4. b * a \in Nat
      BY <3>2
    <3> HIDE DEF a, b
    <3>5. n % RowGroup = 0
      BY <1>2, <3>3, <3>4, DivUnique
    <3> QED BY <2>1, <3>5 DEF JobSize
  <2>2. CASE w # "pairs"
    BY <1>1, <2>2 DEF JobSize
  <2> QED BY <2>1, <2>2
<1> HIDE DEF n, s
<1>5. n = s * (n \div s) /\ n \div s \in Nat
  BY <1>1, <1>3, <1>4, DivFacts
<1>6. n \div s # 0
  BY <1>1, <1>3, <1>5
<1> QED BY <1>3, <1>5, <1>6 DEF n, s

\* A job computes the cells with its index, and every cell is part of a job.
LEMMA JobFacts ==
  ASSUME NEW k \in DOMAIN Products, Products[k].op \in Row4, NEW w \in {"dotprod", "pairs", "panel"}
  PROVE  /\ \A x \in Outs(k) : JobOf(Products[k], w, x) \in 0 .. Jobs(Products[k], w) - 1
         /\ \A j \in 0 .. Jobs(Products[k], w) - 1 :
              Job(Products[k], w, j) = {x \in Outs(k) : JobOf(Products[k], w, x) = j}
<1> DEFINE p == Products[k]
           s == JobSize(w)
           q == p.nr0 \div s
           m == NCols(p)
<1>1. s \in Nat \ {0} /\ q \in Nat \ {0} /\ s * q = p.nr0 /\ m \in Nat \ {0} /\ p.nr0 \in Nat
  BY GroupFacts, ProductFacts
<1>2. Cols(p) = 0 .. m - 1
  BY DEF Cols
<1>3. Outs(k) = {Cell(p, r, c) : r \in 0 .. p.nr0 - 1, c \in 0 .. m - 1}
  BY <1>2 DEF Outs
<1>4. PICK n \in Nat : /\ Jobs(p, w) = n * q
                       /\ \A c \in 0 .. m - 1 : TokenOf(w, c) \in 0 .. n - 1
  <2>1. CASE w = "dotprod"
    BY <1>1, <2>1, GroupFacts DEF Jobs, TokenOf, JobSize
  <2>2. CASE w = "pairs"
    <3>1. CeilDiv(m, 2) \in Nat /\ \A c \in 0 .. m - 1 : c \div 2 \in 0 .. CeilDiv(m, 2) - 1
      BY <1>1 DEF CeilDiv
    <3> QED BY <2>2, <3>1 DEF Jobs, TokenOf, JobSize
  <2>3. CASE w = "panel"
    BY <1>1, <2>3 DEF Jobs, TokenOf, JobSize
  <2> QED BY <2>1, <2>2, <2>3
<1>5. ASSUME NEW r \in 0 .. p.nr0 - 1 PROVE r \div s \in 0 .. q - 1
  <2>1. r \in Nat /\ r < s * q
    BY <1>1
  <2>2. r \div s < q /\ r \div s \in Nat
    <3>1. r \div s < q
      BY <1>1, <2>1, QuotientBelow
    <3>2. r \div s \in Nat
      BY <1>1, <2>1, DivFacts
    <3> QED BY <3>1, <3>2
  <2> QED BY <1>1, <2>2
<1>6. \A x \in Outs(k) : JobOf(p, w, x) = TokenOf(w, x.col) * q + x.row \div s
  BY DEF JobOf
<1>7. \A x \in Outs(k) : x.row \in 0 .. p.nr0 - 1 /\ x.col \in 0 .. m - 1 /\ x = Cell(p, x.row, x.col)
  BY <1>2, CellFacts
<1>8. ASSUME NEW j \in 0 .. n * q - 1
      PROVE  Job(p, w, j) = {Cell(p, r, c) : r \in s * (j % q) .. s * (j % q) + s - 1,
                                             c \in {c \in 0 .. m - 1 : TokenOf(w, c) = j \div q}}
  <2>0. j \in Nat
    BY <1>1
  <2>1. j \in Nat /\ j \div q \in Nat
    BY <1>1, <2>0, DivFacts
  <2>2. CASE w = "dotprod"
    <3>1. Jobs(p, w) = m * q
      BY <2>2 DEF Jobs, JobSize
    <3>2. j \in Nat /\ j < q * m
      BY <1>1, <1>4, <3>1
    <3>3. j \div q < m
      BY <1>1, <3>2, QuotientBelow
    <3>4. {j \div q} = {c \in 0 .. m - 1 : TokenOf(w, c) = j \div q}
      BY <1>1, <2>1, <2>2, <3>3 DEF TokenOf
    <3> QED BY <2>2, <3>4 DEF Job, JobSize
  <2>3. CASE w = "pairs"
    <3>1. {2 * (j \div q), 2 * (j \div q) + 1} \intersect (0 .. m - 1) = {c \in 0 .. m - 1 : c \div 2 = j \div q}
      <4> DEFINE i == j \div q
      <4> HIDE DEF i
      <4>1. i \in Nat
        BY <2>1 DEF i
      <4>2. \A c \in Nat : c \div 2 = i <=> (c = 2 * i \/ c = 2 * i + 1)
        BY <4>1
      <4> QED BY <1>1, <4>1, <4>2 DEF i
    <3>2. {c \in 0 .. m - 1 : c \div 2 = j \div q} = {c \in 0 .. m - 1 : TokenOf(w, c) = j \div q}
      BY <2>3 DEF TokenOf
    <3>3. Job(p, w, j) = {Cell(p, r, c) : r \in s * (j % q) .. s * (j % q) + s - 1,
                                          c \in {2 * (j \div q), 2 * (j \div q) + 1} \intersect Cols(p)}
      BY <2>3 DEF Job, JobSize
    <3> QED BY <1>2, <3>1, <3>2, <3>3
  <2>4. CASE w = "panel"
    <3>1. Jobs(p, w) = q
      BY <2>4 DEF Jobs, JobSize
    <3>2. j < q * 1
      BY <1>1, <1>4, <3>1
    <3>3. j \div q = 0
      BY <1>1, <2>1, <3>2, QuotientBelow
    <3>4. 0 .. m - 1 = {c \in 0 .. m - 1 : TokenOf(w, c) = j \div q}
      BY <2>4, <3>3 DEF TokenOf
    <3> QED BY <1>2, <2>4, <3>4 DEF Job, JobSize
  <2> QED BY <2>2, <2>3, <2>4
<1> HIDE DEF p, s, q, m
<1>9. ASSUME NEW x \in Outs(k) PROVE JobOf(p, w, x) \in 0 .. n * q - 1
  <2>1. TokenOf(w, x.col) \in 0 .. n - 1 /\ x.row \div s \in 0 .. q - 1
    BY <1>4, <1>5, <1>7
  <2> DEFINE a == TokenOf(w, x.col)
             b == x.row \div s
  <2> HIDE DEF a, b
  <2>2. a \in 0 .. n - 1 /\ b \in 0 .. q - 1 /\ JobOf(p, w, x) = a * q + b
    BY <1>6, <2>1 DEF a, b
  <2>3. a * q <= (n - 1) * q /\ (n - 1) * q = n * q - q /\ a * q \in Nat
    BY <1>1, <2>2
  <2> QED BY <1>1, <2>2, <2>3
<1>10. ASSUME NEW x \in Outs(k), NEW j \in 0 .. n * q - 1
       PROVE  JobOf(p, w, x) = j <=> (x.row \in s * (j % q) .. s * (j % q) + s - 1 /\ TokenOf(w, x.col) = j \div q)
  <2> DEFINE a == TokenOf(w, x.col)
             b == x.row \div s
  <2>1. a \in 0 .. n - 1 /\ b \in 0 .. q - 1 /\ JobOf(p, w, x) = a * q + b
    BY <1>4, <1>5, <1>6, <1>7
  <2>0. j \in Nat
    BY <1>1
  <2>2. j \in Nat /\ j \div q \in Nat /\ j % q \in 0 .. q - 1 /\ j = q * (j \div q) + (j % q)
    BY <1>1, <2>0, DivFacts
  <2>3. b = j % q <=> x.row \in s * (j % q) .. s * (j % q) + s - 1
    <3>1. x.row \in Nat /\ j % q \in Nat
      BY <1>1, <1>7, <2>2
    <3> QED BY <1>1, <3>1, QuotientRange
  <2> HIDE DEF a, b
  <2>4. q * a = a * q /\ a \in Nat
    BY <1>1, <2>1
  <2>5. a * q + b = j => a = j \div q /\ b = j % q
    <3>1. (q * a + b) \div q = a /\ (q * a + b) % q = b
      BY <1>1, <2>1, <2>4, DivUnique
    <3> QED BY <2>4, <3>1
  <2>6. a = j \div q /\ b = j % q => a * q + b = j
    BY <1>1, <2>1, <2>2, <2>4
  <2> QED BY <2>1, <2>3, <2>5, <2>6 DEF a
<1>11. ASSUME NEW j \in 0 .. n * q - 1 PROVE Job(p, w, j) = {x \in Outs(k) : JobOf(p, w, x) = j}
  <2>1. j \in Nat /\ j % q \in 0 .. q - 1
    BY <1>1, DivFacts
  <2>2. s * (j % q) .. s * (j % q) + s - 1 \subseteq 0 .. p.nr0 - 1
    <3> DEFINE b == j % q
    <3> HIDE DEF b
    <3>1. b \in Nat /\ b + 1 <= q
      BY <1>1, <2>1 DEF b
    <3>2. s * (b + 1) <= s * q /\ s * (b + 1) = s * b + s /\ s * b \in Nat
      BY <1>1, <3>1
    <3> QED BY <1>1, <3>2 DEF b
  <2>3. \A x : x \in Job(p, w, j) <=>
          \E r \in s * (j % q) .. s * (j % q) + s - 1, c \in {c \in 0 .. m - 1 : TokenOf(w, c) = j \div q} :
             x = Cell(p, r, c)
    BY <1>8
  <2>4. \A x : x \in Outs(k) <=> \E r \in 0 .. p.nr0 - 1, c \in 0 .. m - 1 : x = Cell(p, r, c)
    BY <1>3
  <2>5. \A r, c : Cell(p, r, c).row = r /\ Cell(p, r, c).col = c
    BY DEF Cell
  <2>6. ASSUME NEW x \in Job(p, w, j) PROVE x \in Outs(k) /\ JobOf(p, w, x) = j
    <3>1. PICK r \in s * (j % q) .. s * (j % q) + s - 1, c \in {c \in 0 .. m - 1 : TokenOf(w, c) = j \div q} :
            x = Cell(p, r, c)
      BY <2>3
    <3>2. x \in Outs(k) /\ x.row = r /\ x.col = c
      BY <2>2, <2>4, <2>5, <3>1
    <3> QED BY <1>10, <3>1, <3>2
  <2>7. ASSUME NEW x \in Outs(k), JobOf(p, w, x) = j PROVE x \in Job(p, w, j)
    BY <1>7, <1>10, <2>3, <2>7
  <2> QED BY <2>6, <2>7
<1> QED BY <1>4, <1>9, <1>11 DEF p

\* The chunk a cell is part of.
ChunkOf(p, x) ==
  (x.col \div CeilDiv(NCols(p), NChunks(p)[2])) * NChunks(p)[1] + (x.row \div CeilDiv(p.nr0, NChunks(p)[1]))

\* There is a chunk.
LEMMA NChunksFacts ==
  ASSUME NEW k \in DOMAIN Products
  PROVE  NChunks(Products[k])[1] \in Nat \ {0} /\ NChunks(Products[k])[2] \in Nat \ {0}
<1> DEFINE p == Products[k]
<1>1. p.nr0 \in Nat \ {0} /\ NCols(p) \in Nat \ {0}
  BY ProductFacts
<1>2. NThreads \in Nat \ {0} /\ VectorChunk \in Nat \ {0} /\ ChunkSize \in Nat \ {0}
  BY ThreadsAssumption, SizesAssumption
<1> HIDE DEF p
<1>3. \A c \in {VectorChunk, ChunkSize} : CeilDiv(p.nr0, c) \in Nat \ {0} /\ CeilDiv(NCols(p), c) \in Nat \ {0}
  BY <1>1, <1>2, CeilFacts
<1>4. \A a, b : <<a, b>>[1] = a /\ <<a, b>>[2] = b
  OBVIOUS
<1> QED BY <1>2, <1>3, <1>4 DEF NChunks, p

\* Two neighbours in a plane of even size, the first in an even column, have no
\* boundary of planes between them.
LEMMA SamePlane ==
  ASSUME NEW c \in Nat, NEW n \in Nat \ {0}, Even(c), Even(n)
  PROVE  (c + 1) \div n = c \div n
<1> DEFINE q == c \div n
           r == c % n
<1>1. q \in Nat /\ r \in 0 .. n - 1 /\ c = n * q + r
  BY DivFacts
<1>2. PICK h \in Nat : n = 2 * h
  BY DEF Even
<1>3. PICK e \in Nat : c = 2 * e
  BY DEF Even
<1> HIDE DEF q, r
<1>4. r = 2 * (e - h * q) /\ h * q \in Nat
  BY <1>1, <1>2, <1>3
<1>5. r + 1 \in 0 .. n - 1
  BY <1>1, <1>2, <1>4
<1>6. (n * q + (r + 1)) \div n = q
  BY <1>1, <1>5, DivUnique
<1> QED BY <1>1, <1>6 DEF q

\* If a part of the columns is even, and all of them are, it begins in an even
\* column.
LEMMA EvenStart ==
  ASSUME NEW size \in Nat \ {0}, NEW n \in Nat \ {0}, NEW i \in Nat, Even(size),
         Even(Part(size, n, i)[2] - Part(size, n, i)[1])
  PROVE  Even(Part(size, n, i)[1])
<1> DEFINE d == CeilDiv(size, n)
<1>1. d \in Nat \ {0}
  BY CeilFacts
<1>2. Part(size, n, i)[1] = d * i /\ Part(size, n, i)[2] = Smaller(d * i + d, size)
  BY DEF Part
<1> HIDE DEF d
<1>3. d * i \in Nat
  BY <1>1
<1>4. CASE d * i + d < size
  <2>1. Even(d)
    <3>1. Smaller(d * i + d, size) - d * i = d
      BY <1>1, <1>3, <1>4 DEF Smaller
    <3> QED BY <1>2, <3>1
  <2>2. PICK e \in Nat : d = 2 * e
    BY <1>1, <2>1 DEF Even
  <2>3. d * i = 2 * (e * i) /\ e * i \in Nat
    BY <2>2
  <2> DEFINE f == e * i
  <2> HIDE DEF f
  <2>4. d * i = 2 * f /\ f \in Nat
    BY <2>3 DEF f
  <2> QED BY <1>2, <2>4 DEF Even
<1>5. CASE ~(d * i + d < size)
  <2> DEFINE a == d * i
  <2>1. Smaller(a + d, size) = size /\ a \in Nat
    BY <1>3, <1>5 DEF Smaller
  <2>2. Even(size - a)
    BY <1>2, <2>1
  <2> HIDE DEF a
  <2>3. Even(a)
    BY <2>1, <2>2 DEF Even
  <2> QED BY <1>2, <2>3 DEF a
<1> QED BY <1>4, <1>5

\* A chunk computes the cells of its rows and columns, with a kernel for one row and
\* column or for two, each with the weights of its own plane.
LEMMA ChunkCells ==
  ASSUME NEW k \in DOMAIN Products, NEW j \in Nat
  PROVE  Chunk(Products[k], j) =
           LET p == Products[k]
               r == Part(p.nr0, NChunks(p)[1], j % NChunks(p)[1])
               c == Part(NCols(p), NChunks(p)[2], j \div NChunks(p)[1])
           IN {Cell(p, row, col) : row \in r[1] .. r[2] - 1, col \in c[1] .. c[2] - 1}
<1> DEFINE p == Products[k]
           m == NCols(p)
           n == NChunks(p)
           i == j \div n[1]
           r == Part(p.nr0, n[1], j % n[1])
           c == Part(m, n[2], i)
           s == Step(p, r, c)
           C == {c1 \in c[1] .. c[2] - 1 : (c1 - c[1]) % s = 0}
<1>1. /\ p.nr0 \in Nat \ {0} /\ m \in Nat \ {0} /\ p.ne1 \in Nat \ {0} /\ p.planes \in Nat \ {0}
      /\ m = p.ne1 * p.planes
  BY ProductFacts DEF NCols
<1>2. n[1] \in Nat \ {0} /\ n[2] \in Nat \ {0}
  BY NChunksFacts
<1>3. i \in Nat
  BY <1>2, DivFacts
<1>4. CeilDiv(m, n[2]) \in Nat
  BY <1>1, <1>2, CeilFacts
<1>5. c[1] \in Nat /\ c[2] \in Nat
  BY <1>1, <1>3, <1>4 DEF Part, Smaller
<1>6. Chunk(p, j) = UNION {{[row |-> row, col |-> c1 + e, plane |-> c1 \div p.ne1] :
                              row \in r[1] .. r[2] - 1, e \in 0 .. s - 1} : c1 \in C}
  BY DEF Chunk
<1>7. s \in {1, 2} /\ (s = 2 => Even(p.ne1) /\ Even(c[2] - c[1]))
  BY SizesAssumption DEF Step
<1> HIDE DEF p, n, i, r, s
<1>8. ASSUME NEW c1 \in C, NEW e \in 0 .. s - 1
      PROVE  c1 + e \in c[1] .. c[2] - 1 /\ c1 \div p.ne1 = (c1 + e) \div p.ne1
  <2>1. c1 \in Nat /\ c[1] <= c1 /\ c1 < c[2]
    BY <1>5
  <2>2. CASE s = 1
    <3>1. e = 0
      BY <2>2
    <3> QED BY <2>1, <3>1, <1>5
  <2>3. CASE s = 2
    <3>1. Even(m)
      <4>1. PICK h \in Nat : p.ne1 = 2 * h
        BY <1>1, <1>7, <2>3 DEF Even
      <4>2. m = 2 * (h * p.planes) /\ h * p.planes \in Nat
        BY <1>1, <4>1
      <4> DEFINE f == h * p.planes
      <4> HIDE DEF f
      <4>3. m = 2 * f /\ f \in Nat
        BY <4>2 DEF f
      <4> QED BY <4>3 DEF Even
    <3>2. Even(c[1])
      BY <1>1, <1>2, <1>3, <1>7, <2>3, <3>1, EvenStart
    <3>3. (c1 - c[1]) % 2 = 0
      BY <2>3
    <3>4. Even(c1)
      BY <1>5, <2>1, <3>2, <3>3 DEF Even
    <3>5. c1 + 1 < c[2]
      BY <1>5, <1>7, <2>1, <2>3, <3>3 DEF Even
    <3>6. (c1 + 1) \div p.ne1 = c1 \div p.ne1
      BY <1>1, <1>7, <2>1, <2>3, <3>4, SamePlane
    <3>7. e = 0 \/ e = 1
      BY <2>3
    <3> QED BY <1>5, <2>1, <3>5, <3>6, <3>7
  <2> QED BY <1>7, <2>2, <2>3
<1>9. ASSUME NEW col \in c[1] .. c[2] - 1 PROVE \E c1 \in C, e \in 0 .. s - 1 : col = c1 + e
  <2>1. CASE s = 1
    <3>1. col \in C
      BY <1>5, <2>1
    <3> QED BY <2>1, <3>1
  <2>2. CASE s = 2
    <3> DEFINE e == (col - c[1]) % 2
    <3>1. e \in {0, 1} /\ (col - e - c[1]) % 2 = 0 /\ col - e \in c[1] .. c[2] - 1
      BY <1>5
    <3>2. col - e \in C
      BY <2>2, <3>1
    <3>3. col = (col - e) + e /\ e \in 0 .. s - 1
      BY <1>5, <2>2, <3>1
    <3> QED BY <3>2, <3>3
  <2> QED BY <1>7, <2>1, <2>2
<1> HIDE DEF C, c
<1>10. \A x : x \in Chunk(p, j) <=>
          \E c1 \in C, row \in r[1] .. r[2] - 1, e \in 0 .. s - 1 :
             x = [row |-> row, col |-> c1 + e, plane |-> c1 \div p.ne1]
  BY <1>6
<1>11. \A row : \A c1 \in C, e \in 0 .. s - 1 :
          [row |-> row, col |-> c1 + e, plane |-> c1 \div p.ne1] = Cell(p, row, c1 + e)
  BY <1>8 DEF Cell
<1>12. \A x : x \in Chunk(p, j) <=> \E row \in r[1] .. r[2] - 1, col \in c[1] .. c[2] - 1 : x = Cell(p, row, col)
  <2>1. ASSUME NEW x \in Chunk(p, j) PROVE \E row \in r[1] .. r[2] - 1, col \in c[1] .. c[2] - 1 : x = Cell(p, row, col)
    <3>1. PICK c1 \in C, row \in r[1] .. r[2] - 1, e \in 0 .. s - 1 :
            x = [row |-> row, col |-> c1 + e, plane |-> c1 \div p.ne1]
      BY <1>10
    <3>2. x = Cell(p, row, c1 + e)
      BY <1>11, <3>1
    <3>3. c1 + e \in c[1] .. c[2] - 1
      BY <1>8
    <3> QED BY <3>2, <3>3
  <2>2. ASSUME NEW row \in r[1] .. r[2] - 1, NEW col \in c[1] .. c[2] - 1 PROVE Cell(p, row, col) \in Chunk(p, j)
    <3>1. PICK c1 \in C, e \in 0 .. s - 1 : col = c1 + e
      BY <1>9
    <3>2. Cell(p, row, col) = [row |-> row, col |-> c1 + e, plane |-> c1 \div p.ne1]
      BY <1>11, <3>1
    <3> QED BY <1>10, <3>2
  <2> QED BY <2>1, <2>2
<1>13. Chunk(p, j) = {Cell(p, row, col) : row \in r[1] .. r[2] - 1, col \in c[1] .. c[2] - 1}
  BY <1>12
<1> QED BY <1>13 DEF p, n, i, r, c

\* A chunk holds the cells with its index, and every cell is part of a chunk.
LEMMA ChunkFacts ==
  ASSUME NEW k \in DOMAIN Products
  PROVE  /\ Total(Products[k]) \in Nat
         /\ \A x \in Outs(k) : ChunkOf(Products[k], x) \in 0 .. Total(Products[k]) - 1
         /\ \A j \in 0 .. Total(Products[k]) - 1 :
              Chunk(Products[k], j) = {x \in Outs(k) : ChunkOf(Products[k], x) = j}
<1> DEFINE p == Products[k]
           m == NCols(p)
           n == NChunks(p)[1]
           o == NChunks(p)[2]
           d == CeilDiv(p.nr0, n)
           e == CeilDiv(m, o)
<1>1. p.nr0 \in Nat \ {0} /\ m \in Nat \ {0} /\ n \in Nat \ {0} /\ o \in Nat \ {0}
  BY ProductFacts, NChunksFacts
<1>2. Total(p) = n * o /\ n * o \in Nat
  BY <1>1 DEF Total
<1>3. /\ d \in Nat \ {0} /\ e \in Nat \ {0}
      /\ \A x \in 0 .. p.nr0 - 1 : x \div d \in 0 .. n - 1
      /\ \A x \in 0 .. m - 1 : x \div e \in 0 .. o - 1
  BY <1>1, PartFacts
<1>4. \A x : x \in Outs(k) <=> \E r \in 0 .. p.nr0 - 1, c \in 0 .. m - 1 : x = Cell(p, r, c)
  BY DEF Outs, Cols
<1>5. \A x \in Outs(k) : x.row \in 0 .. p.nr0 - 1 /\ x.col \in 0 .. m - 1 /\ x = Cell(p, x.row, x.col)
  BY CellFacts DEF Cols
<1>6. \A r, c : Cell(p, r, c).row = r /\ Cell(p, r, c).col = c
  BY DEF Cell
<1>7. \A x \in Outs(k) : ChunkOf(p, x) = (x.col \div e) * n + (x.row \div d)
  BY DEF ChunkOf
<1>8. ASSUME NEW j \in Nat
      PROVE  Chunk(p, j) = {Cell(p, row, col) : row \in Part(p.nr0, n, j % n)[1] .. Part(p.nr0, n, j % n)[2] - 1,
                                                col \in Part(m, o, j \div n)[1] .. Part(m, o, j \div n)[2] - 1}
  BY ChunkCells
<1>a. ASSUME NEW i \in Nat, NEW y \in Int
      PROVE  /\ (Part(p.nr0, n, i)[1] <= y /\ y < Part(p.nr0, n, i)[2]) <=> (y \in 0 .. p.nr0 - 1 /\ y \div d = i)
             /\ (Part(m, o, i)[1] <= y /\ y < Part(m, o, i)[2]) <=> (y \in 0 .. m - 1 /\ y \div e = i)
             /\ {Part(p.nr0, n, i)[1], Part(p.nr0, n, i)[2], Part(m, o, i)[1], Part(m, o, i)[2]} \subseteq Int
  <2>1. d * i \in Nat /\ e * i \in Nat
    BY <1>3
  <2>2. /\ Part(p.nr0, n, i)[1] = d * i /\ Part(p.nr0, n, i)[2] = Smaller(d * i + d, p.nr0)
        /\ Part(m, o, i)[1] = e * i /\ Part(m, o, i)[2] = Smaller(e * i + e, m)
    BY DEF Part
  <2>3. {Part(p.nr0, n, i)[1], Part(p.nr0, n, i)[2], Part(m, o, i)[1], Part(m, o, i)[2]} \subseteq Int
    BY <1>1, <1>3, <2>1, <2>2 DEF Smaller
  <2>4. (Part(p.nr0, n, i)[1] <= y /\ y < Part(p.nr0, n, i)[2]) <=> (y \in 0 .. p.nr0 - 1 /\ y \div d = i)
    <3>1. \A l \in Nat, x \in Int :
            (Part(p.nr0, n, l)[1] <= x /\ x < Part(p.nr0, n, l)[2]) <=> (x \in 0 .. p.nr0 - 1 /\ x \div d = l)
      BY <1>1, PartFacts, Zenon DEF d
    <3> QED BY <3>1
  <2>5. (Part(m, o, i)[1] <= y /\ y < Part(m, o, i)[2]) <=> (y \in 0 .. m - 1 /\ y \div e = i)
    <3>1. \A l \in Nat, x \in Int :
            (Part(m, o, l)[1] <= x /\ x < Part(m, o, l)[2]) <=> (x \in 0 .. m - 1 /\ x \div e = l)
      BY <1>1, PartFacts, Zenon DEF e
    <3> QED BY <3>1
  <2> QED BY <2>3, <2>4, <2>5
<1> HIDE DEF p, m, n, o, d, e
<1>9. ASSUME NEW x \in Outs(k) PROVE ChunkOf(p, x) \in 0 .. n * o - 1
  <2> DEFINE a == x.col \div e
             b == x.row \div d
  <2>1. a \in 0 .. o - 1 /\ b \in 0 .. n - 1 /\ ChunkOf(p, x) = a * n + b
    BY <1>3, <1>5, <1>7
  <2> HIDE DEF a, b
  <2>2. a * n <= (o - 1) * n /\ (o - 1) * n = n * o - n /\ a * n \in Nat
    BY <1>1, <2>1
  <2> QED BY <1>1, <2>1, <2>2
<1>10. ASSUME NEW x \in Outs(k), NEW j \in Nat
       PROVE  ChunkOf(p, x) = j <=> (x.row \div d = j % n /\ x.col \div e = j \div n)
  <2> DEFINE a == x.col \div e
             b == x.row \div d
  <2>1. a \in 0 .. o - 1 /\ b \in 0 .. n - 1 /\ ChunkOf(p, x) = a * n + b
    BY <1>3, <1>5, <1>7
  <2>2. j \div n \in Nat /\ j % n \in 0 .. n - 1 /\ j = n * (j \div n) + (j % n)
    BY <1>1, DivFacts
  <2> HIDE DEF a, b
  <2>3. n * a = a * n /\ a \in Nat
    BY <1>1, <2>1
  <2>4. a * n + b = j => a = j \div n /\ b = j % n
    <3>1. (n * a + b) \div n = a /\ (n * a + b) % n = b
      BY <1>1, <2>1, <2>3, DivUnique
    <3> QED BY <2>3, <3>1
  <2>5. a = j \div n /\ b = j % n => a * n + b = j
    BY <1>1, <2>1, <2>2, <2>3
  <2> QED BY <2>1, <2>4, <2>5 DEF a, b
<1>11. ASSUME NEW j \in 0 .. n * o - 1 PROVE Chunk(p, j) = {x \in Outs(k) : ChunkOf(p, x) = j}
  <2>0. j \in Nat
    BY <1>2
  <2>1. j % n \in Nat /\ j \div n \in Nat
    <3>1. j % n \in 0 .. n - 1 /\ j \div n \in Nat
      BY <1>1, <2>0, DivFacts
    <3> QED BY <1>1, <3>1
  <2> DEFINE R == Part(p.nr0, n, j % n)
             C == Part(m, o, j \div n)
  <2>2. \A x : x \in Chunk(p, j) <=> \E row \in R[1] .. R[2] - 1, col \in C[1] .. C[2] - 1 : x = Cell(p, row, col)
    BY <1>8, <2>0
  <2>3. \A y : y \in R[1] .. R[2] - 1 <=> y \in 0 .. p.nr0 - 1 /\ y \div d = j % n
    BY <1>a, <1>1, <2>1
  <2>4. \A y : y \in C[1] .. C[2] - 1 <=> y \in 0 .. m - 1 /\ y \div e = j \div n
    BY <1>a, <1>1, <2>1
  <2> HIDE DEF R, C
  <2>5. ASSUME NEW x \in Chunk(p, j) PROVE x \in Outs(k) /\ ChunkOf(p, x) = j
    <3>1. PICK row \in R[1] .. R[2] - 1, col \in C[1] .. C[2] - 1 : x = Cell(p, row, col)
      BY <2>2
    <3>2. x \in Outs(k) /\ x.row = row /\ x.col = col
      BY <1>4, <1>6, <2>3, <2>4, <3>1
    <3> QED BY <1>10, <2>0, <2>3, <2>4, <3>2
  <2>6. ASSUME NEW x \in Outs(k), ChunkOf(p, x) = j PROVE x \in Chunk(p, j)
    BY <1>5, <1>10, <2>0, <2>2, <2>3, <2>4, <2>6
  <2> QED BY <2>5, <2>6
<1> QED BY <1>2, <1>9, <1>11 DEF p

\* Different threads have different shares, ...
LEMMA SharesApart ==
  ASSUME NEW n \in Nat, NEW t \in Threads, NEW u \in Threads, t # u
  PROVE  Share(n, t) \cap Share(n, u) = {}
<1>1. t \in Nat /\ u \in Nat /\ t + 1 \in Nat /\ u + 1 \in Nat
  BY ThreadsAssumption DEF Threads
<1>2. Cut(n, t) \in Nat /\ Cut(n, u) \in Nat /\ Cut(n, t + 1) \in Nat /\ Cut(n, u + 1) \in Nat
  BY <1>1, CutFacts
<1>3. CASE t + 1 <= u
  <2>1. Cut(n, t + 1) <= Cut(n, u)
    BY <1>1, <1>3, CutFacts
  <2> QED BY <1>2, <2>1 DEF Share
<1>4. CASE u + 1 <= t
  <2>1. Cut(n, u + 1) <= Cut(n, t)
    BY <1>1, <1>4, CutFacts
  <2> QED BY <1>2, <2>1 DEF Share
<1> QED BY <1>1, <1>3, <1>4

\* ... and different strides.
LEMMA StridesApart ==
  ASSUME NEW S \in SUBSET Nat, NEW t \in Threads, NEW u \in Threads, t # u
  PROVE  Strided(S, t) \cap Strided(S, u) = {}
BY DEF Strided

\* The tiles of a thread hold the rows whose tile is in its share.
LEMMA TileRowsFacts ==
  ASSUME NEW k \in DOMAIN Products, NEW t \in Threads
  PROVE  /\ CeilDiv(Products[k].nr0, Tile) \in Nat
         /\ \A r \in 0 .. Products[k].nr0 - 1 : r \div Tile \in 0 .. CeilDiv(Products[k].nr0, Tile) - 1
         /\ \A r : r \in TileRows(Products[k], t) <=>
                   r \in 0 .. Products[k].nr0 - 1 /\ r \div Tile \in Share(CeilDiv(Products[k].nr0, Tile), t)
<1> DEFINE n == Products[k].nr0
           m == CeilDiv(n, Tile)
           a == Cut(m, t)
           b == Cut(m, t + 1)
<1>1. n \in Nat \ {0} /\ Tile \in Nat \ {0}
  BY ProductFacts, SizesAssumption
<1>2. m \in Nat /\ n <= Tile * m
  BY <1>1, CeilFacts
<1>3. a \in Nat /\ b \in Nat
  <2>1. t \in Nat /\ t + 1 \in Nat
    BY DEF Threads
  <2> QED BY <1>2, <2>1, CutFacts
<1>4. TileRows(Products[k], t) = Tile * a .. Smaller(Tile * b, n) - 1 /\ Share(m, t) = a .. b - 1
  BY DEF TileRows, Share
<1> HIDE DEF n, m, a, b
<1>5. ASSUME NEW r \in Nat PROVE (r < Tile * a <=> r \div Tile < a) /\ (r < Tile * b <=> r \div Tile < b) /\ r \div Tile \in Nat
  <2>1. r < Tile * a <=> r \div Tile < a
    BY <1>1, <1>3, QuotientBelow
  <2>2. r < Tile * b <=> r \div Tile < b
    BY <1>1, <1>3, QuotientBelow
  <2>3. r \div Tile \in Nat
    BY <1>1, DivFacts
  <2> QED BY <2>1, <2>2, <2>3
<1>6. Tile * a \in Nat /\ Tile * b \in Nat /\ Tile * m \in Nat
  BY <1>1, <1>2, <1>3
<1>7. ASSUME NEW r PROVE r \in TileRows(Products[k], t) <=> r \in 0 .. n - 1 /\ r \div Tile \in Share(m, t)
  <2>1. r \in TileRows(Products[k], t) => r \in Nat /\ r < Tile * b /\ r < n /\ ~(r < Tile * a)
    BY <1>1, <1>4, <1>6 DEF Smaller
  <2>2. r \in Nat /\ r < Tile * b /\ r < n /\ ~(r < Tile * a) => r \in TileRows(Products[k], t)
    BY <1>1, <1>4, <1>6 DEF Smaller
  <2>3. CASE r \in Nat
    <3>1. r \div Tile \in Share(m, t) <=> r \div Tile < b /\ ~(r \div Tile < a)
      <4> DEFINE y == r \div Tile
      <4>1. y \in Nat
        BY <1>5, <2>3
      <4> HIDE DEF y
      <4>2. y \in Share(m, t) <=> y < b /\ ~(y < a)
        BY <1>3, <1>4, <4>1
      <4> QED BY <4>2 DEF y
    <3>2. (r < Tile * a <=> r \div Tile < a) /\ (r < Tile * b <=> r \div Tile < b)
      BY <1>5, <2>3
    <3> QED BY <1>1, <2>1, <2>2, <2>3, <3>1, <3>2
  <2>4. CASE r \notin Nat
    BY <1>1, <2>1, <2>4
  <2> QED BY <2>3, <2>4
<1>8. ASSUME NEW r \in 0 .. n - 1 PROVE r \div Tile \in 0 .. m - 1
  <2>1. r \in Nat /\ r < Tile * m
    BY <1>1, <1>2, <1>6
  <2>2. r \div Tile < m
    BY <1>1, <1>2, <2>1, QuotientBelow
  <2> QED BY <1>2, <1>5, <2>1, <2>2
<1> QED BY <1>2, <1>7, <1>8 DEF n, m

\* If nothing is claimed, the threads have different outputs, and together all.
LEMMA OutputsFacts ==
  ASSUME NEW k \in DOMAIN Products, NEW w, Computes(Products[k], w),
         w # "direct", ~uses_dynamic_jobs(Products[k], w)
  PROVE  /\ \A t \in Threads : Outputs(Products[k], w, t) \subseteq Outs(k)
         /\ \A x \in Outs(k) : \E t \in Threads : x \in Outputs(Products[k], w, t)
         /\ \A t, u \in Threads : t # u => Outputs(Products[k], w, t) \cap Outputs(Products[k], w, u) = {}
<1> DEFINE p == Products[k]
           m == NCols(p)
           n == p.nr0
<1>1. n \in Nat \ {0} /\ m \in Nat \ {0}
  BY ProductFacts
<1>2. \A x : x \in Outs(k) <=> \E r \in 0 .. n - 1, c \in 0 .. m - 1 : x = Cell(p, r, c)
  BY DEF Outs, Cols
<1>3. \A x \in Outs(k) : x.row \in 0 .. n - 1 /\ x.col \in 0 .. m - 1 /\ x = Cell(p, x.row, x.col)
  BY CellFacts DEF Cols
<1>4. \A r, c : Cell(p, r, c).row = r /\ Cell(p, r, c).col = c
  BY DEF Cell
<1>5. CASE w \in {"wide", "scalar"}
  <2> DEFINE I(x) == n * x.col + x.row
  <2>1. n * m \in Nat
    BY <1>1
  <2>2. \A t : Outputs(p, w, t) = {Cell(p, i % n, i \div n) : i \in Share(n * m, t)}
    BY <1>5 DEF Outputs
  <2>3. ASSUME NEW i \in 0 .. n * m - 1
        PROVE  Cell(p, i % n, i \div n) \in Outs(k) /\ I(Cell(p, i % n, i \div n)) = i
    <3>1. i \in Nat /\ i < n * m
      BY <2>1
    <3>2. i \div n \in Nat /\ i % n \in 0 .. n - 1 /\ i = n * (i \div n) + (i % n)
      BY <1>1, <3>1, DivFacts
    <3>3. i \div n < m
      BY <1>1, <3>1, QuotientBelow
    <3> QED BY <1>1, <1>2, <1>4, <3>2, <3>3, SMTT(40)
  <2>4. ASSUME NEW x \in Outs(k) PROVE I(x) \in 0 .. n * m - 1 /\ x = Cell(p, I(x) % n, I(x) \div n)
    <3>1. x.row \in 0 .. n - 1 /\ x.col \in Nat /\ x.col + 1 <= m
      BY <1>1, <1>3
    <3>2. I(x) \div n = x.col /\ I(x) % n = x.row
      BY <1>1, <3>1, DivUnique
    <3>3. n * (x.col + 1) <= n * m /\ n * (x.col + 1) = n * x.col + n /\ n * x.col \in Nat
      BY <1>1, <3>1
    <3>4. x = Cell(p, I(x) % n, I(x) \div n)
      BY <1>3, <3>2
    <3>5. I(x) \in Nat /\ I(x) < n * x.col + n
      BY <1>1, <3>1, <3>3
    <3>6. I(x) < n * m
      <4> DEFINE y == I(x)
                 z == n * (x.col + 1)
      <4>1. y \in Nat /\ z \in Nat /\ y < z /\ z <= n * m
        BY <1>1, <3>1, <3>3, <3>5
      <4> HIDE DEF y, z
      <4>2. y < n * m
        BY <2>1, <4>1
      <4> QED BY <4>2 DEF y
    <3>7. I(x) \in 0 .. n * m - 1
      BY <2>1, <3>5, <3>6
    <3> QED BY <3>4, <3>7
  <2> HIDE DEF I, p, n, m
  <2>5. \A t \in Threads : \A x : x \in Outputs(p, w, t) <=> x \in Outs(k) /\ I(x) \in Share(n * m, t)
    <3>1. \A t \in Threads : Share(n * m, t) \subseteq 0 .. n * m - 1
      BY <2>1, SharesCover
    <3> QED BY <2>2, <2>3, <2>4, <3>1
  <2>6. \A x \in Outs(k) : \E t \in Threads : I(x) \in Share(n * m, t)
    BY <2>1, <2>4, SharesCover
  <2>7. \A t, u \in Threads : t # u => Share(n * m, t) \cap Share(n * m, u) = {}
    BY <2>1, SharesApart
  <2> QED BY <2>5, <2>6, <2>7 DEF p
<1>6. CASE w \in {"lut", "wide_lut"}
  <2> DEFINE tiles == CeilDiv(n, Tile)
  <2>1. \A t : Outputs(p, w, t) = {Cell(p, r, c) : r \in TileRows(p, t), c \in 0 .. m - 1}
    BY <1>6 DEF Outputs, Cols
  <2>2. /\ tiles \in Nat
        /\ \A r \in 0 .. n - 1 : r \div Tile \in 0 .. tiles - 1
        /\ \A t \in Threads : \A r : r \in TileRows(p, t) <=> r \in 0 .. n - 1 /\ r \div Tile \in Share(tiles, t)
    <3>1. 0 \in Threads
      BY ThreadsAssumption DEF Threads
    <3> QED BY <3>1, TileRowsFacts
  <2> HIDE DEF tiles, p, n, m
  <2>3. \A t \in Threads : \A x : x \in Outputs(p, w, t) <=> x \in Outs(k) /\ x.row \div Tile \in Share(tiles, t)
    BY <1>2, <1>3, <1>4, <2>1, <2>2
  <2>4. \A x \in Outs(k) : \E t \in Threads : x.row \div Tile \in Share(tiles, t)
    BY <1>3, <2>2, SharesCover
  <2>5. \A t, u \in Threads : t # u => Share(tiles, t) \cap Share(tiles, u) = {}
    BY <2>2, SharesApart
  <2> QED BY <2>3, <2>4, <2>5 DEF p
<1>7. CASE w \in {"dotprod", "pairs"}
  <2> DEFINE S == 0 .. Jobs(p, w) - 1
  <2>1. p.op \in Row4
    BY <1>7 DEF Computes, Row4, RowWays
  <2>2. \A t : Outputs(p, w, t) = UNION {Job(p, w, j) : j \in Strided(S, t)}
    BY <1>7 DEF Outputs
  <2>3. /\ \A x \in Outs(k) : JobOf(p, w, x) \in S
        /\ \A j \in S : Job(p, w, j) = {x \in Outs(k) : JobOf(p, w, x) = j}
    BY <1>7, <2>1, JobFacts
  <2>4. S \in SUBSET Nat
    <3>1. Jobs(p, w) \in Nat
      <4>1. p.nr0 \div JobSize(w) \in Nat
        BY <2>1, GroupFacts
      <4>2. CeilDiv(m, 2) \in Nat
        BY <1>1 DEF CeilDiv
      <4> QED BY <1>1, <1>7, <4>1, <4>2 DEF Jobs, JobSize
    <3> QED BY <3>1
  <2> HIDE DEF S, p
  <2>5. \A t \in Threads : Strided(S, t) \subseteq S
    BY DEF Strided
  <2>6. \A t \in Threads : \A x : x \in Outputs(p, w, t) <=> x \in Outs(k) /\ JobOf(p, w, x) \in Strided(S, t)
    BY <2>2, <2>3, <2>5
  <2>7. \A x \in Outs(k) : \E t \in Threads : JobOf(p, w, x) \in Strided(S, t)
    BY <2>3, <2>4, StridesCover
  <2>8. \A t, u \in Threads : t # u => Strided(S, t) \cap Strided(S, u) = {}
    BY <2>4, StridesApart
  <2> QED BY <2>6, <2>7, <2>8 DEF p
<1>8. w # "panel"
  BY DEF uses_dynamic_jobs
<1> QED BY <1>5, <1>6, <1>7, <1>8 DEF Computes, RowWays
-----------------------------------------------------------------------------
(***************************************************************************)
(* Types.  A thread that works on a product, or waits to go on with it,    *)
(* is at a node of the graph and has chosen a way for that kind of         *)
(* product; what it writes into the work buffer and the outputs is then    *)
(* within the bounds of the product.                                       *)
(***************************************************************************)
\* What the invariant adds to TypeOK.
HasChosen(t) == node[t] \in DOMAIN Products /\ Computes(P(t), way[t])
Placed ==
  \A t \in Threads :
    /\ pc[t] \in {"quantise", "tables", "counter", "multiply"} => HasChosen(t)
    /\ pc[t] = "wait" /\ next[t] \in {"tables", "multiply"} => HasChosen(t)
Control ==
  /\ pc \in [Threads -> {"node", "quantise", "tables", "counter", "multiply", "wait", "done"}]
  /\ next \in [Threads -> {"node", "tables", "multiply", "done"}]
  /\ node \in [Threads -> 1 .. Len(Products) + 1]
  /\ way \in [Threads -> Ways]
  /\ Placed
Counters == mine \in [Threads -> Nat] /\ {current_chunk, next_job} \subseteq Nat
Buffers  == {quantised, tables, scales} \subseteq [Inputs -> Tags]
Within   ==
  /\ DOMAIN out = DOMAIN Products
  /\ \A k \in DOMAIN Products : DOMAIN out[k] \subseteq Outs(k)
MulTypes == Control /\ Counters /\ packed \in [DOMAIN Products -> BOOLEAN] /\ Buffers /\ Within

\* The nodes are numbered from 1.
LEMMA NodeNumbers == Len(Products) \in Nat /\ DOMAIN Products = 1 .. Len(Products)
BY ProductsAssumption

\* What the barrier does to the threads: the last to arrive releases the others.
Released(t, l) ==
  /\ \A u \in Threads \ {t} : pc[u] = "wait"
  /\ pc'[t] = l
  /\ \A u \in Threads \ {t} : pc'[u] = next[u]
  /\ next' = next
Waits(t, l) ==
  /\ \E u \in Threads \ {t} : pc[u] # "wait"
  /\ pc'[t] = "wait" /\ next'[t] = l
  /\ \A u \in Threads \ {t} : pc'[u] = pc[u] /\ next'[u] = next[u]
LEMMA BarrierFacts ==
  ASSUME Control, NEW t \in Threads, NEW l \in {"node", "tables", "multiply", "done"}, Barrier(t, l)
  PROVE  /\ pc' \in [Threads -> {"node", "quantise", "tables", "counter", "multiply", "wait", "done"}]
         /\ next' \in [Threads -> {"node", "tables", "multiply", "done"}]
         /\ Released(t, l) \/ Waits(t, l)
<1>1. pc \in [Threads -> {"node", "quantise", "tables", "counter", "multiply", "wait", "done"}]
      /\ next \in [Threads -> {"node", "tables", "multiply", "done"}]
  BY DEF Control
<1>2. CASE \A u \in Threads \ {t} : pc[u] = "wait"
  <2>1. pc' = [[u \in Threads |-> next[u]] EXCEPT ![t] = l] /\ next' = next
    BY <1>2 DEF Barrier
  <2>2. pc' \in [Threads -> {"node", "quantise", "tables", "counter", "multiply", "wait", "done"}]
    BY <1>1, <2>1
  <2>3. Released(t, l)
    BY <1>1, <1>2, <2>1 DEF Released
  <2> QED BY <1>1, <2>1, <2>2, <2>3
<1>3. CASE ~(\A u \in Threads \ {t} : pc[u] = "wait")
  <2>1. pc' = [pc EXCEPT ![t] = "wait"] /\ next' = [next EXCEPT ![t] = l]
    BY <1>3 DEF Barrier
  <2>2. pc' \in [Threads -> {"node", "quantise", "tables", "counter", "multiply", "wait", "done"}]
        /\ next' \in [Threads -> {"node", "tables", "multiply", "done"}]
    BY <1>1, <2>1
  <2>3. Waits(t, l)
    BY <1>1, <1>3, <2>1 DEF Waits
  <2> QED BY <2>2, <2>3
<1> QED BY <1>2, <1>3

\* A thread stays in its product when it arrives at a barrier in the middle of it, ...
LEMMA StayTypes ==
  ASSUME Control, NEW t \in Threads, HasChosen(t), UNCHANGED <<node, way>>,
         NEW l \in {"tables", "counter", "multiply"},
         Goto(t, l) \/ (l # "counter" /\ Barrier(t, l))
  PROVE  Control'
<1>1. /\ pc \in [Threads -> {"node", "quantise", "tables", "counter", "multiply", "wait", "done"}]
      /\ next \in [Threads -> {"node", "tables", "multiply", "done"}]
      /\ node \in [Threads -> 1 .. Len(Products) + 1] /\ way \in [Threads -> Ways] /\ Placed
  BY DEF Control
<1>2. HasChosen(t)' /\ \A u \in Threads : HasChosen(u) => HasChosen(u)'
  BY DEF HasChosen, P
<1>3. CASE Goto(t, l)
  <2>1. pc' = [pc EXCEPT ![t] = l] /\ next' = next
    BY <1>3 DEF Goto
  <2>2. Placed'
    BY <1>1, <1>2, <2>1 DEF Placed
  <2> QED BY <1>1, <2>1, <2>2 DEF Control
<1>4. CASE l # "counter" /\ Barrier(t, l)
  <2>1. /\ pc' \in [Threads -> {"node", "quantise", "tables", "counter", "multiply", "wait", "done"}]
        /\ next' \in [Threads -> {"node", "tables", "multiply", "done"}]
        /\ Released(t, l) \/ Waits(t, l)
    BY <1>4, BarrierFacts
  <2>2. Placed'
    BY <1>1, <1>2, <2>1 DEF Placed, Released, Waits
  <2> QED BY <1>1, <2>1, <2>2 DEF Control
<1> QED BY <1>3, <1>4

\* ... and leaves it when the product is done.
LEMMA LeaveTypes ==
  ASSUME Control, NEW t \in Threads, HasChosen(t), EndNode(t), way' = way
  PROVE  Control'
<1>1. /\ pc \in [Threads -> {"node", "quantise", "tables", "counter", "multiply", "wait", "done"}]
      /\ next \in [Threads -> {"node", "tables", "multiply", "done"}]
      /\ node \in [Threads -> 1 .. Len(Products) + 1] /\ way \in [Threads -> Ways] /\ Placed
  BY DEF Control
<1> DEFINE l == IF node[t] = Len(Products) THEN "done" ELSE "node"
<1>2. Barrier(t, l) /\ node' = [node EXCEPT ![t] = @ + 1]
  BY DEF EndNode
<1>3. l \in {"node", "done"}
  OBVIOUS
<1> HIDE DEF l
<1>4. node' \in [Threads -> 1 .. Len(Products) + 1] /\ \A u \in Threads \ {t} : node'[u] = node[u]
  BY <1>1, <1>2, NodeNumbers DEF HasChosen
<1>5. /\ pc' \in [Threads -> {"node", "quantise", "tables", "counter", "multiply", "wait", "done"}]
      /\ next' \in [Threads -> {"node", "tables", "multiply", "done"}]
      /\ Released(t, l) \/ Waits(t, l)
  BY <1>2, <1>3, BarrierFacts
<1>6. \A u \in Threads \ {t} : HasChosen(u) => HasChosen(u)'
  BY <1>4 DEF HasChosen, P
<1>7. Placed'
  BY <1>1, <1>3, <1>5, <1>6 DEF Placed, Released, Waits
<1> QED BY <1>1, <1>4, <1>5, <1>7 DEF Control

\* The tag of a thread's product is one.
LEMMA TagTypes ==
  ASSUME Control, NEW t \in Threads, HasChosen(t)
  PROVE  Tag(t) \in Tags
BY NodeNumbers DEF Control, HasChosen, Tag, Tags

\* The way of a thread is one for its kind of product.
LEMMA WayTypes ==
  ASSUME MulTypes, NEW t \in Threads, node[t] \in DOMAIN Products
  PROVE  Way(t) \in Ways \ {"none"} /\ Computes(P(t), Way(t))
<1> DEFINE p == P(t)
<1>1. p.op \in {"mul_mat", "wide"} \cup Row4
  BY ProductFacts DEF P, ProductType
<1> HIDE DEF p
<1>2. CASE p.op = "mul_mat"
  BY <1>2 DEF Way, Computes, Ways, Row4, RowWays, p
<1>3. CASE p.op = "wide"
  BY <1>3 DEF Way, Computes, Ways, p
<1>4. CASE p.op \in Row4
  BY <1>4 DEF Way, Computes, Ways, RowWays, Row4, p
<1> QED BY <1>1, <1>2, <1>3, <1>4

\* Outputs of a product that are added to the bag are outputs of the product.
LEMMA AddWithin ==
  ASSUME Within, NEW k \in DOMAIN Products, NEW S \in SUBSET Outs(k),
         out' = [out EXCEPT ![k] = @ (+) SetToBag(S)]
  PROVE  Within'
<1>1. out'[k] = out[k] (+) SetToBag(S) /\ DOMAIN out' = DOMAIN Products
      /\ \A j \in DOMAIN Products \ {k} : out'[j] = out[j]
  BY DEF Within
<1>2. DOMAIN SetToBag(S) = S
  BY DEF SetToBag
<1>3. DOMAIN (out[k] (+) SetToBag(S)) = DOMAIN out[k] \cup S
  BY <1>2 DEF (+)
<1> QED BY <1>1, <1>3 DEF Within, Outs


\* A thread chooses a way for its kind of product.
LEMMA BeginTypes ==
  ASSUME MulTypes, NEW t \in Threads, Begin(t)
  PROVE  MulTypes'
<1>1. /\ pc \in [Threads -> {"node", "quantise", "tables", "counter", "multiply", "wait", "done"}]
      /\ next \in [Threads -> {"node", "tables", "multiply", "done"}]
      /\ node \in [Threads -> 1 .. Len(Products) + 1] /\ way \in [Threads -> Ways] /\ Placed
  BY DEF MulTypes, Control
<1>2. node[t] \in DOMAIN Products
  BY <1>1, NodeNumbers DEF Begin
<1>3. PICK l \in {"quantise", "tables", "counter"} :
        pc' = [pc EXCEPT ![t] = l] /\ next' = next
  BY DEF Begin, Goto
<1>4. Way(t) \in Ways /\ Computes(P(t), Way(t))
  BY <1>2, WayTypes
<1>5. way' = [way EXCEPT ![t] = Way(t)] /\ node' = node
  BY DEF Begin
<1> HIDE DEF Way
<1>6. HasChosen(t)' /\ \A u \in Threads \ {t} : HasChosen(u) => HasChosen(u)'
  BY <1>1, <1>2, <1>4, <1>5 DEF HasChosen, P
<1>7. Placed'
  BY <1>1, <1>3, <1>6 DEF Placed
<1>8. Control'
  BY <1>1, <1>3, <1>4, <1>5, <1>7 DEF Control
<1>9. UNCHANGED <<jobVars, packed, bufferVars, out>>
  BY DEF Begin
<1> QED BY <1>8, <1>9 DEF MulTypes, Counters, Buffers, Within, Outs, jobVars, bufferVars

\* A thread that quantises, and where it goes from there.
Quantises(t, l) ==
  /\ quantised' = Put(quantised, QuantiseShare(P(t), way[t], t), LAMBDA u : Tag(t))
  /\ Goto(t, l) \/ (l # "counter" /\ Barrier(t, l))
  /\ UNCHANGED <<node, way, packed, out>>
  /\ UNCHANGED <<mine, current_chunk>> /\ next_job' \in {next_job, 0}
LEMMA QuantisesTypes ==
  ASSUME MulTypes, NEW t \in Threads, pc[t] = "quantise", NEW l \in {"tables", "counter", "multiply"},
         Quantises(t, l), {tables', scales'} \subseteq [Inputs -> Tags]
  PROVE  MulTypes'
<1>1. Control /\ HasChosen(t)
  BY DEF MulTypes, Control, Placed
<1>2. Tag(t) \in Tags
  BY <1>1, TagTypes
<1>3. Control'
  BY <1>1, StayTypes DEF Quantises
<1>4. quantised' \in [Inputs -> Tags]
  BY <1>2 DEF Quantises, Put, MulTypes, Buffers
<1>5. UNCHANGED <<packed, out, mine, current_chunk>> /\ next_job' \in {next_job, 0}
  BY DEF Quantises
<1> QED BY <1>3, <1>4, <1>5 DEF MulTypes, Counters, Buffers, Within, Outs

\* The five ways to quantise.
LEMMA QuantiseCases ==
  ASSUME NEW t \in Threads,
         QuantiseLut(t) \/ QuantiseDirect(t) \/ QuantiseWide(t) \/ QuantiseWideLut(t) \/ QuantiseRow4(t)
  PROVE  /\ pc[t] = "quantise"
         /\ \E l \in {"tables", "counter", "multiply"} : Quantises(t, l)
<1>1. CASE QuantiseLut(t)
  <2>1. Quantises(t, "tables")
    BY <1>1 DEF QuantiseLut, Quantises, jobVars
  <2> QED BY <1>1, <2>1 DEF QuantiseLut
<1>2. CASE QuantiseDirect(t)
  <2>1. Quantises(t, "counter")
    BY <1>2 DEF QuantiseDirect, Quantises, jobVars
  <2> QED BY <1>2, <2>1 DEF QuantiseDirect
<1>3. CASE QuantiseWide(t)
  <2>1. Quantises(t, "multiply")
    BY <1>3 DEF QuantiseWide, Quantises, jobVars
  <2> QED BY <1>3, <2>1 DEF QuantiseWide
<1>4. CASE QuantiseWideLut(t)
  <2>1. Quantises(t, "multiply")
    BY <1>4 DEF QuantiseWideLut, Quantises, jobVars
  <2> QED BY <1>4, <2>1 DEF QuantiseWideLut
<1>5. CASE QuantiseRow4(t)
  <2>1. Quantises(t, "multiply")
    BY <1>5 DEF QuantiseRow4, Quantises
  <2> QED BY <1>5, <2>1 DEF QuantiseRow4
<1> QED BY <1>1, <1>2, <1>3, <1>4, <1>5

\* Whatever it quantises, the buffer holds tags of products.
LEMMA QuantiseTypes ==
  ASSUME MulTypes, NEW t \in Threads,
         QuantiseLut(t) \/ QuantiseDirect(t) \/ QuantiseWide(t) \/ QuantiseWideLut(t) \/ QuantiseRow4(t)
  PROVE  MulTypes'
<1>1. PICK l \in {"tables", "counter", "multiply"} : Quantises(t, l)
  BY QuantiseCases
<1>2. pc[t] = "quantise"
  BY QuantiseCases
<1>3. {quantised, tables, scales} \subseteq [Inputs -> Tags]
  BY DEF MulTypes, Buffers
<1>4. CASE UNCHANGED <<tables, scales>>
  BY <1>1, <1>2, <1>3, <1>4, QuantisesTypes
<1>5. CASE QuantiseWideLut(t)
  <2>1. Tag(t) \in Tags
    BY <1>2, TagTypes DEF MulTypes, Control, Placed
  <2>2. quantised' \in [Inputs -> Tags]
    BY <1>1, <1>3, <2>1 DEF Quantises, Put
  <2>3. tables' \in [Inputs -> Tags] /\ scales' \in [Inputs -> Tags]
    BY <1>3, <1>5, <2>2 DEF QuantiseWideLut, Put
  <2> QED BY <1>1, <1>2, <2>3, QuantisesTypes
<1> QED BY <1>4, <1>5 DEF QuantiseLut, QuantiseDirect, QuantiseWide, QuantiseRow4

\* And so do the tables and the scales.
LEMMA TablesTypes ==
  ASSUME MulTypes, NEW t \in Threads, Tables(t)
  PROVE  MulTypes'
<1>1. Control /\ HasChosen(t)
  BY DEF MulTypes, Control, Placed, Tables
<1>2. Tag(t) \in Tags
  BY <1>1, TagTypes
<1>3. Control'
  BY <1>1, StayTypes DEF Tables
<1>4. tables' \in [Inputs -> Tags] /\ scales' \in [Inputs -> Tags]
  <2>1. {quantised, tables, scales} \subseteq [Inputs -> Tags]
    BY DEF MulTypes, Buffers
  <2>2. \A u \in Inputs : (IF P(t).f32 THEN quantised[u] ELSE Tag(t)) \in Tags
    BY <1>2, <2>1
  <2>3. tables' = Put(tables, TableShare(P(t), t), LAMBDA u : IF P(t).f32 THEN quantised[u] ELSE Tag(t))
        /\ scales' = Put(scales, ScaleShare(P(t), way[t], t), LAMBDA u : IF P(t).f32 THEN quantised[u] ELSE Tag(t))
    BY DEF Tables, Put
  <2> QED BY <2>1, <2>2, <2>3 DEF Put
<1>5. UNCHANGED <<packed, out, jobVars, quantised>>
  BY DEF Tables
<1> QED BY <1>3, <1>4, <1>5 DEF MulTypes, Counters, Buffers, Within, Outs, jobVars

\* The counter and the chunks are numbers.
LEMMA CounterTypes ==
  ASSUME MulTypes, NEW t \in Threads, Counter(t)
  PROVE  MulTypes'
<1>1. Control /\ HasChosen(t)
  BY DEF MulTypes, Control, Placed, Counter
<1>2. Control'
  BY <1>1, StayTypes DEF Counter
<1>3. mine' \in [Threads -> Nat] /\ current_chunk' \in Nat /\ next_job' = next_job
  BY ThreadsAssumption DEF Counter, FirstFree, Threads, MulTypes, Counters
<1>4. UNCHANGED <<packed, out, bufferVars>>
  BY DEF Counter
<1> QED BY <1>2, <1>3, <1>4 DEF MulTypes, Counters, Buffers, Within, Outs, bufferVars

\* A share of the outputs is within the product, ...
LEMMA MultiplyTypes ==
  ASSUME MulTypes, NEW t \in Threads, Multiply(t)
  PROVE  MulTypes'
<1>1. Control /\ HasChosen(t) /\ node[t] \in DOMAIN Products
  BY DEF MulTypes, Control, Placed, Multiply, HasChosen
<1>2. Control'
  BY <1>1, LeaveTypes DEF Multiply
<1>3. Outputs(P(t), way[t], t) \in SUBSET Outs(node[t])
  BY <1>1, OutputsFacts DEF Multiply, HasChosen, P
<1>4. Within'
  BY <1>1, <1>3, AddWithin DEF Multiply, MulTypes
<1>5. UNCHANGED <<packed, jobVars, bufferVars>>
  BY DEF Multiply
<1> QED BY <1>2, <1>4, <1>5 DEF MulTypes, Counters, Buffers, bufferVars, jobVars

\* ... and so is a chunk, ...
LEMMA MultiplyChunkTypes ==
  ASSUME MulTypes, NEW t \in Threads, MultiplyChunk(t)
  PROVE  MulTypes'
<1>1. Control /\ HasChosen(t) /\ node[t] \in DOMAIN Products
  BY DEF MulTypes, Control, Placed, MultiplyChunk, HasChosen
<1>2. Control'
  <2>1. CASE EndNode(t)
    BY <1>1, <2>1, LeaveTypes DEF MultiplyChunk
  <2>2. CASE UNCHANGED <<pc, next, node>>
    BY <1>1, <2>2 DEF MultiplyChunk, Control, Placed, HasChosen, P
  <2> QED BY <2>1, <2>2 DEF MultiplyChunk
<1>3. Chunk(P(t), mine[t]) \in SUBSET Outs(node[t])
  <2>1. mine[t] \in 0 .. Total(P(t)) - 1
    BY <1>1, ChunkFacts DEF MultiplyChunk, MulTypes, Counters, P
  <2> QED BY <1>1, <2>1, ChunkFacts DEF P
<1>4. Within'
  BY <1>1, <1>3, AddWithin DEF MultiplyChunk, MulTypes
<1>5. Counters'
  BY DEF MultiplyChunk, MulTypes, Counters
<1>6. UNCHANGED <<packed, bufferVars>>
  BY DEF MultiplyChunk
<1> QED BY <1>2, <1>4, <1>5, <1>6 DEF MulTypes, Buffers, bufferVars

\* ... nothing is added when there is none left, ...
LEMMA NoChunkLeftTypes ==
  ASSUME MulTypes, NEW t \in Threads, NoChunkLeft(t)
  PROVE  MulTypes'
<1>1. Control /\ HasChosen(t)
  BY DEF MulTypes, Control, Placed, NoChunkLeft
<1>2. Control'
  BY <1>1, LeaveTypes DEF NoChunkLeft
<1>3. UNCHANGED <<packed, jobVars, bufferVars, out>>
  BY DEF NoChunkLeft
<1> QED BY <1>2, <1>3 DEF MulTypes, Counters, Buffers, Within, Outs, jobVars, bufferVars

\* ... and a job is within it.
LEMMA MultiplyJobTypes ==
  ASSUME MulTypes, NEW t \in Threads, MultiplyJob(t)
  PROVE  MulTypes'
<1>1. Control /\ HasChosen(t) /\ node[t] \in DOMAIN Products
  BY DEF MulTypes, Control, Placed, MultiplyJob, HasChosen
<1>2. Control'
  <2>1. CASE EndNode(t)
    BY <1>1, <2>1, LeaveTypes DEF MultiplyJob
  <2>2. CASE UNCHANGED <<pc, next, node>>
    BY <1>1, <2>2 DEF MultiplyJob, Control, Placed, HasChosen, P
  <2> QED BY <2>1, <2>2 DEF MultiplyJob
<1>3. Within'
  <2>1. CASE next_job < Jobs(P(t), way[t])
    <3>1. P(t).op \in Row4 /\ way[t] \in {"dotprod", "pairs", "panel"}
      BY <1>1 DEF MultiplyJob, HasChosen, Computes, uses_dynamic_jobs, RowWays
    <3>2. Jobs(P(t), way[t]) \in Int
      <4>1. P(t).nr0 \div JobSize(way[t]) \in Nat /\ NCols(P(t)) \in Nat
        BY <1>1, <3>1, GroupFacts, ProductFacts DEF P
      <4>2. CeilDiv(NCols(P(t)), 2) \in Int
        BY <4>1 DEF CeilDiv
      <4> QED BY <3>1, <4>1, <4>2 DEF Jobs, JobSize
    <3>3. next_job \in 0 .. Jobs(P(t), way[t]) - 1
      BY <2>1, <3>2 DEF MulTypes, Counters
    <3>4. Job(P(t), way[t], next_job) \in SUBSET Outs(node[t])
      BY <1>1, <3>1, <3>3, JobFacts DEF P
    <3> QED BY <1>1, <2>1, <3>4, AddWithin DEF MultiplyJob, MulTypes
  <2>2. CASE ~(next_job < Jobs(P(t), way[t]))
    BY <2>2 DEF MultiplyJob, MulTypes, Within, Outs
  <2> QED BY <2>1, <2>2
<1>4. Counters'
  BY DEF MultiplyJob, MulTypes, Counters
<1>5. UNCHANGED <<packed, bufferVars>>
  BY DEF MultiplyJob
<1> QED BY <1>2, <1>3, <1>4, <1>5 DEF MulTypes, Buffers, bufferVars

\* Another context changes what is packed only.
LEMMA PublishTypes ==
  ASSUME MulTypes, NEW k \in DOMAIN Products, Publish(k)
  PROVE  MulTypes'
<1>1. UNCHANGED <<threadVars, jobVars, bufferVars, out>>
  BY DEF Publish
<1>2. packed' \in [DOMAIN Products -> BOOLEAN]
  BY DEF Publish, MulTypes
<1>3. Control'
  BY <1>1 DEF MulTypes, Control, Placed, HasChosen, P, threadVars
<1> QED BY <1>1, <1>2, <1>3 DEF MulTypes, Counters, Buffers, Within, Outs, jobVars, bufferVars

\* A step that changes nothing keeps the types.
LEMMA StutterTypes ==
  ASSUME MulTypes, UNCHANGED vars
  PROVE  MulTypes'
<1>1. UNCHANGED <<pc, next, node, way, mine, current_chunk, next_job, packed, quantised, tables, scales, out>>
  BY DEF vars, threadVars, jobVars, bufferVars
<1>2. Control'
  BY <1>1 DEF MulTypes, Control, Placed, HasChosen, P
<1> QED BY <1>1, <1>2 DEF MulTypes, Counters, Buffers, Within, Outs

\* At the start no thread works on a product.
LEMMA InitTypes == Init => MulTypes
<1> SUFFICES ASSUME Init PROVE MulTypes
  OBVIOUS
<1>1. Control
  BY NodeNumbers DEF Init, Control, Placed, Ways, Threads
<1>2. Counters
  BY DEF Init, Counters
<1>3. None \in Tags
  BY NodeNumbers DEF None, Tags, Ways
<1>4. Buffers
  BY <1>3 DEF Init, Buffers
<1>5. Within
  <2>1. DOMAIN EmptyBag = {}
    BY DEF EmptyBag, SetToBag
  <2> QED BY <2>1 DEF Init, Within
<1>6. packed \in [DOMAIN Products -> BOOLEAN]
  BY DEF Init
<1> QED BY <1>1, <1>2, <1>4, <1>5, <1>6 DEF MulTypes

\* Every step keeps the types.
LEMMA NextTypes ==
  ASSUME MulTypes, [Next]_vars
  PROVE  MulTypes'
<1>1. ASSUME NEW t \in Threads, Thread(t) PROVE MulTypes'
  BY <1>1, BeginTypes, QuantiseTypes, TablesTypes, CounterTypes, MultiplyTypes, MultiplyChunkTypes,
     NoChunkLeftTypes, MultiplyJobTypes DEF Thread
<1>2. ASSUME NEW k \in DOMAIN Products, Publish(k) PROVE MulTypes'
  BY <1>2, PublishTypes
<1>3. CASE UNCHANGED vars
  BY <1>3, StutterTypes
<1> QED BY <1>1, <1>2, <1>3 DEF Next, Done

\* The strengthened type invariant has the invariant that TLC checks.
LEMMA TypesEnough == MulTypes => TypeOK
<1> SUFFICES ASSUME MulTypes PROVE TypeOK
  OBVIOUS
<1>1. \A k \in DOMAIN Products : \A c \in BagToSet(out[k]) :
         c.row \in 0 .. Products[k].nr0 - 1 /\ c.col \in Cols(Products[k])
  <2>1. \A k \in DOMAIN Products : \A c \in BagToSet(out[k]) : c \in Outs(k)
    BY DEF MulTypes, Within, BagToSet
  <2> QED BY <2>1, CellFacts
<1> QED BY <1>1 DEF MulTypes, Control, Counters, Buffers, Within, TypeOK

\* All variables keep their types, and whatever the threads do, in whatever way, they
\* compute outputs of the product only, for any graph and any number of threads.
THEOREM ProductTypes == Spec => []TypeOK
<1>1. Init => MulTypes
  BY InitTypes
<1>2. MulTypes /\ [Next]_vars => MulTypes'
  BY NextTypes
<1>3. MulTypes => TypeOK
  BY TypesEnough
<1> QED BY <1>1, <1>2, <1>3, PTL DEF Spec
-----------------------------------------------------------------------------
(***************************************************************************)
(* The decision for the LUT, also when another context packs the weights   *)
(* of a product that is being computed: each thread that works on a        *)
(* product has the way of weights without a pack, or they have one by now  *)
(* and it has the way of weights with one.                                 *)
(***************************************************************************)
WayWith(p, has) ==
  CASE p.op = "mul_mat" -> IF has /\ (p.f32 \/ p.wild = {}) THEN "lut" ELSE "direct"
    [] p.op = "wide"    -> IF has THEN "wide_lut" ELSE "wide"
    [] p.op \in Row4    -> IF p.op = "i8mm" THEN IF uses_panel(p) THEN "panel" ELSE "pairs" ELSE p.op

\* Thread t is in the middle of a product.
Busy(t) == \/ pc[t] \in {"quantise", "tables", "counter", "multiply"}
           \/ pc[t] = "wait" /\ next[t] \in {"tables", "multiply"}

Decided ==
  \A t \in Threads : Busy(t) =>
    \/ way[t] = WayWith(P(t), FALSE)
    \/ packed[node[t]] /\ way[t] = WayWith(P(t), TRUE)

\* A step in which nobody decides: who is busy afterwards was busy before.
LEMMA Undecided ==
  ASSUME MulTypes, Decided, UNCHANGED <<way, packed>>,
         \A t \in Threads : Busy(t)' => Busy(t) /\ node'[t] = node[t]
  PROVE  Decided'
BY DEF Decided, P

\* A thread that goes on in the middle of its product, or leaves it, decides nothing.
LEMMA GoesOn ==
  ASSUME MulTypes, Decided, UNCHANGED <<way, packed>>, NEW t \in Threads, Busy(t),
         NEW l \in {"tables", "counter", "multiply"},
         \/ UNCHANGED node /\ (Goto(t, l) \/ (l # "counter" /\ Barrier(t, l)))
         \/ UNCHANGED <<pc, next, node>>
         \/ EndNode(t)
  PROVE  Decided'
<1>1. /\ pc \in [Threads -> {"node", "quantise", "tables", "counter", "multiply", "wait", "done"}]
      /\ next \in [Threads -> {"node", "tables", "multiply", "done"}]
      /\ node \in [Threads -> 1 .. Len(Products) + 1]
      /\ Control
  BY DEF MulTypes, Control
<1>2. CASE UNCHANGED node /\ Goto(t, l)
  BY <1>1, <1>2, Undecided DEF Busy, Goto
<1>3. CASE UNCHANGED node /\ l # "counter" /\ Barrier(t, l)
  <2>1. Released(t, l) \/ Waits(t, l)
    BY <1>1, <1>3, BarrierFacts
  <2> QED BY <1>1, <1>3, <2>1, Undecided DEF Busy, Released, Waits
<1>4. CASE UNCHANGED <<pc, next, node>>
  BY <1>4, Undecided DEF Busy
<1>5. CASE EndNode(t)
  <2> DEFINE e == IF node[t] = Len(Products) THEN "done" ELSE "node"
  <2>1. Barrier(t, e) /\ node' = [node EXCEPT ![t] = @ + 1]
    BY <1>5 DEF EndNode
  <2>2. e \in {"node", "done"}
    OBVIOUS
  <2> HIDE DEF e
  <2>3. Released(t, e) \/ Waits(t, e)
    BY <1>1, <2>1, <2>2, BarrierFacts
  <2> QED BY <1>1, <2>1, <2>2, <2>3, Undecided DEF Busy, Released, Waits
<1> QED BY <1>2, <1>3, <1>4, <1>5

\* A thread decides by the pack the weights have at that moment.
LEMMA BeginDecided ==
  ASSUME MulTypes, Decided, NEW t \in Threads, Begin(t)
  PROVE  Decided'
<1>1. /\ node \in [Threads -> 1 .. Len(Products) + 1] /\ way \in [Threads -> Ways]
      /\ pc \in [Threads -> {"node", "quantise", "tables", "counter", "multiply", "wait", "done"}]
      /\ packed \in [DOMAIN Products -> BOOLEAN]
  BY DEF MulTypes, Control
<1>2. node[t] \in DOMAIN Products
  BY <1>1, NodeNumbers DEF Begin
<1>3. /\ way' = [way EXCEPT ![t] = Way(t)] /\ UNCHANGED <<node, packed>>
      /\ \E l \in {"quantise", "tables", "counter"} : pc' = [pc EXCEPT ![t] = l] /\ next' = next
  BY DEF Begin, Goto
<1>4. Way(t) = WayWith(P(t), packed[node[t]])
  BY DEF Way, WayWith, Wild
<1>5. packed[node[t]] \in BOOLEAN
  BY <1>1, <1>2
<1> HIDE DEF Way
<1>6. ASSUME NEW u \in Threads, u # t, Busy(u)'
      PROVE  Busy(u) /\ way'[u] = way[u] /\ P(u)' = P(u) /\ packed'[node'[u]] = packed[node[u]]
  BY <1>1, <1>3, <1>6 DEF Busy, P
<1>7. way'[t] = WayWith(P(t), packed[node[t]]) /\ P(t)' = P(t) /\ packed'[node'[t]] = packed[node[t]]
  BY <1>1, <1>3, <1>4 DEF P
<1> QED BY <1>5, <1>6, <1>7 DEF Decided

\* A pack that appears leaves the decisions as they are.
LEMMA PublishDecided ==
  ASSUME MulTypes, Decided, NEW k \in DOMAIN Products, Publish(k)
  PROVE  Decided'
<1>1. UNCHANGED <<pc, next, node, way>> /\ packed' = [packed EXCEPT ![k] = TRUE]
  BY DEF Publish, threadVars
<1>2. \A j \in DOMAIN Products : packed[j] => packed'[j]
  BY <1>1 DEF MulTypes
<1>3. \A t \in Threads : Busy(t) => node[t] \in DOMAIN Products
  BY DEF MulTypes, Control, Placed, Busy, HasChosen
<1> QED BY <1>1, <1>2, <1>3 DEF Decided, Busy, P

\* Every step keeps the decisions.
LEMMA DecidedStep ==
  ASSUME MulTypes, Decided, [Next]_vars
  PROVE  Decided'
<1>1. ASSUME NEW t \in Threads, Thread(t) PROVE Decided'
  <2>1. CASE Begin(t)
    BY <2>1, BeginDecided
  <2>2. CASE QuantiseLut(t) \/ QuantiseDirect(t) \/ QuantiseWide(t) \/ QuantiseWideLut(t) \/ QuantiseRow4(t)
    <3>1. pc[t] = "quantise"
      BY <2>2, QuantiseCases
    <3>2. PICK l \in {"tables", "counter", "multiply"} : Quantises(t, l)
      BY <2>2, QuantiseCases
    <3> QED BY <3>1, <3>2, GoesOn DEF Quantises, Busy
  <2>3. CASE Tables(t)
    BY <2>3, GoesOn DEF Tables, Busy
  <2>4. CASE Counter(t)
    BY <2>4, GoesOn DEF Counter, Busy
  <2>5. CASE Multiply(t)
    BY <2>5, GoesOn DEF Multiply, Busy
  <2>6. CASE MultiplyChunk(t)
    BY <2>6, GoesOn DEF MultiplyChunk, Busy
  <2>7. CASE NoChunkLeft(t)
    BY <2>7, GoesOn DEF NoChunkLeft, Busy
  <2>8. CASE MultiplyJob(t)
    BY <2>8, GoesOn DEF MultiplyJob, Busy
  <2> QED BY <1>1, <2>1, <2>2, <2>3, <2>4, <2>5, <2>6, <2>7, <2>8 DEF Thread
<1>2. ASSUME NEW k \in DOMAIN Products, Publish(k) PROVE Decided'
  BY <1>2, PublishDecided
<1>3. CASE UNCHANGED vars
  BY <1>3 DEF vars, threadVars, Decided, Busy, P
<1> QED BY <1>1, <1>2, <1>3 DEF Next, Done

\* Threads that have not begun have decided nothing.
LEMMA DecidedInit == Init => Decided
BY DEF Init, Decided, Busy

\* Two decisions for one product differ only over a pack that is there by now.
LEMMA DecidedApart ==
  ASSUME MulTypes, Decided, Racing, NEW t \in Threads, NEW u \in Threads, node[t] = node[u],
         {pc[t], pc[u]} \intersect {"node", "wait", "done"} = {}, way[t] # way[u]
  PROVE  PackedMeanwhile(t, u)
<1> DEFINE p == P(t)
<1>1. /\ pc[t] \in {"quantise", "tables", "counter", "multiply"}
      /\ pc[u] \in {"quantise", "tables", "counter", "multiply"}
  BY DEF MulTypes, Control
<1>2. /\ way[t] = WayWith(p, FALSE) \/ (packed[node[t]] /\ way[t] = WayWith(p, TRUE))
      /\ way[u] = WayWith(p, FALSE) \/ (packed[node[t]] /\ way[u] = WayWith(p, TRUE))
  <2>1. Busy(t) /\ Busy(u) /\ P(u) = p
    BY <1>1 DEF Busy, P
  <2>2. way[t] = WayWith(P(t), FALSE) \/ (packed[node[t]] /\ way[t] = WayWith(P(t), TRUE))
    BY <2>1 DEF Decided
  <2>3. way[u] = WayWith(P(u), FALSE) \/ (packed[node[u]] /\ way[u] = WayWith(P(u), TRUE))
    BY <2>1 DEF Decided
  <2> QED BY <2>1, <2>2, <2>3
<1>3. p.op \in {"mul_mat", "wide"} \cup Row4
  BY <1>1, ProductFacts DEF MulTypes, Control, Placed, HasChosen, P, ProductType
<1>4. packed[node[t]] /\ {way[t], way[u]} = {WayWith(p, FALSE), WayWith(p, TRUE)}
      /\ WayWith(p, FALSE) # WayWith(p, TRUE)
  BY <1>2
<1> HIDE DEF p
<1>5. CASE p.op = "mul_mat"
  BY <1>4, <1>5 DEF WayWith, PackedMeanwhile, p
<1>6. CASE p.op = "wide"
  BY <1>4, <1>6 DEF WayWith, PackedMeanwhile
<1>7. CASE p.op \in Row4
  BY <1>4, <1>7 DEF WayWith, Row4
<1> QED BY <1>3, <1>5, <1>6, <1>7

-----------------------------------------------------------------------------
(***************************************************************************)
(* The invariant: the threads are in the same phase of the same node.      *)
(***************************************************************************)
\* How node k is computed: the decision of Way, which is the same for all threads.
WayOf(k) ==
  LET p == Products[k]
  IN CASE p.op = "mul_mat" -> IF packed[k] /\ (p.f32 \/ p.wild = {}) THEN "lut" ELSE "direct"
       [] p.op = "wide" -> IF packed[k] THEN "wide_lut" ELSE "wide"
       [] p.op \in Row4 -> IF p.op = "i8mm" THEN IF uses_panel(p) THEN "panel" ELSE "pairs" ELSE p.op
TagOf(k) == <<k, WayOf(k)>>

\* The first barrier of a product divides quantising from tables if floats go
\* through the LUT of mul_mat, and preparing from multiplying otherwise.
Twice(k)      == WayOf(k) = "lut" /\ Products[k].f32
AfterFirst(k) == IF Twice(k) THEN "tables" ELSE "multiply"
AfterNode(k)  == IF k = Len(Products) THEN "done" ELSE "node"

\* What a thread has left behind when it arrives at the first barrier.
Quantised(k, t) ==
  Products[k].f32 => \A u \in QuantiseShare(Products[k], WayOf(k), t) : quantised[u] = TagOf(k)
Tabled(k, t) ==
  /\ \A u \in TableShare(Products[k], t) : tables[u] = TagOf(k)
  /\ \A u \in ScaleShare(Products[k], WayOf(k), t) : scales[u] = TagOf(k)
Counted(k, t) ==
  /\ WayOf(k) = "direct" => mine[t] = t /\ (t = 0 => current_chunk = NThreads)
  /\ uses_dynamic_jobs(Products[k], WayOf(k)) /\ t = 0 => next_job = 0
Prepares(k, t) ==
  /\ Quantised(k, t)
  /\ WayOf(k) = "wide_lut" \/ (WayOf(k) = "lut" /\ ~Products[k].f32) => Tabled(k, t)
  /\ Counted(k, t)

\* What is there when all have arrived.
AllQuantised(k) ==
  Products[k].f32 => \A u \in Prepared(Products[k]) : quantised[u] = TagOf(k)
Ready(k) ==
  IF WayOf(k) \in {"lut", "wide_lut"}
  THEN \A u \in Prepared(Products[k]) : tables[u] = TagOf(k) /\ scales[u] = TagOf(k)
  ELSE AllQuantised(k)

\* Where a thread may be before the first barrier of node k, ...
Fresh(k, t)   == node[t] = k /\ pc[t] = "node"
At(k, t)      == node[t] = k /\ way[t] = WayOf(k)
Working(k, t) ==
  /\ At(k, t)
  /\ \/ pc[t] = "quantise" /\ Products[k].f32
     \/ pc[t] = "counter" /\ WayOf(k) = "direct" /\ Quantised(k, t)
     \/ pc[t] = "tables" /\ WayOf(k) = "lut" /\ ~Products[k].f32
Arrived(k, t) == At(k, t) /\ pc[t] = "wait" /\ next[t] = AfterFirst(k) /\ Prepares(k, t)
Preparing(k) ==
  /\ \A t \in Threads : Fresh(k, t) \/ Working(k, t) \/ Arrived(k, t)
  /\ \E t \in Threads : pc[t] # "wait"

\* ... between the first and the second, ...
Tabling(k) ==
  /\ Twice(k) /\ AllQuantised(k)
  /\ \A t \in Threads :
       /\ At(k, t)
       /\ pc[t] = "tables" \/ (pc[t] = "wait" /\ next[t] = "multiply" /\ Tabled(k, t))
  /\ \E t \in Threads : pc[t] # "wait"

\* ... and before the barrier of the graph.
Multiplies(k, t) == At(k, t) /\ pc[t] = "multiply"
Left(k, t)       == node[t] = k + 1 /\ pc[t] = "wait" /\ next[t] = AfterNode(k)
Multiplying(k) ==
  /\ \A t \in Threads : Multiplies(k, t) \/ Left(k, t)
  /\ \E t \in Threads : Multiplies(k, t)
  /\ Ready(k)
Finished == \A t \in Threads : node[t] = Len(Products) + 1 /\ pc[t] \in {"node", "done"}

\* The threads that multiply mul_mat hold different chunks, and none leaves before
\* all are claimed, ...
Claims(k) ==
  WayOf(k) = "direct" =>
    /\ \A t \in Threads : node[t] = k => mine[t] < current_chunk
    /\ \A t, u \in Threads : node[t] = k /\ node[u] = k /\ t # u => mine[t] # mine[u]
    /\ NThreads >= Total(Products[k]) \/ (\E t \in Threads : node[t] > k) => current_chunk >= Total(Products[k])
\* ... or before all jobs of row4 are.
JobsGone(k) ==
  uses_dynamic_jobs(Products[k], WayOf(k)) /\ (\E t \in Threads : node[t] > k) =>
    next_job >= Jobs(Products[k], WayOf(k))

\* The chunks and jobs that are computed, and the outputs.
ChunksDone(k) ==
  {j \in 0 .. Total(Products[k]) - 1 : j < current_chunk /\ \A t \in Threads : node[t] = k => mine[t] # j}
JobsDone(k) == {j \in 0 .. Jobs(Products[k], WayOf(k)) - 1 : j < next_job}
Computed(k) ==
  IF WayOf(k) = "direct" THEN UNION {Chunk(Products[k], j) : j \in ChunksDone(k)}
  ELSE IF uses_dynamic_jobs(Products[k], WayOf(k)) THEN UNION {Job(Products[k], WayOf(k), j) : j \in JobsDone(k)}
  ELSE UNION {Outputs(Products[k], WayOf(k), t) : t \in {t \in Threads : node[t] > k}}
Progress(k) == Claims(k) /\ JobsGone(k) /\ out[k] = SetToBag(Computed(k))

Whole(k)  == out[k] = SetToBag(Outs(k))
Upto(k)   == \A j \in DOMAIN Products : (j < k => Whole(j)) /\ (j > k => out[j] = EmptyBag)
Before(k) == k \in DOMAIN Products /\ (Preparing(k) \/ Tabling(k)) /\ Upto(k) /\ out[k] = EmptyBag
During(k) == k \in DOMAIN Products /\ Multiplying(k) /\ Upto(k) /\ Progress(k)
After     == Finished /\ Upto(Len(Products) + 1)
Lockstep  == (\E k \in DOMAIN Products : Before(k) \/ During(k)) \/ After

\* The way of a product is one for its kind, and only the two of the LUT make tables.
LEMMA WayOfFacts ==
  ASSUME NEW k \in DOMAIN Products
  PROVE  /\ Computes(Products[k], WayOf(k))
         /\ WayOf(k) \in {"lut", "wide_lut"} => Products[k].op \notin Row4
         /\ WayOf(k) \in {"wide", "wide_lut"} \cup RowWays => Products[k].f32
         /\ uses_dynamic_jobs(Products[k], WayOf(k)) =>
              Products[k].op \in Row4 /\ WayOf(k) \in {"dotprod", "panel"}
<1> DEFINE p == Products[k]
<1>1. p.op \in {"mul_mat", "wide"} \cup Row4 /\ (p.op # "mul_mat" => p.f32)
  BY ProductFacts DEF ProductType
<1> HIDE DEF p
<1>2. CASE p.op = "mul_mat"
  <2>1. WayOf(k) \in {"lut", "direct"}
    BY <1>2 DEF WayOf, p, Row4
  <2> QED BY <1>2, <2>1 DEF Computes, RowWays, Row4, uses_dynamic_jobs, p
<1>3. CASE p.op = "wide"
  <2>1. WayOf(k) \in {"wide", "wide_lut"}
    BY <1>3 DEF WayOf, p, Row4
  <2> QED BY <1>1, <1>3, <2>1 DEF Computes, RowWays, Row4, uses_dynamic_jobs, p
<1>4. CASE p.op \in Row4
  <2>1. WayOf(k) \in RowWays
    BY <1>4 DEF WayOf, p, Row4, RowWays
  <2>2. p.f32 /\ p.op \notin {"mul_mat", "wide"}
    BY <1>1, <1>4 DEF Row4
  <2> QED BY <1>4, <2>1, <2>2 DEF Computes, RowWays, uses_dynamic_jobs, p
<1> QED BY <1>1, <1>2, <1>3, <1>4

\* Every thread decides for it.
LEMMA WayIs ==
  ASSUME NEW k \in DOMAIN Products, NEW t \in Threads, node[t] = k
  PROVE  Way(t) = WayOf(k)
BY DEF Way, WayOf, P, Wild

\* The decision does not change unless the weights are packed.
LEMMA SameDecision ==
  ASSUME NEW k \in DOMAIN Products, packed'[k] = packed[k]
  PROVE  /\ WayOf(k)' = WayOf(k) /\ TagOf(k)' = TagOf(k) /\ Twice(k)' = Twice(k)
         /\ AfterFirst(k)' = AfterFirst(k)
BY DEF WayOf, TagOf, Twice, AfterFirst

\* The tag and the product of a thread that is at node k.
LEMMA AtFacts ==
  ASSUME NEW k \in DOMAIN Products, NEW t \in Threads, At(k, t)
  PROVE  P(t) = Products[k] /\ Tag(t) = TagOf(k) /\ way[t] = WayOf(k) /\ node[t] = k
BY DEF At, P, Tag, TagOf

\* A thread that quantises its share of node k leaves the shares of the others.
LEMMA QuantiseData ==
  ASSUME MulTypes, NEW k \in DOMAIN Products, NEW t \in Threads, At(k, t), packed' = packed,
         quantised' = Put(quantised, QuantiseShare(P(t), way[t], t), LAMBDA u : Tag(t))
  PROVE  /\ Quantised(k, t)'
         /\ \A u \in Threads : Quantised(k, u) => Quantised(k, u)'
<1>1. WayOf(k)' = WayOf(k) /\ TagOf(k)' = TagOf(k)
  BY SameDecision
<1>2. \A u \in Inputs : quantised'[u] = IF u \in QuantiseShare(Products[k], WayOf(k), t) THEN TagOf(k) ELSE quantised[u]
  BY AtFacts DEF Put
<1>3. \A u \in Threads : QuantiseShare(Products[k], WayOf(k), u) \subseteq Inputs
  BY QuantiseCovers, WayOfFacts, ProductFacts
<1> QED BY <1>1, <1>2, <1>3 DEF Quantised

\* And so does one that makes its share of the tables.
LEMMA TableData ==
  ASSUME MulTypes, NEW k \in DOMAIN Products, NEW t \in Threads, packed' = packed,
         WayOf(k) \in {"lut", "wide_lut"}, NEW f, NEW g,
         tables' = [u \in Inputs |-> IF u \in TableShare(Products[k], t) THEN f[u] ELSE tables[u]],
         scales' = [u \in Inputs |-> IF u \in ScaleShare(Products[k], WayOf(k), t) THEN g[u] ELSE scales[u]],
         \A u \in TableShare(Products[k], t) : f[u] = TagOf(k),
         \A u \in ScaleShare(Products[k], WayOf(k), t) : g[u] = TagOf(k)
  PROVE  /\ Tabled(k, t)'
         /\ \A u \in Threads : Tabled(k, u) => Tabled(k, u)'
<1>1. WayOf(k)' = WayOf(k) /\ TagOf(k)' = TagOf(k)
  BY SameDecision
<1>2. \A u \in Threads : TableShare(Products[k], u) \subseteq Inputs /\ ScaleShare(Products[k], WayOf(k), u) \subseteq Inputs
  BY TablesCover, WayOfFacts, ProductFacts
<1> QED BY <1>1, <1>2 DEF Tabled

\* When all threads have prepared their shares, everything is prepared.
PreparedByAll ==
  \A k \in DOMAIN Products : (\A t \in Threads : Prepares(k, t)) => AllQuantised(k) /\ (~Twice(k) => Ready(k))
LEMMA AllPrepared == PreparedByAll
<1> SUFFICES ASSUME NEW k \in DOMAIN Products, \A t \in Threads : Prepares(k, t)
             PROVE  AllQuantised(k) /\ (~Twice(k) => Ready(k))
  BY DEF PreparedByAll
<1>1. AllQuantised(k)
  <2>1. \A u \in Prepared(Products[k]) : \E t \in Threads : u \in QuantiseShare(Products[k], WayOf(k), t)
    BY WayOfFacts, QuantiseCovers
  <2> QED BY <2>1 DEF Prepares, Quantised, AllQuantised
<1>2. ASSUME ~Twice(k) PROVE Ready(k)
  <2>1. CASE WayOf(k) \in {"lut", "wide_lut"}
    <3>1. \A t \in Threads : Tabled(k, t)
      BY <1>2, <2>1 DEF Prepares, Twice
    <3>2. /\ \A u \in Prepared(Products[k]) : \E t \in Threads : u \in TableShare(Products[k], t)
          /\ \A u \in Prepared(Products[k]) : \E t \in Threads : u \in ScaleShare(Products[k], WayOf(k), t)
      BY <2>1, WayOfFacts, TablesCover
    <3> QED BY <2>1, <3>1, <3>2 DEF Ready, Tabled
  <2>2. CASE WayOf(k) \notin {"lut", "wide_lut"}
    BY <1>1, <2>2 DEF Ready
  <2> QED BY <2>1, <2>2
<1> QED BY <1>1, <1>2

\* When all have made their tables, all tables are made.
TabledByAll ==
  \A k \in DOMAIN Products :
    WayOf(k) \in {"lut", "wide_lut"} /\ (\A t \in Threads : Tabled(k, t)) => Ready(k)
LEMMA AllTabled == TabledByAll
<1> SUFFICES ASSUME NEW k \in DOMAIN Products, WayOf(k) \in {"lut", "wide_lut"}, \A t \in Threads : Tabled(k, t)
             PROVE  Ready(k)
  BY DEF TabledByAll
<1>1. /\ \A u \in Prepared(Products[k]) : \E t \in Threads : u \in TableShare(Products[k], t)
      /\ \A u \in Prepared(Products[k]) : \E t \in Threads : u \in ScaleShare(Products[k], WayOf(k), t)
  BY WayOfFacts, TablesCover
<1> QED BY <1>1 DEF Ready, Tabled

\* Then nothing of the product is computed, and the first chunks are taken.
NotBegun ==
  MulTypes =>
    \A k \in DOMAIN Products :
      out[k] = EmptyBag /\ (\A t \in Threads : node[t] = k /\ Counted(k, t)) => Progress(k)
LEMMA NothingComputed == NotBegun
<1> SUFFICES ASSUME MulTypes, NEW k \in DOMAIN Products, \A t \in Threads : node[t] = k /\ Counted(k, t),
                    out[k] = EmptyBag
             PROVE  Progress(k)
  BY DEF NotBegun
<1>1. Control /\ mine \in [Threads -> Nat] /\ current_chunk \in Nat /\ next_job \in Nat
  BY DEF MulTypes, Counters
<1>2. 0 \in Threads /\ \A t \in Threads : t \in Nat /\ t < NThreads
  BY ThreadsAssumption DEF Threads
<1>3. \A t \in Threads : ~(node[t] > k)
  BY NodeNumbers DEF Control
<1>4. Total(Products[k]) \in Nat
  BY ChunkFacts
<1>5. WayOf(k) = "direct" => current_chunk = NThreads /\ \A t \in Threads : mine[t] = t
  BY <1>2 DEF Counted
<1>6. Claims(k)
  BY <1>2, <1>3, <1>4, <1>5, ThreadsAssumption DEF Claims
<1>7. JobsGone(k)
  BY <1>3 DEF JobsGone
<1>8. Computed(k) = {}
  <2>1. CASE WayOf(k) = "direct"
    <3>1. \A j \in Nat : j < NThreads => j \in Threads
      BY ThreadsAssumption DEF Threads
    <3>2. ChunksDone(k) = {}
      BY <1>4, <1>5, <2>1, <3>1 DEF ChunksDone
    <3> QED BY <2>1, <3>2 DEF Computed
  <2>2. CASE WayOf(k) # "direct" /\ uses_dynamic_jobs(Products[k], WayOf(k))
    <3>1. next_job = 0
      BY <1>2, <2>2 DEF Counted
    <3>2. JobsDone(k) = {}
      BY <3>1 DEF JobsDone
    <3> QED BY <2>2, <3>2 DEF Computed
  <2>3. CASE WayOf(k) # "direct" /\ ~uses_dynamic_jobs(Products[k], WayOf(k))
    BY <1>3, <2>3 DEF Computed
  <2> QED BY <2>1, <2>2, <2>3
<1> QED BY <1>6, <1>7, <1>8 DEF Progress, EmptyBag

\* The three facts in the state after a step.
LEMMA AllThen == PreparedByAll' /\ TabledByAll' /\ NotBegun'
BY AllPrepared, AllTabled, NothingComputed, PTL

\* What is done of the other nodes does not change with the outputs unchanged.
LEMMA UptoSame ==
  ASSUME NEW k, Upto(k), out' = out
  PROVE  Upto(k)'
BY DEF Upto, Whole, Outs

\* What a step that leaves a thread alone keeps: where it is, and its work.
Keeps(k, u) ==
  /\ (Quantised(k, u) => Quantised(k, u)')
  /\ (Tabled(k, u) => Tabled(k, u)')
  /\ (Counted(k, u) => Counted(k, u)')

\* A thread that stays where it is stays in the phase.
LEMMA StaysPreparing ==
  ASSUME NEW k \in DOMAIN Products, NEW u \in Threads, packed'[k] = packed[k], Keeps(k, u),
         node'[u] = node[u], way'[u] = way[u], pc'[u] = pc[u], next'[u] = next[u],
         Fresh(k, u) \/ Working(k, u) \/ Arrived(k, u)
  PROVE  (Fresh(k, u) \/ Working(k, u) \/ Arrived(k, u))'
<1>1. WayOf(k)' = WayOf(k) /\ AfterFirst(k)' = AfterFirst(k)
  BY SameDecision
<1>2. Fresh(k, u) => Fresh(k, u)'
  BY DEF Fresh
<1>3. Working(k, u) => Working(k, u)'
  BY <1>1 DEF Working, At, Keeps
<1>4. Prepares(k, u) => Prepares(k, u)'
  BY <1>1 DEF Prepares, Keeps
<1>5. Arrived(k, u) => Arrived(k, u)'
  BY <1>1, <1>4 DEF Arrived, At
<1> QED BY <1>2, <1>3, <1>5

\* A thread arrives at the first barrier: it waits, or all have prepared their shares
\* and go on, to the tables or to the product.
LEMMA FirstBarrier ==
  ASSUME MulTypes, MulTypes', NEW k \in DOMAIN Products, NEW t \in Threads,
         Preparing(k), Upto(k), out[k] = EmptyBag,
         At(k, t), pc[t] # "wait", Barrier(t, AfterFirst(k)),
         node' = node, way' = way, packed' = packed, out' = out,
         Prepares(k, t)', \A u \in Threads \ {t} : Keeps(k, u)
  PROVE  Before(k)' \/ During(k)'
<1>1. /\ WayOf(k)' = WayOf(k) /\ AfterFirst(k)' = AfterFirst(k) /\ Twice(k)' = Twice(k)
  BY SameDecision
<1>2. Released(t, AfterFirst(k)) \/ Waits(t, AfterFirst(k))
  BY BarrierFacts DEF MulTypes, AfterFirst
<1>3. Upto(k)' /\ out'[k] = EmptyBag
  BY UptoSame
<1>4. CASE Waits(t, AfterFirst(k))
  <2>1. Arrived(k, t)'
    BY <1>1, <1>4 DEF Arrived, At, Waits
  <2>2. \A u \in Threads \ {t} : (Fresh(k, u) \/ Working(k, u) \/ Arrived(k, u))'
    BY <1>4, StaysPreparing DEF Preparing, Waits
  <2>3. \E u \in Threads : pc'[u] # "wait"
    BY <1>4 DEF Waits
  <2>4. Preparing(k)'
    BY <2>1, <2>2, <2>3 DEF Preparing
  <2> QED BY <1>3, <2>4 DEF Before
<1>5. CASE Released(t, AfterFirst(k))
  <2>1. \A u \in Threads \ {t} : Arrived(k, u)
    BY <1>5 DEF Preparing, Released, Fresh, Working
  <2>2. \A u \in Threads \ {t} : Prepares(k, u)'
    BY <1>1, <2>1 DEF Arrived, Prepares, Keeps
  <2>3. \A u \in Threads : Prepares(k, u)'
    BY <2>2
  <2>4. \A u \in Threads : At(k, u)'
    BY <1>1, <2>1 DEF Arrived, At
  <2>5. \A u \in Threads : pc'[u] = AfterFirst(k)
    BY <1>5, <2>1 DEF Arrived, Released
  <2>6. AllQuantised(k)' /\ (~Twice(k)' => Ready(k)')
    BY <2>3, AllThen DEF PreparedByAll
  <2>7. CASE Twice(k)
    <3>1. Tabling(k)'
      BY <1>1, <2>4, <2>5, <2>6, <2>7 DEF Tabling, AfterFirst
    <3> QED BY <1>3, <3>1 DEF Before
  <2>8. CASE ~Twice(k)
    <3>1. Multiplying(k)'
      BY <1>1, <2>4, <2>5, <2>6, <2>8 DEF Multiplying, Multiplies, AfterFirst
    <3>2. \A u \in Threads : node'[u] = k /\ Counted(k, u)'
      BY <2>3, <2>4 DEF Prepares, At
    <3>3. Progress(k)'
      BY <1>3, <3>2, AllThen DEF NotBegun
    <3> QED BY <1>3, <3>1, <3>3 DEF During
  <2> QED BY <2>7, <2>8
<1> QED BY <1>2, <1>4, <1>5

\* A thread makes its decision.
LEMMA BeginStep ==
  ASSUME MulTypes, NEW k \in DOMAIN Products, NEW t \in Threads,
         Preparing(k), Upto(k), out[k] = EmptyBag, Begin(t)
  PROVE  Before(k)'
<1>0. pc \in [Threads -> {"node", "quantise", "tables", "counter", "multiply", "wait", "done"}]
      /\ way \in [Threads -> Ways]
  BY DEF MulTypes, Control
<1>1. Fresh(k, t)
  BY DEF Begin, Preparing, Working, Arrived
<1>2. node[t] = k /\ Way(t) = WayOf(k) /\ P(t) = Products[k]
  BY <1>1, WayIs DEF Fresh, P
<1>3. way' = [way EXCEPT ![t] = WayOf(k)]
  BY <1>2 DEF Begin
<1>4. /\ pc' = [pc EXCEPT ![t] = IF Products[k].f32 THEN "quantise" ELSE IF WayOf(k) = "lut" THEN "tables" ELSE "counter"]
      /\ next' = next
  BY <1>2 DEF Begin, Goto
<1>5. UNCHANGED <<node, mine, current_chunk, next_job, packed, quantised, tables, scales, out>>
  BY DEF Begin, jobVars, bufferVars
<1>6. WayOf(k)' = WayOf(k) /\ TagOf(k)' = TagOf(k)
  BY <1>5, SameDecision
<1>7. \A u \in Threads : Keeps(k, u)
  BY <1>5, <1>6 DEF Keeps, Quantised, Tabled, Counted
<1>8. ~Products[k].f32 => WayOf(k) \in {"lut", "direct"}
  BY WayOfFacts DEF Computes
<1>9. Working(k, t)'
  <2>1. ~Products[k].f32 => Quantised(k, t)'
    BY DEF Quantised
  <2> QED BY <1>0, <1>2, <1>3, <1>4, <1>5, <1>6, <1>8, <2>1 DEF Working, At
<1>10. \A u \in Threads \ {t} : (Fresh(k, u) \/ Working(k, u) \/ Arrived(k, u))'
  BY <1>0, <1>3, <1>4, <1>5, <1>7, StaysPreparing DEF Preparing
<1>11. pc'[t] # "wait"
  BY <1>0, <1>4
<1>12. Upto(k)' /\ out'[k] = EmptyBag
  BY <1>5, UptoSame
<1> QED BY <1>9, <1>10, <1>11, <1>12 DEF Before, Preparing

\* It quantises its share, and goes on to the counter or to the barrier.
LEMMA QuantiseStep ==
  ASSUME MulTypes, MulTypes', NEW k \in DOMAIN Products, NEW t \in Threads,
         Preparing(k), Upto(k), out[k] = EmptyBag,
         QuantiseLut(t) \/ QuantiseDirect(t) \/ QuantiseWide(t) \/ QuantiseWideLut(t) \/ QuantiseRow4(t)
  PROVE  Before(k)' \/ During(k)'
<1>1. pc[t] = "quantise" /\ \E l \in {"tables", "counter", "multiply"} : Quantises(t, l)
  BY QuantiseCases
<1>2. At(k, t) /\ Products[k].f32
  BY <1>1 DEF Preparing, Fresh, Working, Arrived
<1>3. /\ quantised' = Put(quantised, QuantiseShare(P(t), way[t], t), LAMBDA u : Tag(t))
      /\ UNCHANGED <<node, way, packed, out, mine, current_chunk>>
  BY <1>1 DEF Quantises
<1>4. Quantised(k, t)' /\ \A u \in Threads : Quantised(k, u) => Quantised(k, u)'
  BY <1>2, <1>3, QuantiseData
<1>5. WayOf(k)' = WayOf(k) /\ TagOf(k)' = TagOf(k) /\ AfterFirst(k)' = AfterFirst(k) /\ Twice(k)' = Twice(k)
  BY <1>3, SameDecision
<1>6. P(t) = Products[k] /\ Tag(t) = TagOf(k) /\ way[t] = WayOf(k) /\ node[t] = k
  BY <1>2, AtFacts
<1>7. Computes(Products[k], WayOf(k))
  BY WayOfFacts
<1>8. CASE QuantiseLut(t)
  <2>1. WayOf(k) = "lut" /\ UNCHANGED <<tables, scales, next_job>> /\ Barrier(t, "tables")
    BY <1>6, <1>8 DEF QuantiseLut, jobVars
  <2>2. AfterFirst(k) = "tables"
    BY <1>2, <2>1 DEF AfterFirst, Twice
  <2>3. Counted(k, t)'
    BY <1>5, <2>1 DEF Counted, uses_dynamic_jobs
  <2>4. Prepares(k, t)'
    BY <1>2, <1>4, <1>5, <2>1, <2>3 DEF Prepares
  <2>5. \A u \in Threads : Keeps(k, u)
    BY <1>3, <1>4, <1>5, <2>1 DEF Keeps, Tabled, Counted
  <2> QED BY <1>1, <1>2, <1>3, <2>1, <2>2, <2>4, <2>5, FirstBarrier
<1>9. CASE QuantiseDirect(t)
  <2>1. WayOf(k) = "direct" /\ UNCHANGED <<tables, scales, next_job>> /\ Goto(t, "counter")
    BY <1>6, <1>9 DEF QuantiseDirect, jobVars
  <2>2. pc' = [pc EXCEPT ![t] = "counter"] /\ next' = next /\ pc \in [Threads -> {"node", "quantise", "tables", "counter", "multiply", "wait", "done"}]
    BY <2>1 DEF Goto, MulTypes, Control
  <2>3. Working(k, t)'
    BY <1>2, <1>3, <1>4, <1>5, <2>1, <2>2 DEF Working, At
  <2>4. \A u \in Threads : Keeps(k, u)
    BY <1>3, <1>4, <1>5, <2>1 DEF Keeps, Tabled, Counted
  <2>5. \A u \in Threads \ {t} : (Fresh(k, u) \/ Working(k, u) \/ Arrived(k, u))'
    BY <1>3, <2>2, <2>4, StaysPreparing DEF Preparing
  <2>6. pc'[t] # "wait"
    BY <2>2
  <2>7. Upto(k)' /\ out'[k] = EmptyBag
    BY <1>3, UptoSame
  <2> QED BY <2>3, <2>5, <2>6, <2>7 DEF Before, Preparing
<1>10. CASE QuantiseWide(t)
  <2>1. WayOf(k) = "wide" /\ UNCHANGED <<tables, scales, next_job>> /\ Barrier(t, "multiply")
    BY <1>6, <1>10 DEF QuantiseWide, jobVars
  <2>2. AfterFirst(k) = "multiply"
    BY <2>1 DEF AfterFirst, Twice
  <2>3. Counted(k, t)'
    BY <1>5, <2>1 DEF Counted, uses_dynamic_jobs
  <2>4. Prepares(k, t)'
    BY <1>2, <1>4, <1>5, <2>1, <2>3 DEF Prepares
  <2>5. \A u \in Threads : Keeps(k, u)
    BY <1>3, <1>4, <1>5, <2>1 DEF Keeps, Tabled, Counted
  <2> QED BY <1>1, <1>2, <1>3, <2>1, <2>2, <2>4, <2>5, FirstBarrier
<1>11. CASE QuantiseWideLut(t)
  <2>1. WayOf(k) = "wide_lut" /\ next_job' = next_job /\ Barrier(t, "multiply")
    BY <1>6, <1>11 DEF QuantiseWideLut, jobVars
  <2>2. AfterFirst(k) = "multiply"
    BY <2>1 DEF AfterFirst, Twice
  <2>3. Counted(k, t)'
    BY <1>5, <2>1 DEF Counted, uses_dynamic_jobs
  <2> DEFINE f == [u \in Inputs |-> TagOf(k)]
  <2>5. /\ TableShare(Products[k], t) = QuantiseShare(Products[k], WayOf(k), t)
        /\ ScaleShare(Products[k], WayOf(k), t) = QuantiseShare(Products[k], WayOf(k), t)
    BY <2>1 DEF TableShare, ScaleShare, QuantiseShare, RowWays
  <2>6. \A u \in QuantiseShare(Products[k], WayOf(k), t) : quantised'[u] = TagOf(k)
    BY <1>2, <1>4, <1>5 DEF Quantised
  <2>4. /\ tables' = [u \in Inputs |-> IF u \in TableShare(Products[k], t) THEN f[u] ELSE tables[u]]
        /\ scales' = [u \in Inputs |-> IF u \in ScaleShare(Products[k], WayOf(k), t) THEN f[u] ELSE scales[u]]
    BY <1>6, <1>11, <2>5, <2>6 DEF QuantiseWideLut, Put
  <2>a. \A u \in QuantiseShare(Products[k], WayOf(k), t) : f[u] = TagOf(k)
    BY <1>7, QuantiseCovers, ProductFacts
  <2> HIDE DEF f
  <2>7. Tabled(k, t)' /\ \A u \in Threads : Tabled(k, u) => Tabled(k, u)'
    BY <1>3, <2>1, <2>4, <2>5, <2>a, TableData
  <2>8. Prepares(k, t)'
    BY <1>4, <2>3, <2>7 DEF Prepares
  <2>9. \A u \in Threads : Keeps(k, u)
    BY <1>3, <1>4, <1>5, <2>1, <2>7 DEF Keeps, Counted
  <2> QED BY <1>1, <1>2, <1>3, <2>1, <2>2, <2>8, <2>9, FirstBarrier
<1>12. CASE QuantiseRow4(t)
  <2>1. /\ WayOf(k) \in RowWays /\ UNCHANGED <<tables, scales>> /\ Barrier(t, "multiply")
        /\ next_job' = IF t = 0 /\ uses_dynamic_jobs(Products[k], WayOf(k)) THEN 0 ELSE next_job
    BY <1>6, <1>12 DEF QuantiseRow4
  <2>2. AfterFirst(k) = "multiply"
    BY <2>1 DEF AfterFirst, Twice, RowWays
  <2>3. Counted(k, t)' /\ \A u \in Threads : Counted(k, u) => Counted(k, u)'
    BY <1>3, <1>5, <2>1 DEF Counted, RowWays
  <2>4. Prepares(k, t)'
    BY <1>2, <1>4, <1>5, <2>1, <2>3 DEF Prepares, RowWays
  <2>5. \A u \in Threads : Keeps(k, u)
    BY <1>3, <1>4, <1>5, <2>1, <2>3 DEF Keeps, Tabled
  <2> QED BY <1>1, <1>2, <1>3, <2>1, <2>2, <2>4, <2>5, FirstBarrier
<1> QED BY <1>8, <1>9, <1>10, <1>11, <1>12

\* It makes the tables of activations that came quantised, before the first barrier.
LEMMA TablesFirst ==
  ASSUME MulTypes, MulTypes', NEW k \in DOMAIN Products, NEW t \in Threads,
         Preparing(k), Upto(k), out[k] = EmptyBag, Tables(t)
  PROVE  Before(k)' \/ During(k)'
<1>1. pc[t] = "tables" /\ At(k, t) /\ WayOf(k) = "lut" /\ ~Products[k].f32
  BY DEF Preparing, Fresh, Working, Arrived, Tables
<1>2. UNCHANGED <<node, way, mine, current_chunk, next_job, packed, quantised, out>> /\ Barrier(t, "multiply")
  BY DEF Tables, jobVars
<1>3. WayOf(k)' = WayOf(k) /\ TagOf(k)' = TagOf(k)
  BY <1>2, SameDecision
<1>4. P(t) = Products[k] /\ Tag(t) = TagOf(k) /\ way[t] = WayOf(k) /\ node[t] = k
  BY <1>1, AtFacts
<1> DEFINE f == [u \in Inputs |-> TagOf(k)]
<1>5. /\ tables' = [u \in Inputs |-> IF u \in TableShare(Products[k], t) THEN f[u] ELSE tables[u]]
      /\ scales' = [u \in Inputs |-> IF u \in ScaleShare(Products[k], WayOf(k), t) THEN f[u] ELSE scales[u]]
  BY <1>1, <1>4 DEF Tables, Put
<1>6. /\ \A u \in TableShare(Products[k], t) : f[u] = TagOf(k)
      /\ \A u \in ScaleShare(Products[k], WayOf(k), t) : f[u] = TagOf(k)
  BY <1>1, TablesCover, WayOfFacts, ProductFacts
<1> HIDE DEF f
<1>7. Tabled(k, t)' /\ \A u \in Threads : Tabled(k, u) => Tabled(k, u)'
  BY <1>1, <1>2, <1>5, <1>6, TableData
<1>8. Prepares(k, t)'
  BY <1>1, <1>3, <1>7 DEF Prepares, Quantised, Counted, uses_dynamic_jobs
<1>9. \A u \in Threads : Keeps(k, u)
  BY <1>2, <1>3, <1>7 DEF Keeps, Quantised, Counted
<1>10. AfterFirst(k) = "multiply"
  BY <1>1 DEF AfterFirst, Twice
<1> QED BY <1>1, <1>2, <1>8, <1>9, <1>10, FirstBarrier

\* It sets the counter of the chunks, if it is thread 0, and takes its first chunk.
LEMMA CounterStep ==
  ASSUME MulTypes, MulTypes', NEW k \in DOMAIN Products, NEW t \in Threads,
         Preparing(k), Upto(k), out[k] = EmptyBag, Counter(t)
  PROVE  Before(k)' \/ During(k)'
<1>1. pc[t] = "counter" /\ At(k, t) /\ WayOf(k) = "direct" /\ Quantised(k, t)
  BY DEF Preparing, Fresh, Working, Arrived, Counter
<1>2. /\ UNCHANGED <<node, way, next_job, packed, quantised, tables, scales, out>> /\ Barrier(t, "multiply")
      /\ current_chunk' = IF t = 0 THEN NThreads ELSE current_chunk
      /\ mine' = [mine EXCEPT ![t] = t] /\ mine \in [Threads -> Nat]
  BY DEF Counter, bufferVars, FirstFree, MulTypes, Counters
<1>3. WayOf(k)' = WayOf(k) /\ TagOf(k)' = TagOf(k)
  BY <1>2, SameDecision
<1>4. Counted(k, t)'
  BY <1>1, <1>2, <1>3 DEF Counted, uses_dynamic_jobs
<1>5. \A u \in Threads : Quantised(k, u) => Quantised(k, u)'
  BY <1>2, <1>3 DEF Quantised
<1>6. Prepares(k, t)'
  BY <1>1, <1>3, <1>4, <1>5 DEF Prepares
<1>7. \A u \in Threads \ {t} : Keeps(k, u)
  BY <1>2, <1>3, <1>5 DEF Keeps, Counted, Tabled
<1>8. AfterFirst(k) = "multiply"
  BY <1>1 DEF AfterFirst, Twice
<1> QED BY <1>1, <1>2, <1>6, <1>7, <1>8, FirstBarrier

\* Between the barriers of the LUT, it makes its tables of what all have quantised.
LEMMA TablesSecond ==
  ASSUME MulTypes, MulTypes', NEW k \in DOMAIN Products, NEW t \in Threads,
         Tabling(k), Upto(k), out[k] = EmptyBag, Tables(t)
  PROVE  Before(k)' \/ During(k)'
<1>1. pc[t] = "tables" /\ At(k, t) /\ WayOf(k) = "lut" /\ Products[k].f32 /\ AllQuantised(k)
  BY DEF Tabling, Twice, Tables
<1>2. UNCHANGED <<node, way, mine, current_chunk, next_job, packed, quantised, out>> /\ Barrier(t, "multiply")
  BY DEF Tables, jobVars
<1>3. WayOf(k)' = WayOf(k) /\ TagOf(k)' = TagOf(k) /\ Twice(k)' = Twice(k)
  BY <1>2, SameDecision
<1>4. P(t) = Products[k] /\ Tag(t) = TagOf(k) /\ way[t] = WayOf(k) /\ node[t] = k
  BY <1>1, AtFacts
<1>5. /\ tables' = [u \in Inputs |-> IF u \in TableShare(Products[k], t) THEN quantised[u] ELSE tables[u]]
      /\ scales' = [u \in Inputs |-> IF u \in ScaleShare(Products[k], WayOf(k), t) THEN quantised[u] ELSE scales[u]]
  BY <1>1, <1>4 DEF Tables, Put
<1>6. /\ \A u \in TableShare(Products[k], t) : quantised[u] = TagOf(k)
      /\ \A u \in ScaleShare(Products[k], WayOf(k), t) : quantised[u] = TagOf(k)
  BY <1>1, TablesCover, WayOfFacts DEF AllQuantised
<1>7. Tabled(k, t)' /\ \A u \in Threads : Tabled(k, u) => Tabled(k, u)'
  BY <1>1, <1>2, <1>5, <1>6, TableData
<1>8. Released(t, "multiply") \/ Waits(t, "multiply")
  BY <1>2, BarrierFacts DEF MulTypes
<1>9. Upto(k)' /\ out'[k] = EmptyBag
  BY <1>2, UptoSame
<1>10. AllQuantised(k)' /\ \A u \in Threads : At(k, u) => At(k, u)'
  BY <1>1, <1>2, <1>3 DEF AllQuantised, At
<1>11. CASE Waits(t, "multiply")
  <2>1. Tabling(k)'
    BY <1>3, <1>7, <1>10, <1>11 DEF Tabling, Waits
  <2> QED BY <1>9, <2>1 DEF Before
<1>12. CASE Released(t, "multiply")
  <2>1. \A u \in Threads : Tabled(k, u)' /\ At(k, u)' /\ pc'[u] = "multiply"
    BY <1>7, <1>10, <1>12 DEF Tabling, Released
  <2>2. Ready(k)'
    BY <1>1, <1>3, <2>1, AllThen DEF TabledByAll
  <2>3. Multiplying(k)'
    BY <2>1, <2>2 DEF Multiplying, Multiplies
  <2>4. \A u \in Threads : node'[u] = k /\ Counted(k, u)'
    BY <1>1, <1>3, <2>1 DEF Counted, At, uses_dynamic_jobs
  <2>5. Progress(k)'
    BY <1>9, <2>4, AllThen DEF NotBegun
  <2> QED BY <1>9, <2>3, <2>5 DEF During
<1> QED BY <1>8, <1>11, <1>12

\* When all threads have left a product, all of it is computed.
AllLeft ==
  MulTypes =>
    \A k \in DOMAIN Products :
      Claims(k) /\ JobsGone(k) /\ (\A t \in Threads : node[t] > k) => Computed(k) = Outs(k)
LEMMA AllComputed == AllLeft
<1> SUFFICES ASSUME MulTypes, NEW k \in DOMAIN Products, Claims(k), JobsGone(k), \A t \in Threads : node[t] > k
             PROVE  Computed(k) = Outs(k)
  BY DEF AllLeft
<1>1. k \in Nat /\ 0 \in Threads /\ current_chunk \in Nat /\ next_job \in Nat
      /\ \A t \in Threads : node[t] \in Nat /\ node[t] # k
  BY NodeNumbers, ThreadsAssumption DEF Threads, MulTypes, Control, Counters
<1>2. CASE WayOf(k) = "direct"
  <2>1. Total(Products[k]) \in Nat /\ current_chunk >= Total(Products[k])
    BY <1>1, <1>2, ChunkFacts DEF Claims
  <2>2. ChunksDone(k) = 0 .. Total(Products[k]) - 1
    BY <1>1, <2>1 DEF ChunksDone
  <2>3. Computed(k) = UNION {Chunk(Products[k], j) : j \in 0 .. Total(Products[k]) - 1}
    BY <1>2, <2>2 DEF Computed
  <2> QED BY <2>3, ChunkFacts
<1>3. CASE WayOf(k) # "direct" /\ uses_dynamic_jobs(Products[k], WayOf(k))
  <2>1. Products[k].op \in Row4 /\ WayOf(k) \in {"dotprod", "panel"}
    BY <1>3, WayOfFacts
  <2>2. Jobs(Products[k], WayOf(k)) \in Int /\ next_job >= Jobs(Products[k], WayOf(k))
    <3>1. Jobs(Products[k], WayOf(k)) \in Int
      <4>1. Products[k].nr0 \div JobSize(WayOf(k)) \in Nat /\ NCols(Products[k]) \in Nat
        BY <2>1, GroupFacts, ProductFacts
      <4> QED BY <2>1, <4>1 DEF Jobs, JobSize
    <3> QED BY <1>1, <1>3, <3>1 DEF JobsGone
  <2>3. JobsDone(k) = 0 .. Jobs(Products[k], WayOf(k)) - 1
    BY <1>1, <2>2 DEF JobsDone
  <2>4. Computed(k) = UNION {Job(Products[k], WayOf(k), j) : j \in 0 .. Jobs(Products[k], WayOf(k)) - 1}
    BY <1>3, <2>3 DEF Computed
  <2>5. /\ \A x \in Outs(k) : JobOf(Products[k], WayOf(k), x) \in 0 .. Jobs(Products[k], WayOf(k)) - 1
        /\ \A j \in 0 .. Jobs(Products[k], WayOf(k)) - 1 :
             Job(Products[k], WayOf(k), j) = {x \in Outs(k) : JobOf(Products[k], WayOf(k), x) = j}
    BY <2>1, JobFacts
  <2> QED BY <2>4, <2>5
<1>4. CASE WayOf(k) # "direct" /\ ~uses_dynamic_jobs(Products[k], WayOf(k))
  <2>1. Computed(k) = UNION {Outputs(Products[k], WayOf(k), t) : t \in Threads}
    BY <1>4 DEF Computed
  <2>2. /\ \A t \in Threads : Outputs(Products[k], WayOf(k), t) \subseteq Outs(k)
        /\ \A x \in Outs(k) : \E t \in Threads : x \in Outputs(Products[k], WayOf(k), t)
    BY <1>4, OutputsFacts, WayOfFacts
  <2> QED BY <2>1, <2>2
<1> QED BY <1>2, <1>3, <1>4
LEMMA AllComputedThen == AllLeft'
BY AllComputed, PTL

\* A thread that has its share of the outputs waits at the barrier of the graph, or
\* all go on to the next node.
LEMMA LeaveStep ==
  ASSUME MulTypes, NEW k \in DOMAIN Products, NEW t \in Threads, Multiplying(k), pc[t] = "multiply",
         EndNode(t), way' = way, packed' = packed, UNCHANGED bufferVars
  PROVE  \/ Multiplying(k)'
         \/ \A u \in Threads : node'[u] = k + 1 /\ pc'[u] = AfterNode(k)
<1>1. Multiplies(k, t)
  BY DEF Multiplying, Left
<1>2. node[t] = k /\ node \in [Threads -> 1 .. Len(Products) + 1] /\ k \in Nat /\ Len(Products) \in Nat
  BY <1>1, NodeNumbers DEF Multiplies, At, MulTypes, Control
<1>3. node' = [node EXCEPT ![t] = k + 1] /\ Barrier(t, AfterNode(k))
  BY <1>2 DEF EndNode, AfterNode
<1>4. Released(t, AfterNode(k)) \/ Waits(t, AfterNode(k))
  BY <1>3, BarrierFacts DEF MulTypes, AfterNode
<1>5. WayOf(k)' = WayOf(k) /\ TagOf(k)' = TagOf(k)
  BY SameDecision
<1>6. AfterNode(k)' = AfterNode(k)
  BY DEF AfterNode
<1>7. CASE Waits(t, AfterNode(k))
  <2>1. Left(k, t)'
    BY <1>2, <1>3, <1>6, <1>7 DEF Left, Waits
  <2>2. \A u \in Threads \ {t} : Multiplies(k, u) => Multiplies(k, u)'
    BY <1>2, <1>3, <1>5, <1>7 DEF Multiplies, At, Waits
  <2>3. \A u \in Threads \ {t} : Left(k, u) => Left(k, u)'
    BY <1>2, <1>3, <1>6, <1>7 DEF Left, Waits
  <2>4. PICK u \in Threads \ {t} : pc[u] # "wait"
    BY <1>7 DEF Waits
  <2>5. Multiplies(k, u)
    BY <2>4 DEF Multiplying, Left
  <2>6. Ready(k)'
    BY <1>5 DEF Multiplying, Ready, AllQuantised, bufferVars
  <2>7. \A v \in Threads : Multiplies(k, v)' \/ Left(k, v)'
    BY <2>1, <2>2, <2>3 DEF Multiplying
  <2>8. Multiplying(k)'
    BY <2>2, <2>5, <2>6, <2>7 DEF Multiplying
  <2> QED BY <2>8
<1>8. CASE Released(t, AfterNode(k))
  <2>1. \A u \in Threads \ {t} : Left(k, u)
    BY <1>8 DEF Multiplying, Multiplies, Released
  <2> QED BY <1>2, <1>3, <1>8, <2>1 DEF Left, Released
<1> QED BY <1>4, <1>7, <1>8

\* A step that computes node k, and may leave it.
LEMMA DuringStep ==
  ASSUME MulTypes, MulTypes', NEW k \in DOMAIN Products, NEW t \in Threads, During(k), pc[t] = "multiply",
         EndNode(t) \/ UNCHANGED <<pc, next, node>>, way' = way, packed' = packed, UNCHANGED bufferVars,
         \A j \in DOMAIN Products \ {k} : out'[j] = out[j], Progress(k)'
  PROVE  Lockstep'
<1>0. k \in Nat /\ Len(Products) \in Nat /\ DOMAIN Products = 1 .. Len(Products)
  BY NodeNumbers
<1>1. Upto(k)'
  <2>1. \A j \in DOMAIN Products \ {k} : Whole(j) => Whole(j)'
    BY DEF Whole, Outs
  <2> QED BY <1>0, <2>1 DEF During, Upto
<1>2. Multiplying(k)' \/ \A u \in Threads : node'[u] = k + 1 /\ pc'[u] = AfterNode(k)
  <2>1. CASE EndNode(t)
    BY <2>1, LeaveStep DEF During
  <2>2. CASE UNCHANGED <<pc, next, node>>
    <3>1. WayOf(k)' = WayOf(k) /\ TagOf(k)' = TagOf(k)
      BY SameDecision
    <3>2. Ready(k)'
      BY <3>1 DEF During, Multiplying, Ready, AllQuantised, bufferVars
    <3>3. \A u \in Threads : (Multiplies(k, u) => Multiplies(k, u)') /\ (Left(k, u) => Left(k, u)')
      BY <2>2, <3>1 DEF Multiplies, At, Left, AfterNode
    <3> QED BY <3>2, <3>3 DEF During, Multiplying
  <2> QED BY <2>1, <2>2
<1>3. CASE Multiplying(k)'
  BY <1>1, <1>3 DEF Lockstep, During
<1>4. CASE \A u \in Threads : node'[u] = k + 1 /\ pc'[u] = AfterNode(k)
  <2>1. Computed(k)' = Outs(k)'
    <3>1. \A u \in Threads : node'[u] > k
      BY <1>0, <1>4
    <3> QED BY <3>1, AllComputedThen DEF AllLeft, Progress
  <2>2. Whole(k)'
    BY <2>1 DEF Progress, Whole
  <2>3. Upto(k + 1)' /\ (k + 1 \in DOMAIN Products => out'[k + 1] = EmptyBag)
    BY <1>0, <1>1, <2>2 DEF Upto
  <2>4. CASE k = Len(Products)
    <3>1. Finished'
      BY <1>4, <2>4 DEF Finished, AfterNode
    <3> QED BY <2>3, <2>4, <3>1 DEF Lockstep, After
  <2>5. CASE k # Len(Products)
    <3>1. k + 1 \in DOMAIN Products
      BY <1>0, <2>5
    <3>2. Preparing(k + 1)'
      <4>1. \A u \in Threads : Fresh(k + 1, u)'
        BY <1>4, <2>5 DEF Fresh, AfterNode
      <4>2. 0 \in Threads /\ pc'[0] # "wait"
        BY <1>4, <2>5, ThreadsAssumption DEF AfterNode, Threads
      <4> QED BY <4>1, <4>2 DEF Preparing
    <3>3. Before(k + 1)'
      BY <2>3, <3>1, <3>2 DEF Before
    <3> QED BY <3>1, <3>3 DEF Lockstep
  <2> QED BY <2>4, <2>5
<1> QED BY <1>2, <1>3, <1>4

\* Outputs that were not computed yet are added once.
LEMMA BagJoin ==
  ASSUME NEW A, NEW B, A \cap B = {}
  PROVE  SetToBag(A) (+) SetToBag(B) = SetToBag(A \cup B)
BY DEF SetToBag, (+)

\* A thread computes its tiles, its range of outputs or its jobs.
LEMMA MultiplyStep ==
  ASSUME MulTypes, MulTypes', NEW k \in DOMAIN Products, NEW t \in Threads, During(k), Multiply(t)
  PROVE  Lockstep'
<1> DEFINE w == WayOf(k)
           O == Outputs(Products[k], w, t)
<1>1. At(k, t) /\ pc[t] = "multiply"
  BY DEF During, Multiplying, Left, Multiplies, Multiply
<1>2. P(t) = Products[k] /\ way[t] = w /\ node[t] = k
  BY <1>1, AtFacts
<1>3. w # "direct" /\ ~uses_dynamic_jobs(Products[k], w)
  BY <1>2 DEF Multiply
<1>4. /\ EndNode(t) /\ UNCHANGED <<way, packed, bufferVars>>
      /\ out' = [out EXCEPT ![k] = out[k] (+) SetToBag(O)]
  BY <1>2 DEF Multiply
<1>5. w' = w
  BY <1>4, SameDecision
<1> HIDE DEF O
<1>6. node' = [node EXCEPT ![t] = k + 1] /\ node \in [Threads -> 1 .. Len(Products) + 1] /\ k \in Nat
  BY <1>2, <1>4, NodeNumbers DEF EndNode, MulTypes, Control
<1> DEFINE G == {u \in Threads : node[u] > k}
           H == {u \in Threads : node'[u] > k}
<1>7. H = G \cup {t} /\ t \notin G
  BY <1>2, <1>6
<1>8. Computed(k) = UNION {Outputs(Products[k], w, u) : u \in G}
  BY <1>3 DEF Computed
<1>9. Computed(k)' = UNION {Outputs(Products[k], w, u) : u \in H}
  <2>1. Computed(k)' = UNION {Outputs(Products[k], w', u) : u \in {u \in Threads : node'[u] > k}}
    BY <1>3, <1>5 DEF Computed
  <2> QED BY <1>5, <2>1
<1> HIDE DEF G, H
<1>10. Computed(k)' = Computed(k) \cup O
  BY <1>7, <1>8, <1>9 DEF O
<1>11. Computed(k) \cap O = {}
  <2>1. \A u \in G : u \in Threads /\ u # t
    BY <1>7 DEF G
  <2>2. \A u \in G : Outputs(Products[k], w, u) \cap Outputs(Products[k], w, t) = {}
    BY <1>3, <2>1, OutputsFacts, WayOfFacts
  <2> QED BY <1>8, <2>2 DEF O
<1>12. out'[k] = SetToBag(Computed(k) \cup O)
  BY <1>4, <1>11, BagJoin DEF During, Progress, MulTypes, Within
<1>13. Progress(k)'
  BY <1>3, <1>5, <1>10, <1>12 DEF Progress, Claims, JobsGone
<1>14. \A j \in DOMAIN Products \ {k} : out'[j] = out[j]
  BY <1>4 DEF MulTypes, Within
<1> QED BY <1>1, <1>4, <1>13, <1>14, DuringStep

\* What it takes to add a chunk.
LEMMA ChunkStep ==
  ASSUME MulTypes, MulTypes', NEW k \in DOMAIN Products, NEW t \in Threads, During(k), MultiplyChunk(t)
  PROVE  Lockstep'
<1> DEFINE p == Products[k]
           j == mine[t]
<1>1. At(k, t) /\ pc[t] = "multiply"
  BY DEF During, Multiplying, Left, Multiplies, MultiplyChunk
<1>2. P(t) = p /\ way[t] = WayOf(k) /\ node[t] = k
  BY <1>1, AtFacts
<1>3. WayOf(k) = "direct" /\ j < Total(p)
  BY <1>2 DEF MultiplyChunk
<1>4. /\ EndNode(t) \/ UNCHANGED <<pc, next, node>>
      /\ UNCHANGED <<way, packed, bufferVars>>
      /\ out' = [out EXCEPT ![k] = out[k] (+) SetToBag(Chunk(p, j))]
      /\ \/ NThreads >= Total(p) /\ EndNode(t) /\ UNCHANGED <<mine, current_chunk>>
         \/ /\ mine' = [mine EXCEPT ![t] = current_chunk]
            /\ current_chunk' = current_chunk + 1 /\ node' = node
  BY <1>2 DEF MultiplyChunk
<1>5. WayOf(k)' = WayOf(k)
  BY <1>4, SameDecision
<1>6. /\ node \in [Threads -> 1 .. Len(Products) + 1] /\ k \in Nat /\ mine \in [Threads -> Nat] /\ current_chunk \in Nat
      /\ Total(p) \in Nat /\ NThreads \in Nat
  BY NodeNumbers, ChunkFacts, ThreadsAssumption DEF MulTypes, Control, Counters
<1>7. /\ \A u \in Threads : node[u] = k => mine[u] < current_chunk
      /\ \A u \in Threads \ {t} : node[u] = k => mine[u] # j
      /\ \A u, v \in Threads : node[u] = k /\ node[v] = k /\ u # v => mine[u] # mine[v]
      /\ NThreads >= Total(p) \/ (\E u \in Threads : node[u] > k) => current_chunk >= Total(p)
  BY <1>2, <1>3 DEF During, Progress, Claims
<1> HIDE DEF p, j
<1>8. ChunksDone(k)' = ChunksDone(k) \cup {j} /\ j \notin ChunksDone(k) /\ j \in 0 .. Total(p) - 1 /\ Claims(k)'
  <2>1. j \in 0 .. Total(p) - 1 /\ j < current_chunk
    BY <1>2, <1>3, <1>6, <1>7 DEF j
  <2>2. j \notin ChunksDone(k)
    BY <1>2 DEF ChunksDone, j
  <2>3. CASE NThreads >= Total(p) /\ EndNode(t) /\ UNCHANGED <<mine, current_chunk>>
    <3>1. node' = [node EXCEPT ![t] = k + 1]
      BY <1>2, <2>3 DEF EndNode
    <3>2. \A u \in Threads : node'[u] = k <=> (u # t /\ node[u] = k)
      BY <1>6, <3>1
    <3>3. ChunksDone(k)' = ChunksDone(k) \cup {j}
      BY <1>2, <1>6, <1>7, <2>1, <2>3, <3>2 DEF ChunksDone, p, j
    <3>4. Claims(k)'
      BY <1>6, <1>7, <2>3, <3>2 DEF Claims, p
    <3> QED BY <2>1, <2>2, <3>3, <3>4
  <2>4. CASE mine' = [mine EXCEPT ![t] = current_chunk] /\ current_chunk' = current_chunk + 1 /\ node' = node
    <3>1. mine'[t] = current_chunk /\ \A u \in Threads \ {t} : mine'[u] = mine[u]
      BY <1>6, <2>4
    <3>2. ASSUME NEW i \in 0 .. Total(p) - 1
          PROVE  (i < current_chunk + 1 /\ \A u \in Threads : node[u] = k => mine'[u] # i)
                   <=> (i = j \/ (i < current_chunk /\ \A u \in Threads : node[u] = k => mine[u] # i))
      <4>1. mine[t] = j /\ node[t] = k /\ i \in Nat
        BY <1>2, <1>6 DEF j
      <4>2. ASSUME i < current_chunk + 1, \A u \in Threads : node[u] = k => mine'[u] # i, i # j
            PROVE  i < current_chunk /\ \A u \in Threads : node[u] = k => mine[u] # i
        <5>1. i # current_chunk
          BY <3>1, <4>1, <4>2
        <5>2. \A u \in Threads : node[u] = k => mine[u] # i
          BY <3>1, <4>1, <4>2
        <5> QED BY <1>6, <4>1, <4>2, <5>1, <5>2
      <4>3. ASSUME i = j \/ (i < current_chunk /\ \A u \in Threads : node[u] = k => mine[u] # i)
            PROVE  i < current_chunk + 1 /\ \A u \in Threads : node[u] = k => mine'[u] # i
        <5>1. i < current_chunk
          BY <2>1, <4>3
        <5>2. \A u \in Threads \ {t} : node[u] = k => mine'[u] # i
          BY <1>7, <3>1, <4>3
        <5>3. mine'[t] # i
          BY <1>6, <3>1, <4>1, <5>1
        <5> QED BY <1>6, <4>1, <5>1, <5>2, <5>3
      <4> QED BY <4>2, <4>3
    <3>3. ChunksDone(k)' = ChunksDone(k) \cup {j}
      BY <2>1, <2>4, <3>2 DEF ChunksDone, p
    <3>4. Claims(k)'
      BY <1>6, <1>7, <2>4, <3>1 DEF Claims, p
    <3> QED BY <2>1, <2>2, <3>3, <3>4
  <2> QED BY <1>4, <2>3, <2>4
<1>9. /\ Computed(k) = UNION {Chunk(p, i) : i \in ChunksDone(k)}
      /\ Computed(k)' = UNION {Chunk(p, i) : i \in ChunksDone(k)'}
  BY <1>3, <1>5 DEF Computed, p
<1>10. Computed(k)' = Computed(k) \cup Chunk(p, j)
  BY <1>8, <1>9
<1>11. Computed(k) \cap Chunk(p, j) = {}
  <2>1. ChunksDone(k) \subseteq 0 .. Total(p) - 1
    BY DEF ChunksDone, p
  <2>2. \A i \in 0 .. Total(p) - 1 : Chunk(p, i) = {x \in Outs(k) : ChunkOf(p, x) = i}
    BY ChunkFacts DEF p
  <2> QED BY <1>8, <1>9, <2>1, <2>2
<1>12. out'[k] = SetToBag(Computed(k) \cup Chunk(p, j))
  BY <1>4, <1>11, BagJoin DEF During, Progress, MulTypes, Within
<1>13. Progress(k)'
  BY <1>3, <1>5, <1>8, <1>10, <1>12 DEF Progress, JobsGone, uses_dynamic_jobs
<1>14. \A i \in DOMAIN Products \ {k} : out'[i] = out[i]
  BY <1>4 DEF MulTypes, Within
<1> QED BY <1>1, <1>4, <1>13, <1>14, DuringStep

\* It finds no chunk left.
LEMMA NoChunkStep ==
  ASSUME MulTypes, MulTypes', NEW k \in DOMAIN Products, NEW t \in Threads, During(k), NoChunkLeft(t)
  PROVE  Lockstep'
<1> DEFINE p == Products[k]
<1>1. At(k, t) /\ pc[t] = "multiply"
  BY DEF During, Multiplying, Left, Multiplies, NoChunkLeft
<1>2. P(t) = p /\ way[t] = WayOf(k) /\ node[t] = k
  BY <1>1, AtFacts
<1>3. WayOf(k) = "direct" /\ mine[t] >= Total(p)
  BY <1>2 DEF NoChunkLeft
<1>4. EndNode(t) /\ UNCHANGED <<way, mine, current_chunk, next_job, packed, bufferVars, out>>
  BY DEF NoChunkLeft, jobVars
<1>5. WayOf(k)' = WayOf(k)
  BY <1>4, SameDecision
<1>6. /\ node \in [Threads -> 1 .. Len(Products) + 1] /\ k \in Nat /\ mine \in [Threads -> Nat] /\ current_chunk \in Nat
      /\ Total(p) \in Nat /\ NThreads \in Nat
  BY NodeNumbers, ChunkFacts, ThreadsAssumption DEF MulTypes, Control, Counters
<1>7. Claims(k)
  BY DEF During, Progress
<1> HIDE DEF p
<1>8. node' = [node EXCEPT ![t] = k + 1]
  BY <1>2, <1>4 DEF EndNode
<1>9. \A u \in Threads : node'[u] = k <=> (u # t /\ node[u] = k)
  BY <1>6, <1>8
<1>10. current_chunk >= Total(p)
  BY <1>2, <1>3, <1>6, <1>7 DEF Claims, p
<1>11. ChunksDone(k)' = ChunksDone(k)
  BY <1>2, <1>3, <1>4, <1>6, <1>9 DEF ChunksDone, p
<1>12. Claims(k)'
  BY <1>3, <1>4, <1>5, <1>7, <1>9, <1>10 DEF Claims, p
<1>13. Computed(k)' = Computed(k)
  BY <1>3, <1>5, <1>11 DEF Computed
<1>14. Progress(k)'
  BY <1>3, <1>4, <1>5, <1>12, <1>13 DEF During, Progress, JobsGone, uses_dynamic_jobs
<1> QED BY <1>1, <1>4, <1>14, DuringStep

\* It claims a job, and computes it if there is one left.
LEMMA JobStep ==
  ASSUME MulTypes, MulTypes', NEW k \in DOMAIN Products, NEW t \in Threads, During(k), MultiplyJob(t)
  PROVE  Lockstep'
<1> DEFINE p == Products[k]
           w == WayOf(k)
           n == Jobs(p, w)
<1>1. At(k, t) /\ pc[t] = "multiply"
  BY DEF During, Multiplying, Left, Multiplies, MultiplyJob
<1>2. P(t) = p /\ way[t] = w /\ node[t] = k
  BY <1>1, AtFacts
<1>3. uses_dynamic_jobs(p, w) /\ p.op \in Row4 /\ w \in {"dotprod", "panel"}
  BY <1>2, WayOfFacts DEF MultiplyJob
<1>4. /\ UNCHANGED <<way, mine, current_chunk, packed, bufferVars>> /\ next_job' = next_job + 1
      /\ \/ /\ next_job < n /\ UNCHANGED <<pc, next, node>>
            /\ out' = [out EXCEPT ![k] = out[k] (+) SetToBag(Job(p, w, next_job))]
         \/ ~(next_job < n) /\ EndNode(t) /\ out' = out
  BY <1>2 DEF MultiplyJob
<1>5. w' = w
  BY <1>4, SameDecision
<1>6. n \in Int /\ next_job \in Nat /\ node \in [Threads -> 1 .. Len(Products) + 1] /\ k \in Nat
  <2>1. p.nr0 \div JobSize(w) \in Nat /\ NCols(p) \in Nat
    BY <1>3, GroupFacts, ProductFacts
  <2>2. n \in Int
    BY <1>3, <2>1 DEF Jobs, JobSize
  <2> QED BY <2>2, NodeNumbers DEF MulTypes, Control, Counters
<1>7. \A j \in 0 .. n - 1 : Job(p, w, j) = {x \in Outs(k) : JobOf(p, w, x) = j}
  BY <1>3, JobFacts
<1>8. /\ Computed(k) = UNION {Job(p, w, j) : j \in JobsDone(k)}
      /\ Computed(k)' = UNION {Job(p, w, j) : j \in JobsDone(k)'}
  BY <1>3, <1>5 DEF Computed
<1>9. JobsDone(k) = {j \in 0 .. n - 1 : j < next_job} /\ JobsDone(k)' = {j \in 0 .. n - 1 : j < next_job + 1}
  BY <1>4, <1>5 DEF JobsDone
<1>10. Claims(k)'
  BY <1>3, <1>5 DEF Claims
<1>11. JobsGone(k) /\ (JobsGone(k)' <=> ((\E u \in Threads : node'[u] > k) => next_job + 1 >= n))
  BY <1>3, <1>4, <1>5 DEF During, Progress, JobsGone
<1>12. CASE next_job < n /\ UNCHANGED <<pc, next, node>>
  <2> HIDE DEF p, w, n
  <2>0. out' = [out EXCEPT ![k] = out[k] (+) SetToBag(Job(p, w, next_job))]
    BY <1>4, <1>12
  <2>1. JobsGone(k)'
    BY <1>3, <1>6, <1>11, <1>12 DEF JobsGone, p, w, n
  <2>2. JobsDone(k)' = JobsDone(k) \cup {next_job} /\ next_job \notin JobsDone(k) /\ next_job \in 0 .. n - 1
    BY <1>6, <1>9, <1>12
  <2>3. Computed(k)' = Computed(k) \cup Job(p, w, next_job)
    BY <1>8, <2>2
  <2>4. Computed(k) \cap Job(p, w, next_job) = {}
    BY <1>7, <1>8, <1>9, <2>2
  <2>5. out'[k] = SetToBag(Computed(k) \cup Job(p, w, next_job))
    BY <2>0, <2>4, BagJoin DEF During, Progress, MulTypes, Within
  <2>6. Progress(k)'
    BY <1>10, <2>1, <2>3, <2>5 DEF Progress
  <2>7. \A j \in DOMAIN Products \ {k} : out'[j] = out[j]
    BY <2>0 DEF MulTypes, Within
  <2> QED BY <1>1, <1>4, <1>12, <2>6, <2>7, DuringStep
<1>13. CASE ~(next_job < n) /\ EndNode(t) /\ out' = out
  <2> HIDE DEF p, w, n
  <2>1. JobsGone(k)'
    BY <1>6, <1>11, <1>13
  <2>2. JobsDone(k)' = JobsDone(k)
    BY <1>6, <1>9, <1>13
  <2>3. Computed(k)' = Computed(k)
    BY <1>8, <2>2
  <2>4. Progress(k)'
    BY <1>10, <1>13, <2>1, <2>3 DEF During, Progress
  <2> QED BY <1>1, <1>4, <1>13, <2>4, DuringStep
<1> QED BY <1>4, <1>12, <1>13

\* The phase stays if no thread moves and the decision for the node stands.
LEMMA SamePhase ==
  ASSUME MulTypes, Lockstep,
         UNCHANGED <<pc, next, node, way, mine, current_chunk, next_job, quantised, tables, scales, out>>,
         \A k \in DOMAIN Products : (\E t \in Threads : node[t] = k) => packed'[k] = packed[k]
  PROVE  Lockstep'
<1>1. UNCHANGED <<pc, next, node, way, mine, current_chunk, next_job, quantised, tables, scales, out>>
  OBVIOUS
<1>2. 0 \in Threads /\ node \in [Threads -> 1 .. Len(Products) + 1] /\ DOMAIN Products = 1 .. Len(Products)
      /\ Len(Products) \in Nat
  BY NodeNumbers, ThreadsAssumption DEF MulTypes, Control, Threads
<1>3. ASSUME NEW k \in DOMAIN Products, Before(k) \/ During(k) PROVE Before(k)' \/ During(k)'
  <2>1. \E t \in Threads : node[t] = k
    <3>1. CASE Preparing(k)
      BY <1>2, <3>1 DEF Preparing, Fresh, Working, Arrived, At
    <3>2. CASE Tabling(k)
      BY <1>2, <3>2 DEF Tabling, At
    <3>3. CASE Multiplying(k)
      BY <3>3 DEF Multiplying, Multiplies, At
    <3> QED BY <1>3, <3>1, <3>2, <3>3 DEF Before, During
  <2>2. packed'[k] = packed[k]
    BY <2>1
  <2>3. /\ WayOf(k)' = WayOf(k) /\ TagOf(k)' = TagOf(k) /\ Twice(k)' = Twice(k)
        /\ AfterFirst(k)' = AfterFirst(k)
    BY <2>2, SameDecision
  <2>4. \A t \in Threads : /\ (Quantised(k, t) => Quantised(k, t)') /\ (Tabled(k, t) => Tabled(k, t)')
                           /\ (Counted(k, t) => Counted(k, t)') /\ (At(k, t) => At(k, t)')
    BY <1>1, <2>3 DEF Quantised, Tabled, Counted, At
  <2>5. Upto(k)'
    BY <1>1, <1>3, UptoSame DEF Before, During
  <2>6. CASE Before(k)
    <3>1. CASE Preparing(k)
      <4>1. \A t \in Threads : (Fresh(k, t) \/ Working(k, t) \/ Arrived(k, t))'
        BY <1>1, <2>2, <2>4, <3>1, StaysPreparing DEF Preparing, Keeps
      <4> QED BY <1>1, <2>5, <2>6, <3>1, <4>1 DEF Before, Preparing
    <3>2. CASE Tabling(k)
      <4>1. AllQuantised(k)'
        BY <1>1, <2>3, <3>2 DEF Tabling, AllQuantised
      <4>2. Tabling(k)'
        BY <1>1, <2>3, <2>4, <3>2, <4>1 DEF Tabling
      <4> QED BY <1>1, <2>5, <2>6, <4>2 DEF Before
    <3> QED BY <2>6, <3>1, <3>2 DEF Before
  <2>7. CASE During(k)
    <3>1. Ready(k)'
      BY <1>1, <2>3, <2>7 DEF During, Multiplying, Ready, AllQuantised
    <3>2. \A t \in Threads : (Multiplies(k, t) => Multiplies(k, t)') /\ (Left(k, t) => Left(k, t)')
      BY <1>1, <2>3 DEF Multiplies, At, Left, AfterNode
    <3>3. Multiplying(k)'
      BY <2>7, <3>1, <3>2 DEF During, Multiplying
    <3>4. Claims(k)' /\ JobsGone(k)'
      BY <1>1, <2>3, <2>7 DEF During, Progress, Claims, JobsGone
    <3>5. ChunksDone(k)' = ChunksDone(k) /\ JobsDone(k)' = JobsDone(k)
      BY <1>1, <2>3 DEF ChunksDone, JobsDone
    <3>6. Computed(k)' = Computed(k)
      BY <1>1, <2>3, <3>5 DEF Computed
    <3>7. Progress(k)'
      BY <1>1, <2>7, <3>4, <3>6 DEF During, Progress
    <3> QED BY <2>5, <3>3, <3>7 DEF During
  <2> QED BY <1>3, <2>6, <2>7
<1>4. CASE After
  <2>1. Upto(Len(Products) + 1)'
    BY <1>1, <1>4, UptoSame DEF After
  <2> QED BY <1>1, <1>4, <2>1 DEF After, Finished, Lockstep
<1> QED BY <1>3, <1>4 DEF Lockstep

\* If no other context packs the weights of a node that is computed, the decision for
\* it stands.
LEMMA PublishStep ==
  ASSUME MulTypes, ~Racing, Lockstep, NEW i \in DOMAIN Products, Publish(i)
  PROVE  Lockstep'
<1>1. /\ (\A t \in Threads : node[t] < i) \/ (\A t \in Threads : node[t] > i)
      /\ packed' = [packed EXCEPT ![i] = TRUE]
      /\ UNCHANGED <<pc, next, node, way, mine, current_chunk, next_job, quantised, tables, scales, out>>
  BY DEF Publish, threadVars, jobVars, bufferVars
<1>2. node \in [Threads -> 1 .. Len(Products) + 1] /\ DOMAIN Products = 1 .. Len(Products)
      /\ Len(Products) \in Nat
  BY NodeNumbers DEF MulTypes, Control
<1>3. \A k \in DOMAIN Products : (\E t \in Threads : node[t] = k) => k # i
  BY <1>1, <1>2
<1>4. \A k \in DOMAIN Products : k # i => packed'[k] = packed[k]
  BY <1>1 DEF MulTypes
<1> QED BY <1>1, <1>3, <1>4, SamePhase

\* A step of a thread is one of the phase.
LEMMA ThreadStep ==
  ASSUME MulTypes, MulTypes', Lockstep, NEW t \in Threads, Thread(t)
  PROVE  Lockstep'
<1>1. ASSUME NEW k \in DOMAIN Products, Before(k), Preparing(k) PROVE Lockstep'
  <2>1. Upto(k) /\ out[k] = EmptyBag
    BY <1>1 DEF Before
  <2>2. pc[t] \notin {"multiply", "done"}
    BY <1>1 DEF Preparing, Fresh, Working, Arrived
  <2>3. CASE Begin(t)
    BY <1>1, <2>1, <2>3, BeginStep DEF Lockstep
  <2>4. CASE QuantiseLut(t) \/ QuantiseDirect(t) \/ QuantiseWide(t) \/ QuantiseWideLut(t) \/ QuantiseRow4(t)
    BY <1>1, <2>1, <2>4, QuantiseStep DEF Lockstep
  <2>5. CASE Tables(t)
    BY <1>1, <2>1, <2>5, TablesFirst DEF Lockstep
  <2>6. CASE Counter(t)
    BY <1>1, <2>1, <2>6, CounterStep DEF Lockstep
  <2> QED BY <2>2, <2>3, <2>4, <2>5, <2>6 DEF Thread, Multiply, MultiplyChunk, NoChunkLeft, MultiplyJob
<1>2. ASSUME NEW k \in DOMAIN Products, Before(k), Tabling(k) PROVE Lockstep'
  <2>1. pc[t] \in {"tables", "wait"}
    BY <1>2 DEF Tabling
  <2>2. Tables(t)
    BY <2>1 DEF Thread, Begin, QuantiseLut, QuantiseDirect, QuantiseWide, QuantiseWideLut, QuantiseRow4,
                Counter, Multiply, MultiplyChunk, NoChunkLeft, MultiplyJob
  <2> QED BY <1>2, <2>2, TablesSecond DEF Before, Lockstep
<1>3. ASSUME NEW k \in DOMAIN Products, During(k) PROVE Lockstep'
  <2>1. pc[t] \in {"multiply", "wait"}
    BY <1>3 DEF During, Multiplying, Multiplies, Left
  <2>2. Multiply(t) \/ MultiplyChunk(t) \/ NoChunkLeft(t) \/ MultiplyJob(t)
    BY <2>1 DEF Thread, Begin, QuantiseLut, QuantiseDirect, QuantiseWide, QuantiseWideLut, QuantiseRow4,
                Counter, Tables
  <2> QED BY <1>3, <2>2, MultiplyStep, ChunkStep, NoChunkStep, JobStep
<1>4. CASE After
  <2>1. node[t] = Len(Products) + 1 /\ pc[t] \in {"node", "done"} /\ Len(Products) \in Nat
    BY <1>4, NodeNumbers DEF After, Finished
  <2> QED BY <2>1 DEF Thread, Begin, QuantiseLut, QuantiseDirect, QuantiseWide, QuantiseWideLut, QuantiseRow4,
                      Counter, Tables, Multiply, MultiplyChunk, NoChunkLeft, MultiplyJob
<1> QED BY <1>1, <1>2, <1>3, <1>4 DEF Lockstep, Before

\* The threads start at the first node, or there is none.
LEMMA InitLockstep == Init => Lockstep
<1> SUFFICES ASSUME Init PROVE Lockstep
  OBVIOUS
<1>1. /\ \A t \in Threads : pc[t] = "node" /\ node[t] = 1
      /\ \A k \in DOMAIN Products : out[k] = EmptyBag
      /\ 0 \in Threads
  BY ThreadsAssumption DEF Init, Threads
<1>2. Len(Products) \in Nat /\ DOMAIN Products = 1 .. Len(Products)
  BY NodeNumbers
<1>3. CASE Len(Products) = 0
  <2>1. DOMAIN Products = {}
    BY <1>2, <1>3
  <2> QED BY <1>1, <1>3, <2>1 DEF Lockstep, After, Finished, Upto
<1>4. CASE Len(Products) # 0
  <2>1. 1 \in DOMAIN Products /\ \A j \in DOMAIN Products : ~(j < 1)
    BY <1>2, <1>4
  <2>2. Preparing(1)
    BY <1>1 DEF Preparing, Fresh
  <2>3. Upto(1)
    BY <1>1, <2>1 DEF Upto
  <2> QED BY <1>1, <2>1, <2>2, <2>3 DEF Lockstep, Before
<1> QED BY <1>3, <1>4

\* Every step keeps the threads in lockstep.
LEMMA LockstepStep ==
  ASSUME ~Racing, MulTypes, MulTypes', Lockstep, [Next]_vars
  PROVE  Lockstep'
<1>1. CASE \E t \in Threads : Thread(t)
  BY <1>1, ThreadStep
<1>2. CASE \E k \in DOMAIN Products : Publish(k)
  BY <1>2, PublishStep
<1>3. CASE UNCHANGED vars
  BY <1>3, SamePhase DEF vars, threadVars, jobVars, bufferVars
<1> QED BY <1>1, <1>2, <1>3 DEF Next, Done

\* In lockstep the three properties hold.
LEMMA LockstepReady == MulTypes /\ Lockstep => InputReady
<1> SUFFICES ASSUME MulTypes, Lockstep, NEW t \in Threads, pc[t] = "multiply", NEW u \in Prepared(P(t))
             PROVE  IF way[t] \in {"lut", "wide_lut"} THEN tables[u] = Tag(t) /\ scales[u] = Tag(t)
                    ELSE P(t).f32 => quantised[u] = Tag(t)
  BY DEF InputReady
<1>1. PICK k \in DOMAIN Products : During(k)
  BY DEF Lockstep, Before, Preparing, Tabling, Fresh, Working, Arrived, After, Finished
<1>2. At(k, t) /\ Ready(k)
  BY <1>1 DEF During, Multiplying, Multiplies, Left
<1>3. P(t) = Products[k] /\ Tag(t) = TagOf(k) /\ way[t] = WayOf(k)
  BY <1>2, AtFacts
<1> QED BY <1>2, <1>3 DEF Ready, AllQuantised

\* Threads that work on the same node have the way of the node.
LEMMA LockstepSameWay == MulTypes /\ Lockstep => SameWay
<1> SUFFICES ASSUME MulTypes, Lockstep, NEW t \in Threads, NEW u \in Threads,
                    {pc[t], pc[u]} \intersect {"node", "wait", "done"} = {}
             PROVE  way[t] = way[u]
  BY DEF SameWay
<1>1. pc[t] \notin {"node", "wait", "done"} /\ pc[u] \notin {"node", "wait", "done"}
  OBVIOUS
<1>2. PICK k \in DOMAIN Products : Before(k) \/ During(k)
  BY <1>1 DEF Lockstep, After, Finished
<1>3. At(k, t) /\ At(k, u)
  BY <1>1, <1>2 DEF Before, During, Preparing, Tabling, Multiplying, Fresh, Working, Arrived, Multiplies, Left
<1> QED BY <1>3, AtFacts

\* A node that all threads have left is whole.
LEMMA LockstepOnce == MulTypes /\ Lockstep => ComputedOnce
<1> SUFFICES ASSUME MulTypes, Lockstep, NEW j \in DOMAIN Products, \A t \in Threads : node[t] > j
             PROVE  Whole(j)
  BY DEF ComputedOnce, Whole
<1>1. 0 \in Threads /\ j \in Nat /\ Len(Products) \in Nat /\ DOMAIN Products = 1 .. Len(Products)
  BY NodeNumbers, ThreadsAssumption DEF Threads
<1>2. ASSUME NEW k \in DOMAIN Products, Before(k) \/ During(k) PROVE Whole(j)
  <2>1. \E t \in Threads : node[t] = k
    <3>1. CASE Preparing(k)
      BY <1>1, <3>1 DEF Preparing, Fresh, Working, Arrived, At
    <3>2. CASE Tabling(k)
      BY <1>1, <3>2 DEF Tabling, At
    <3>3. CASE Multiplying(k)
      BY <3>3 DEF Multiplying, Multiplies, At
    <3> QED BY <1>2, <3>1, <3>2, <3>3 DEF Before, During
  <2>2. j < k /\ Upto(k)
    BY <1>1, <1>2, <2>1 DEF Before, During
  <2> QED BY <2>2 DEF Upto
<1>3. CASE After
  BY <1>1, <1>3 DEF After, Upto
<1> QED BY <1>2, <1>3 DEF Lockstep

\* If no other context packs weights while they are used, all threads are always in the
\* same phase of the same node: they have decided alike, what they read is prepared,
\* and the pieces that are computed are those of the threads that have left and of the
\* chunks and jobs that nobody holds any more.
THEOREM ProductsInLockstep ==
  ASSUME ~Racing
  PROVE  Spec => []Lockstep
<1>1. Init => MulTypes /\ Lockstep
  BY InitTypes, InitLockstep
<1>2. MulTypes /\ Lockstep /\ [Next]_vars => (MulTypes /\ Lockstep)'
  BY NextTypes, LockstepStep
<1> QED BY <1>1, <1>2, PTL DEF Spec

\* Then a thread that multiplies finds all inputs prepared for its product and way.
THEOREM InputsReady ==
  ASSUME ~Racing
  PROVE  Spec => []InputReady
<1>1. Init => MulTypes /\ Lockstep
  BY InitTypes, InitLockstep
<1>2. MulTypes /\ Lockstep /\ [Next]_vars => (MulTypes /\ Lockstep)'
  BY NextTypes, LockstepStep
<1> QED BY <1>1, <1>2, LockstepReady, PTL DEF Spec

\* And every output of every product is computed exactly once, with the weights of its
\* own plane: for every number of threads, every size of the product, of the chunks,
\* the tiles, the groups and the panels.
THEOREM OutputsOnce ==
  ASSUME ~Racing
  PROVE  Spec => []ComputedOnce
<1>1. Init => MulTypes /\ Lockstep
  BY InitTypes, InitLockstep
<1>2. MulTypes /\ Lockstep /\ [Next]_vars => (MulTypes /\ Lockstep)'
  BY NextTypes, LockstepStep
<1> QED BY <1>1, <1>2, LockstepOnce, PTL DEF Spec

\* Whether or not another context packs weights while they are used: all threads of
\* a product decide alike, except those that decided before and after a pack of its
\* weights was published meanwhile.
THEOREM OneDecision == Spec => []SameWay
<1>1. CASE ~Racing
  <2>1. Init => MulTypes /\ Lockstep
    BY InitTypes, InitLockstep
  <2>2. MulTypes /\ Lockstep /\ [Next]_vars => (MulTypes /\ Lockstep)'
    BY <1>1, NextTypes, LockstepStep
  <2> QED BY <2>1, <2>2, LockstepSameWay, PTL DEF Spec
<1>2. CASE Racing
  <2>1. Init => MulTypes /\ Decided
    BY InitTypes, DecidedInit
  <2>2. MulTypes /\ Decided /\ [Next]_vars => (MulTypes /\ Decided)'
    BY NextTypes, DecidedStep
  <2>3. MulTypes /\ Decided => SameWay
    BY <1>2, DecidedApart DEF SameWay
  <2> QED BY <2>1, <2>2, <2>3, PTL DEF Spec
<1> QED BY <1>1, <1>2
=============================================================================
