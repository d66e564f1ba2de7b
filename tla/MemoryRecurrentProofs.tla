------------------------ MODULE MemoryRecurrentProofs -------------------------
(***************************************************************************)
(* Theorems about the batch allocator, the outputs of a decode and the     *)
(* cells of the memory, for batches of any length, any number of sequences *)
(* and cells and any n_ubatch.  The splits are walks over the batch: a     *)
(* lemma for each says what the walk has taken so far, one more            *)
(* (SplitsFacts) what follows for the whole batch when no micro-batch      *)
(* takes a token before those that go before it.  find_slot is followed    *)
(* loop by loop: what the cells are after each one is what the next needs, *)
(* and MemoryGood, which every step keeps, is what the first one needs.    *)
(***************************************************************************)
EXTENDS MemoryRecurrent, Recursion, SequenceTheorems

Ascending(q) == \A i, j \in DOMAIN q : i < j => q[i] < q[j]

\* What is appended comes last.
LEMMA AppendFacts ==
  ASSUME NEW S, NEW q \in Seq(S), NEW e \in S
  PROVE  /\ Append(q, e) \in Seq(S) /\ Len(q) \in Nat /\ Len(Append(q, e)) = Len(q) + 1
         /\ DOMAIN q = 1 .. Len(q) /\ DOMAIN Append(q, e) = 1 .. Len(q) + 1
         /\ \A i \in DOMAIN q : Append(q, e)[i] = q[i]
         /\ Append(q, e)[Len(q) + 1] = e
         /\ ToSet(Append(q, e)) = ToSet(q) \cup {e}
<1>1. /\ Append(q, e) \in Seq(S) /\ Len(q) \in Nat /\ Len(Append(q, e)) = Len(q) + 1
      /\ DOMAIN q = 1 .. Len(q) /\ DOMAIN Append(q, e) = 1 .. Len(q) + 1
      /\ \A i \in DOMAIN q : Append(q, e)[i] = q[i]
      /\ Append(q, e)[Len(q) + 1] = e
  BY AppendProperties, LenProperties
<1>2. ToSet(Append(q, e)) = ToSet(q) \cup {e}
  <2>1. \A i \in 1 .. Len(q) + 1 : i \in 1 .. Len(q) \/ i = Len(q) + 1
    BY <1>1
  <2>2. 1 .. Len(q) \subseteq 1 .. Len(q) + 1 /\ Len(q) + 1 \in 1 .. Len(q) + 1
    BY <1>1
  <2> QED BY <1>1, <2>1, <2>2 DEF ToSet
<1> QED BY <1>1, <1>2

\* An ascending sequence remains one when a larger element is appended.
LEMMA AppendAscends ==
  ASSUME NEW T, T \subseteq Int, NEW q \in Seq(T), Ascending(q), NEW e \in T, \A i \in DOMAIN q : q[i] < e
  PROVE  Ascending(Append(q, e))
<1>1. /\ Len(q) \in Nat /\ DOMAIN q = 1 .. Len(q) /\ DOMAIN Append(q, e) = 1 .. Len(q) + 1
      /\ \A i \in DOMAIN q : Append(q, e)[i] = q[i]
      /\ Append(q, e)[Len(q) + 1] = e
  BY AppendFacts
<1> SUFFICES ASSUME NEW i \in 1 .. Len(q) + 1, NEW j \in 1 .. Len(q) + 1, i < j
             PROVE  Append(q, e)[i] < Append(q, e)[j]
  BY <1>1 DEF Ascending
<1>2. i \in DOMAIN q
  BY <1>1
<1>3. CASE j \in DOMAIN q
  BY <1>1, <1>2, <1>3 DEF Ascending
<1>4. CASE j \notin DOMAIN q
  <2>1. j = Len(q) + 1
    BY <1>1, <1>4
  <2> QED BY <1>1, <1>2, <2>1
<1> QED BY <1>3, <1>4

\* The elements come in ascending order, each once.
LEMMA InOrderFacts ==
  ASSUME NEW N \in Nat, NEW I
  PROVE  /\ InOrder(I, N) \in Seq(1 .. N) /\ Ascending(InOrder(I, N))
         /\ ToSet(InOrder(I, N)) = I \cap (1 .. N)
<1> DEFINE n == N
           base == <<>>
           Step(k, d) == IF k \in I THEN Append(d, k) ELSE d
           E(m, h) == [k \in 0 .. m |-> IF k = 0 THEN base ELSE Step(k, h[k - 1])]
           w == CHOOSE h : h = E(n, h)
           Good(k, d) == d \in Seq(1 .. k) /\ Ascending(d) /\ ToSet(d) = I \cap (1 .. k)
<1>1. n \in Nat
  OBVIOUS
<1>2. InOrder(I, N) = w[n]
  BY DEF InOrder
<1>3. Good(0, base)
  <2>1. <<>> \in Seq(1 .. 0) /\ DOMAIN <<>> = {} /\ ToSet(<<>>) = {} /\ 1 .. 0 = {}
    BY DEF ToSet
  <2> QED BY <2>1 DEF Ascending
<1>4. ASSUME NEW k \in 1 .. n, NEW d, Good(k - 1, d) PROVE Good(k, Step(k, d))
  <2>1. d \in Seq(1 .. k - 1) /\ Ascending(d) /\ ToSet(d) = I \cap (1 .. k - 1)
    BY <1>4
  <2>2. /\ d \in Seq(1 .. k) /\ Len(d) \in Nat /\ DOMAIN d = 1 .. Len(d)
        /\ \A i \in DOMAIN d : d[i] \in 1 .. k - 1
    <3>1. 1 .. k - 1 \subseteq 1 .. k
      OBVIOUS
    <3> QED BY <2>1, <3>1, SeqMonotonic, LenProperties, ElementOfSeq
  <2>3. CASE k \notin I
    BY <2>1, <2>2, <2>3
  <2>4. CASE k \in I
    <3> DEFINE a == Append(d, k)
    <3>1. /\ a \in Seq(1 .. k) /\ DOMAIN a = 1 .. Len(d) + 1
          /\ (\A i \in DOMAIN d : a[i] = d[i]) /\ a[Len(d) + 1] = k /\ ToSet(a) = ToSet(d) \cup {k}
      BY <2>2, AppendFacts
    <3> HIDE DEF a
    <3>2. Ascending(a)
      <4>1. \A i \in DOMAIN d : d[i] < k
        BY <2>2
      <4> QED BY <2>1, <2>2, <4>1, AppendAscends DEF a
    <3>3. ToSet(a) = I \cap (1 .. k)
      BY <2>1, <2>4, <3>1
    <3> QED BY <2>4, <3>1, <3>2, <3>3 DEF a
  <2> QED BY <2>3, <2>4
<1> HIDE DEF Good, Step, base, n
<1>5. w[0] = base /\ \A k \in 1 .. n : w[k] = Step(k, w[k - 1])
  <2> DEFINE T == {m \in Nat : \E h : h = E(m, h)}
  <2>1. 0 \in T
    <3> DEFINE h == [k \in 0 .. 0 |-> base]
    <3>1. h = E(0, h)
      OBVIOUS
    <3> QED BY <3>1
  <2>2. ASSUME NEW m \in Nat, m \in T PROVE m + 1 \in T
    <3>1. PICK h : h = E(m, h)
      BY <2>2
    <3>0. \A k \in 0 .. m : h[k] = IF k = 0 THEN base ELSE Step(k, h[k - 1])
      BY <3>1
    <3> HIDE DEF E
    <3> DEFINE g == [k \in 0 .. m + 1 |-> IF k = m + 1 THEN Step(m + 1, h[m]) ELSE h[k]]
    <3>2. ASSUME NEW k \in 0 .. m + 1 PROVE g[k] = IF k = 0 THEN base ELSE Step(k, g[k - 1])
      <4>1. /\ k # m + 1 => k \in 0 .. m /\ (k # 0 => k - 1 \in 0 .. m + 1 /\ k - 1 # m + 1)
            /\ k = m + 1 => k # 0 /\ k - 1 = m /\ m \in 0 .. m + 1 /\ m # m + 1
        OBVIOUS
      <4>2. CASE k = m + 1
        BY <4>1, <4>2
      <4>3. CASE k # m + 1
        <5>1. g[k] = h[k] /\ (k # 0 => g[k - 1] = h[k - 1])
          BY <4>1, <4>3
        <5> HIDE DEF g
        <5> QED BY <3>0, <4>1, <4>3, <5>1
      <4> QED BY <4>2, <4>3
    <3> HIDE DEF g
    <3>3. g = E(m + 1, g)
      BY <3>2 DEF g, E
    <3> QED BY <3>3
  <2>3. n \in T
    <3> HIDE DEF T
    <3> QED BY <1>1, <2>1, <2>2, SetInduction
  <2>4. \E h : h = E(n, h)
    BY <2>3
  <2> HIDE DEF E
  <2>5. w = E(n, w)
    BY <2>4
  <2> HIDE DEF w
  <2>6. 0 \in 0 .. n /\ \A k \in 1 .. n : k \in 0 .. n /\ k # 0
    BY <1>1
  <2> QED BY <2>5, <2>6 DEF E
<1> HIDE DEF w
<1> DEFINE S == {k \in 0 .. n : Good(k, w[k])}
<1>6. 0 \in S
  BY <1>1, <1>3, <1>5
<1>7. \A k \in 1 .. n : k - 1 \in S => k \in S
  BY <1>1, <1>4, <1>5
<1> HIDE DEF S
<1>8. n \in S
  <2>1. \A k \in 0 .. n : k \in S
    BY <1>1, <1>6, <1>7, FiniteInduction
  <2> QED BY <1>1, <2>1
<1>9. Good(n, InOrder(I, N))
  BY <1>2, <1>8 DEF S
<1> QED
  BY <1>9 DEF Good, n

-----------------------------------------------------------------------------
(***************************************************************************)
(* The rows of the output.                                                 *)
(***************************************************************************)
\* Where the swaps lead, one after the other.
Reordered(r, rows, swaps) ==
  /\ r[0] = rows
  /\ \A k \in 1 .. Len(swaps) : r[k] = Swap(r[k - 1], swaps[k][1], swaps[k][2])

\* output_reorder makes the swaps in the order they were recorded in.
LEMMA ReorderUnfolds ==
  ASSUME NEW rows, NEW swaps, Len(swaps) \in Nat
  PROVE  \E f : output_reorder(rows, swaps) = f[Len(swaps)] /\ Reordered(f, rows, swaps)
<1> DEFINE n == Len(swaps)
           base == rows
           Step(k, d) == Swap(d, swaps[k][1], swaps[k][2])
           E(m, h) == [k \in 0 .. m |-> IF k = 0 THEN base ELSE Step(k, h[k - 1])]
           w == CHOOSE h : h = E(n, h)
<1>1. n \in Nat
  OBVIOUS
<1>2. output_reorder(rows, swaps) = w[n]
  BY DEF output_reorder, Swap
<1> HIDE DEF Step, base, n
<1>5. w[0] = base /\ \A k \in 1 .. n : w[k] = Step(k, w[k - 1])
  <2> DEFINE T == {m \in Nat : \E h : h = E(m, h)}
  <2>1. 0 \in T
    <3> DEFINE h == [k \in 0 .. 0 |-> base]
    <3>1. h = E(0, h)
      OBVIOUS
    <3> QED BY <3>1
  <2>2. ASSUME NEW m \in Nat, m \in T PROVE m + 1 \in T
    <3>1. PICK h : h = E(m, h)
      BY <2>2
    <3>0. \A k \in 0 .. m : h[k] = IF k = 0 THEN base ELSE Step(k, h[k - 1])
      BY <3>1
    <3> HIDE DEF E
    <3> DEFINE g == [k \in 0 .. m + 1 |-> IF k = m + 1 THEN Step(m + 1, h[m]) ELSE h[k]]
    <3>2. ASSUME NEW k \in 0 .. m + 1 PROVE g[k] = IF k = 0 THEN base ELSE Step(k, g[k - 1])
      <4>1. /\ k # m + 1 => k \in 0 .. m /\ (k # 0 => k - 1 \in 0 .. m + 1 /\ k - 1 # m + 1)
            /\ k = m + 1 => k # 0 /\ k - 1 = m /\ m \in 0 .. m + 1 /\ m # m + 1
        OBVIOUS
      <4>2. CASE k = m + 1
        BY <4>1, <4>2
      <4>3. CASE k # m + 1
        <5>1. g[k] = h[k] /\ (k # 0 => g[k - 1] = h[k - 1])
          BY <4>1, <4>3
        <5> HIDE DEF g
        <5> QED BY <3>0, <4>1, <4>3, <5>1
      <4> QED BY <4>2, <4>3
    <3> HIDE DEF g
    <3>3. g = E(m + 1, g)
      BY <3>2 DEF g, E
    <3> QED BY <3>3
  <2>3. n \in T
    <3> HIDE DEF T
    <3> QED BY <1>1, <2>1, <2>2, SetInduction
  <2>4. \E h : h = E(n, h)
    BY <2>3
  <2> HIDE DEF E
  <2>5. w = E(n, w)
    BY <2>4
  <2> HIDE DEF w
  <2>6. 0 \in 0 .. n /\ \A k \in 1 .. n : k \in 0 .. n /\ k # 0
    BY <1>1
  <2> QED BY <2>5, <2>6 DEF E
<1> HIDE DEF w
<1>6. Reordered(w, rows, swaps)
  BY <1>5 DEF Step, base, n, Reordered
<1> HIDE DEF base
<1> QED BY <1>2, <1>6 DEF n

\* Sorted so far: the same ids in another order, and the swaps that led to it.
Sorting(q, x) ==
  /\ x.ids \in [1 .. Len(q) -> Nat] /\ ToSet(x.ids) = ToSet(q)
  /\ x.swaps \in Seq((1 .. Len(q)) \X (1 .. Len(q)))
  /\ \A s, r : /\ Len(s) \in Nat /\ Len(s) >= Len(x.swaps)
               /\ \A k \in 1 .. Len(x.swaps) : s[k] = x.swaps[k]
               /\ Reordered(r, q, s)
               => r[Len(x.swaps)] = x.ids

\* Two rows swapped are the same rows.
LEMMA SwapFacts ==
  ASSUME NEW n \in Nat, NEW q \in [1 .. n -> Nat], NEW i \in 1 .. n, NEW j \in 1 .. n
  PROVE  Swap(q, i, j) \in [1 .. n -> Nat] /\ ToSet(Swap(q, i, j)) = ToSet(q)
<1> DEFINE p == Swap(q, i, j)
<1>1. p \in [1 .. n -> Nat] /\ \A k \in 1 .. n : p[k] = IF k = j THEN q[i] ELSE IF k = i THEN q[j] ELSE q[k]
  BY DEF Swap
<1> HIDE DEF p
<1>2. ASSUME NEW k \in 1 .. n PROVE \E m \in 1 .. n : p[k] = q[m]
  BY <1>1
<1>3. ASSUME NEW k \in 1 .. n PROVE \E m \in 1 .. n : q[k] = p[m]
  BY <1>1
<1>4. DOMAIN p = 1 .. n /\ DOMAIN q = 1 .. n
  BY <1>1
<1>5. ToSet(p) = ToSet(q)
  <2>1. ToSet(p) = {p[k] : k \in 1 .. n} /\ ToSet(q) = {q[k] : k \in 1 .. n}
    BY <1>4 DEF ToSet
  <2>2. ToSet(p) \subseteq ToSet(q)
    BY <1>2, <2>1
  <2>3. ToSet(q) \subseteq ToSet(p)
    BY <1>3, <2>1
  <2> QED BY <2>2, <2>3
<1> QED BY <1>1, <1>5 DEF p

\* From every place on there is a smallest id.
LEMMA SmallestFrom ==
  ASSUME NEW n \in Nat, NEW q \in [1 .. n -> Nat], NEW i \in 1 .. n
  PROVE  \E j \in i .. n : \A k \in i .. n : q[j] <= q[k]
<1> DEFINE S == {q[k] : k \in i .. n}
<1>1. i \in i .. n /\ \A k \in i .. n : k \in 1 .. n
  OBVIOUS
<1>2. S \in SUBSET Nat /\ S # {}
  BY <1>1
<1>3. PICK m \in S : \A x \in S : m <= x
  <2> HIDE DEF S
  <2> QED BY <1>2, LeastNatural
<1> QED BY <1>3

\* The sort of the outputs records the swaps it makes.
LEMMA SwapsRecorded ==
  ASSUME NEW q \in Seq(Nat)
  PROVE  Sorting(q, OutputSwaps(q))
<1> DEFINE n == Len(q)
           base == [ids |-> q, swaps |-> <<>>]
           Step(k, d) == LET x == d
                             j == CHOOSE j \in k .. n : \A m \in k .. n : x.ids[j] <= x.ids[m]
                         IN IF j = k THEN x
                            ELSE [ids |-> Swap(x.ids, k, j), swaps |-> Append(x.swaps, <<k, j>>)]
           E(m, h) == [k \in 0 .. m |-> IF k = 0 THEN base ELSE Step(k, h[k - 1])]
           w == CHOOSE h : h = E(n, h)
           Good(k, d) == Sorting(q, d)
<1>1. n \in Nat
  BY LenProperties
<1>2. OutputSwaps(q) = w[n]
  BY DEF OutputSwaps
<1>3. Good(0, base)
  <2>1. q \in [1 .. Len(q) -> Nat]
    BY LenProperties
  <2>2. <<>> \in Seq((1 .. Len(q)) \X (1 .. Len(q))) /\ Len(<<>>) = 0
    BY EmptySeq
  <2> QED BY <2>1, <2>2 DEF Sorting, Reordered
<1>4. ASSUME NEW k \in 1 .. n, NEW d, Good(k - 1, d) PROVE Good(k, Step(k, d))
  <2> DEFINE Q == (1 .. n) \X (1 .. n)
             j == CHOOSE j \in k .. n : \A m \in k .. n : d.ids[j] <= d.ids[m]
             L == Len(d.swaps)
             x == [ids |-> Swap(d.ids, k, j), swaps |-> Append(d.swaps, <<k, j>>)]
  <2>1. d.ids \in [1 .. n -> Nat] /\ ToSet(d.ids) = ToSet(q) /\ d.swaps \in Seq(Q)
    BY <1>4 DEF Sorting
  <2> HIDE DEF n
  <2>2. j \in 1 .. n
    <3>1. j \in k .. n
      BY <1>1, <2>1, SmallestFrom
    <3> QED BY <1>1, <3>1
  <2> HIDE DEF j
  <2>3. <<k, j>> \in Q
    BY <2>2
  <2> HIDE DEF Q
  <2>4. /\ x.swaps \in Seq(Q) /\ L \in Nat /\ Len(x.swaps) = L + 1
        /\ (\A i \in 1 .. L : x.swaps[i] = d.swaps[i]) /\ x.swaps[L + 1] = <<k, j>>
    BY <2>1, <2>3, AppendProperties, LenProperties
  <2>5. x.ids \in [1 .. n -> Nat] /\ ToSet(x.ids) = ToSet(q)
    BY <1>1, <2>1, <2>2, SwapFacts
  <2>6. ASSUME NEW s, NEW r, Len(s) \in Nat, Len(s) >= Len(x.swaps),
               \A i \in 1 .. Len(x.swaps) : s[i] = x.swaps[i], Reordered(r, q, s)
        PROVE  r[Len(x.swaps)] = x.ids
    <3> HIDE DEF x
    <3>1. /\ Len(s) >= L /\ (\A i \in 1 .. L : i \in 1 .. Len(x.swaps)) /\ L + 1 \in 1 .. Len(s)
          /\ L + 1 \in 1 .. Len(x.swaps) /\ (L + 1) - 1 = L
      BY <2>4, <2>6
    <3> HIDE DEF L
    <3>2. \A i \in 1 .. L : s[i] = d.swaps[i]
      BY <2>4, <2>6, <3>1
    <3>3. r[L] = d.ids
      BY <1>4, <2>6, <3>1, <3>2 DEF Sorting, L
    <3>4. r[L + 1] = Swap(r[L], s[L + 1][1], s[L + 1][2])
      BY <2>6, <3>1 DEF Reordered
    <3>5. s[L + 1] = <<k, j>>
      BY <2>4, <2>6, <3>1
    <3>6. s[L + 1][1] = k /\ s[L + 1][2] = j
      BY <3>5
    <3> QED BY <2>4, <3>3, <3>4, <3>6 DEF x
  <2> HIDE DEF x
  <2>7. Sorting(q, x)
    BY <2>4, <2>5, <2>6 DEF Sorting, Q, n
  <2>8. Step(k, d) = IF j = k THEN d ELSE x
    BY DEF x, j
  <2> QED BY <1>4, <2>7, <2>8
<1> HIDE DEF Good, Step, base, n
<1>5. w[0] = base /\ \A k \in 1 .. n : w[k] = Step(k, w[k - 1])
  <2> DEFINE T == {m \in Nat : \E h : h = E(m, h)}
  <2>1. 0 \in T
    <3> DEFINE h == [k \in 0 .. 0 |-> base]
    <3>1. h = E(0, h)
      OBVIOUS
    <3> QED BY <3>1
  <2>2. ASSUME NEW m \in Nat, m \in T PROVE m + 1 \in T
    <3>1. PICK h : h = E(m, h)
      BY <2>2
    <3>0. \A k \in 0 .. m : h[k] = IF k = 0 THEN base ELSE Step(k, h[k - 1])
      BY <3>1
    <3> HIDE DEF E
    <3> DEFINE g == [k \in 0 .. m + 1 |-> IF k = m + 1 THEN Step(m + 1, h[m]) ELSE h[k]]
    <3>2. ASSUME NEW k \in 0 .. m + 1 PROVE g[k] = IF k = 0 THEN base ELSE Step(k, g[k - 1])
      <4>1. /\ k # m + 1 => k \in 0 .. m /\ (k # 0 => k - 1 \in 0 .. m + 1 /\ k - 1 # m + 1)
            /\ k = m + 1 => k # 0 /\ k - 1 = m /\ m \in 0 .. m + 1 /\ m # m + 1
        OBVIOUS
      <4>2. CASE k = m + 1
        BY <4>1, <4>2
      <4>3. CASE k # m + 1
        <5>1. g[k] = h[k] /\ (k # 0 => g[k - 1] = h[k - 1])
          BY <4>1, <4>3
        <5> HIDE DEF g
        <5> QED BY <3>0, <4>1, <4>3, <5>1
      <4> QED BY <4>2, <4>3
    <3> HIDE DEF g
    <3>3. g = E(m + 1, g)
      BY <3>2 DEF g, E
    <3> QED BY <3>3
  <2>3. n \in T
    <3> HIDE DEF T
    <3> QED BY <1>1, <2>1, <2>2, SetInduction
  <2>4. \E h : h = E(n, h)
    BY <2>3
  <2> HIDE DEF E
  <2>5. w = E(n, w)
    BY <2>4
  <2> HIDE DEF w
  <2>6. 0 \in 0 .. n /\ \A k \in 1 .. n : k \in 0 .. n /\ k # 0
    BY <1>1
  <2> QED BY <2>5, <2>6 DEF E
<1> HIDE DEF w
<1> DEFINE S == {k \in 0 .. n : Good(k, w[k])}
<1>6. 0 \in S
  BY <1>1, <1>3, <1>5
<1>7. \A k \in 1 .. n : k - 1 \in S => k \in S
  BY <1>1, <1>4, <1>5
<1> HIDE DEF S
<1>8. n \in S
  <2>1. \A k \in 0 .. n : k \in S
    BY <1>1, <1>6, <1>7, FiniteInduction
  <2> QED BY <1>1, <2>1
<1>9. Good(n, OutputSwaps(q))
  BY <1>2, <1>8 DEF S
<1> QED
  BY <1>9 DEF Good, n

\* Each output is found where the caller looks for it: the row of a token is the row
\* that was computed for it, in whatever order the tokens were computed.
THEOREM LogitsInPlace ==
  ASSUME NEW q \in Seq(Nat), NEW t \in ToSet(q)
  PROVE  LogitsOf(q)[t] = t
<1> DEFINE x == OutputSwaps(q)
           i == CHOOSE i \in DOMAIN q : x.ids[i] = t
<1>1. Sorting(q, x)
  BY SwapsRecorded
<1>2. x.ids \in [1 .. Len(q) -> Nat] /\ DOMAIN q = 1 .. Len(q) /\ Len(x.swaps) \in Nat
  BY <1>1, LenProperties DEF Sorting
<1>3. x.ids[i] = t
  <2>1. ToSet(x.ids) = ToSet(q)
    BY <1>1 DEF Sorting
  <2>2. \E m \in DOMAIN q : x.ids[m] = t
    BY <1>2, <2>1 DEF ToSet
  <2> QED BY <2>2
<1>4. OutputIds(q)[t] = i
  BY DEF OutputIds
<1> HIDE DEF x, i
<1>5. output_reorder(q, x.swaps) = x.ids
  <2>1. PICK r : output_reorder(q, x.swaps) = r[Len(x.swaps)] /\ Reordered(r, q, x.swaps)
    BY <1>2, ReorderUnfolds
  <2>2. r[Len(x.swaps)] = x.ids
    <3>1. Len(x.swaps) >= Len(x.swaps)
      BY <1>2
    <3>2. \A s, r0 : /\ Len(s) \in Nat /\ Len(s) >= Len(x.swaps)
                     /\ \A k \in 1 .. Len(x.swaps) : s[k] = x.swaps[k]
                     /\ Reordered(r0, q, s)
                     => r0[Len(x.swaps)] = x.ids
      BY <1>1 DEF Sorting
    <3> QED BY <1>2, <2>1, <3>1, <3>2, Zenon
  <2> QED BY <2>1, <2>2
<1> QED BY <1>3, <1>4, <1>5 DEF LogitsOf, x

-----------------------------------------------------------------------------
(***************************************************************************)
(* Whatever the next micro-batch is taken from the unused tokens by, if it *)
(* takes none before those that go before it, the splits of a batch do.    *)
(***************************************************************************)
Once(q) == \A i, j \in DOMAIN q : i # j => q[i] # q[j]

\* R has the pairs of tokens of which the first is to be computed before the second.
Before(R, q)    == \A i, j \in DOMAIN q : i < j => <<q[j], q[i]>> \notin R
Closed(R, taken) == \A x, y : <<x, y>> \in R /\ y \in taken => x \in taken

\* The parts of a micro-batch are equally long and each of one sequence set.
Parts(b, u) ==
  LET m == Len(u.idxs) \div u.n_seqs
  IN /\ m * u.n_seqs = Len(u.idxs)
     /\ \A x \in DOMAIN u.idxs :
          SeqSet(b[u.idxs[x]]) = SeqSet(b[u.idxs[((x - 1) \div m) * m + 1]])

MicroBatches(N) == [idxs : Seq(1 .. N), n_seqs : Nat \ {0}]

\* u is what a split may take when these tokens were taken so far.
Takes(b, R, taken, u) ==
  /\ u \in MicroBatches(Len(b)) /\ ToSet(u.idxs) \cap taken = {}
  /\ u.idxs = <<>> => taken = 1 .. Len(b)
  /\ Once(u.idxs) /\ Before(R, u.idxs)
  /\ Closed(R, taken \cup ToSet(u.idxs))
  /\ Parts(b, u)

\* What is concatenated is what is in one or the other.
LEMMA ConcatFacts ==
  ASSUME NEW S, NEW p \in Seq(S), NEW q \in Seq(S)
  PROVE  /\ p \o q \in Seq(S) /\ Len(p) \in Nat /\ Len(q) \in Nat
         /\ DOMAIN p = 1 .. Len(p) /\ DOMAIN q = 1 .. Len(q) /\ DOMAIN (p \o q) = 1 .. Len(p) + Len(q)
         /\ \A i \in DOMAIN p : (p \o q)[i] = p[i]
         /\ \A i \in DOMAIN q : (p \o q)[Len(p) + i] = q[i]
         /\ \A i \in 1 .. Len(p) + Len(q) : i \in DOMAIN p \/ (i > Len(p) /\ i - Len(p) \in DOMAIN q)
         /\ ToSet(p \o q) = ToSet(p) \cup ToSet(q)
<1> DEFINE r == p \o q
<1>1. /\ r \in Seq(S) /\ Len(p) \in Nat /\ Len(q) \in Nat /\ Len(r) = Len(p) + Len(q)
      /\ DOMAIN p = 1 .. Len(p) /\ DOMAIN q = 1 .. Len(q) /\ DOMAIN r = 1 .. Len(r)
      /\ \A i \in 1 .. Len(p) + Len(q) : r[i] = IF i <= Len(p) THEN p[i] ELSE q[i - Len(p)]
  BY ConcatProperties, LenProperties
<1> HIDE DEF r
<1>2. \A i \in DOMAIN p : i \in 1 .. Len(p) + Len(q) /\ r[i] = p[i]
  BY <1>1
<1>3. \A i \in DOMAIN q : Len(p) + i \in 1 .. Len(p) + Len(q) /\ r[Len(p) + i] = q[i]
  BY <1>1
<1>4. \A i \in 1 .. Len(p) + Len(q) : i \in DOMAIN p \/ (i > Len(p) /\ i - Len(p) \in DOMAIN q)
  BY <1>1
<1>5. ASSUME NEW i \in DOMAIN r PROVE r[i] \in ToSet(p) \cup ToSet(q)
  <2>1. CASE i \in DOMAIN p
    BY <1>2, <2>1 DEF ToSet
  <2>2. CASE i > Len(p) /\ i - Len(p) \in DOMAIN q
    <3>1. Len(p) + (i - Len(p)) = i
      BY <1>1
    <3>2. r[i] = q[i - Len(p)]
      BY <1>3, <2>2, <3>1
    <3> QED BY <2>2, <3>2 DEF ToSet
  <2> QED BY <1>1, <1>4, <2>1, <2>2
<1>6. ToSet(r) \subseteq ToSet(p) \cup ToSet(q)
  BY <1>5 DEF ToSet
<1>7. ToSet(p) \subseteq ToSet(r)
  BY <1>1, <1>2 DEF ToSet
<1>8. ToSet(q) \subseteq ToSet(r)
  <2> SUFFICES ASSUME NEW i \in DOMAIN q PROVE q[i] \in ToSet(r)
    BY DEF ToSet
  <2>1. Len(p) + i \in DOMAIN r /\ r[Len(p) + i] = q[i]
    BY <1>1, <1>3
  <2> QED BY <2>1 DEF ToSet
<1> QED BY <1>1, <1>2, <1>3, <1>4, <1>6, <1>7, <1>8 DEF r

\* As many places as elements.
LEMMA OnceFacts ==
  ASSUME NEW N \in Nat, NEW q \in Seq(1 .. N), Once(q)
  PROVE  /\ Len(q) \in Nat /\ Len(q) <= N
         /\ (Len(q) >= N <=> ToSet(q) = 1 .. N)
<1> DEFINE n == Len(q)
<1>1. n \in Nat /\ q \in [1 .. n -> 1 .. N] /\ DOMAIN q = 1 .. n
  BY LenProperties
<1> HIDE DEF n
<1>2. IsFiniteSet(1 .. n) /\ Cardinality(1 .. n) = n
  BY <1>1, FS_Interval
<1>3. IsFiniteSet(1 .. N) /\ Cardinality(1 .. N) = N
  BY FS_Interval
<1>4. ToSet(q) \subseteq 1 .. N
  BY <1>1 DEF ToSet
<1>5. IsFiniteSet(ToSet(q)) /\ Cardinality(ToSet(q)) <= N /\ (Cardinality(ToSet(q)) = N => ToSet(q) = 1 .. N)
  BY <1>3, <1>4, FS_Subset
<1>6. Cardinality(ToSet(q)) = n
  <2>1. q \in [1 .. n -> ToSet(q)]
    BY <1>1 DEF ToSet
  <2>2. q \in Bijection(1 .. n, ToSet(q))
    BY <1>1, <2>1 DEF Bijection, Injection, Surjection, IsInjective, Once, ToSet
  <2>3. ExistsBijection(1 .. n, ToSet(q))
    BY <2>2 DEF ExistsBijection
  <2> QED BY <1>2, <2>3, FS_Bijection
<1>7. n <= N /\ (n >= N <=> n = N)
  BY <1>1, <1>5, <1>6
<1>8. n = N <=> ToSet(q) = 1 .. N
  BY <1>3, <1>5, <1>6
<1> QED BY <1>1, <1>7, <1>8 DEF n

\* What a sequence of sequences is put together from.
Flattens(f, s) == f[1] = s[1] /\ \A i \in 2 .. Len(s) : f[i] = f[i - 1] \o s[i]

\* It is put together from the left.
LEMMA FlattenUnfolds ==
  ASSUME NEW s, Len(s) \in Nat \ {0}
  PROVE  \E f : FlattenSeq(s) = f[Len(s)] /\ Flattens(f, s)
<1> DEFINE n == Len(s)
           E(m, h) == [i \in 1 .. m |-> IF i = 1 THEN s[i] ELSE h[i - 1] \o s[i]]
           w == CHOOSE h : h = E(n, h)
<1>1. FlattenSeq(s) = w[n]
  BY DEF FlattenSeq
<1> HIDE DEF n
<1>2. n \in Nat \ {0}
  BY DEF n
<1> DEFINE T == {m \in Nat : \E h : h = E(m, h)}
<1>3. 0 \in T
  <2> DEFINE h == [i \in 1 .. 0 |-> s[1]]
  <2>1. h = E(0, h)
    OBVIOUS
  <2> QED BY <2>1
<1>4. ASSUME NEW m \in Nat, m \in T PROVE m + 1 \in T
  <2>1. PICK h : h = E(m, h)
    BY <1>4
  <2>2. \A i \in 1 .. m : h[i] = IF i = 1 THEN s[i] ELSE h[i - 1] \o s[i]
    BY <2>1
  <2> HIDE DEF E
  <2> DEFINE g == [i \in 1 .. m + 1 |-> IF i = 1 THEN s[1] ELSE h[i - 1] \o s[i]]
  <2>3. ASSUME NEW i \in 1 .. m + 1 PROVE g[i] = IF i = 1 THEN s[i] ELSE g[i - 1] \o s[i]
    <3>1. CASE i = 1
      BY <3>1
    <3>2. CASE i # 1
      <4>1. i - 1 \in 1 .. m /\ i - 1 \in 1 .. m + 1
        BY <3>2
      <4>2. g[i - 1] = h[i - 1]
        BY <2>2, <4>1
      <4> QED BY <3>2, <4>2
    <3> QED BY <3>1, <3>2
  <2> HIDE DEF g
  <2>4. g = E(m + 1, g)
    BY <2>3 DEF g, E
  <2> QED BY <2>4
<1>5. n \in T
  <2> HIDE DEF T
  <2> QED BY <1>2, <1>3, <1>4, SetInduction
<1>6. \E h : h = E(n, h)
  BY <1>5
<1> HIDE DEF E
<1>7. w = E(n, w)
  BY <1>6
<1> HIDE DEF w
<1>8. Flattens(w, s)
  <2>1. 1 \in 1 .. n /\ \A i \in 2 .. n : i \in 1 .. n /\ i # 1
    BY <1>2
  <2>2. w[1] = s[1] /\ \A i \in 2 .. n : w[i] = w[i - 1] \o s[i]
    BY <1>7, <2>1 DEF E
  <2> QED BY <2>2 DEF Flattens, n
<1> QED BY <1>1, <1>8 DEF n

\* A micro-batch more: its tokens are computed last.
LEMMA OrderAppend ==
  ASSUME NEW N \in Nat, NEW us \in Seq(MicroBatches(N)), NEW u \in MicroBatches(N)
  PROVE  /\ ComputedOrder(<<>>) = <<>>
         /\ ComputedOrder(Append(us, u)) = IF us = <<>> THEN u.idxs ELSE ComputedOrder(us) \o u.idxs
<1>0. ComputedOrder(<<>>) = <<>>
  <2>1. Len(<<>>) = 0 /\ [k \in DOMAIN <<>> |-> (<<>>)[k].idxs] = <<>>
    OBVIOUS
  <2> QED BY <2>1 DEF ComputedOrder, FlattenSeq
<1> DEFINE a == Append(us, u)
           n == Len(us)
           s == [k \in DOMAIN us |-> us[k].idxs]
           t == [k \in DOMAIN a |-> a[k].idxs]
<1>1. /\ n \in Nat /\ DOMAIN us = 1 .. n /\ DOMAIN a = 1 .. n + 1
      /\ (\A k \in 1 .. n : a[k] = us[k]) /\ a[n + 1] = u /\ (us = <<>> <=> n = 0)
  BY AppendFacts, EmptySeq
<1> HIDE DEF a, n
<1>2. /\ s = [k \in 1 .. n |-> us[k].idxs] /\ Len(s) = n
      /\ t = [k \in 1 .. n + 1 |-> a[k].idxs] /\ Len(t) = n + 1
      /\ (\A k \in 1 .. n : t[k] = s[k]) /\ t[n + 1] = u.idxs
  <2>1. s = [k \in 1 .. n |-> us[k].idxs] /\ t = [k \in 1 .. n + 1 |-> a[k].idxs]
    BY <1>1
  <2> HIDE DEF s, t
  <2>2. n + 1 \in Nat /\ n + 1 \in 1 .. n + 1 /\ 1 .. n \subseteq 1 .. n + 1
    BY <1>1
  <2>3. Len(s) = n
    BY <1>1, <2>1
  <2>4. Len(t) = n + 1
    BY <2>1, <2>2
  <2> QED BY <1>1, <2>1, <2>2, <2>3, <2>4
<1>3. ComputedOrder(us) = FlattenSeq(s) /\ ComputedOrder(a) = FlattenSeq(t)
  BY DEF ComputedOrder
<1> HIDE DEF s, t
<1>4. PICK g : FlattenSeq(t) = g[n + 1] /\ Flattens(g, t)
  <2>1. Len(t) \in Nat \ {0}
    BY <1>1, <1>2
  <2> QED BY <1>2, <2>1, FlattenUnfolds
<1>5. CASE n = 0
  <2>1. us = <<>> /\ n + 1 = 1
    BY <1>1, <1>5
  <2>2. ComputedOrder(a) = u.idxs
    BY <1>2, <1>3, <1>4, <2>1 DEF Flattens
  <2> QED BY <1>0, <2>1, <2>2 DEF a
<1>6. CASE n # 0
  <2>1. PICK f : FlattenSeq(s) = f[n] /\ Flattens(f, s)
    <3>1. Len(s) \in Nat \ {0}
      BY <1>1, <1>2, <1>6
    <3> QED BY <1>2, <3>1, FlattenUnfolds
  <2> DEFINE T == {k \in 0 .. n : k # 0 => f[k] = g[k]}
  <2>2. 0 \in T
    BY <1>1
  <2>3. ASSUME NEW k \in 1 .. n, k - 1 \in T PROVE k \in T
    <3>1. CASE k = 1
      BY <1>1, <1>2, <1>4, <2>1, <3>1 DEF Flattens
    <3>2. CASE k # 1
      <4>1. k \in 2 .. n /\ k \in 2 .. n + 1
        BY <1>1, <3>2
      <4>2. f[k] = f[k - 1] \o s[k] /\ g[k] = g[k - 1] \o t[k]
        BY <1>2, <1>4, <2>1, <4>1 DEF Flattens
      <4>3. f[k - 1] = g[k - 1]
        BY <2>3, <4>1
      <4>4. t[k] = s[k] /\ k \in 0 .. n
        BY <1>1, <1>2
      <4>5. f[k] = g[k]
        BY <4>2, <4>3, <4>4
      <4> QED BY <4>4, <4>5
    <3> QED BY <3>1, <3>2
  <2> HIDE DEF T
  <2>4. n \in T
    <3>1. \A k \in 0 .. n : k \in T
      BY <1>1, <2>2, <2>3, FiniteInduction
    <3> QED BY <1>1, <3>1
  <2>5. f[n] = g[n]
    BY <1>6, <2>4 DEF T
  <2>6. g[n + 1] = g[n] \o t[n + 1]
    <3>1. n + 1 \in 2 .. Len(t) /\ (n + 1) - 1 = n
      BY <1>1, <1>2, <1>6
    <3> QED BY <1>4, <3>1 DEF Flattens
  <2>7. ComputedOrder(a) = ComputedOrder(us) \o u.idxs
    BY <1>2, <1>3, <1>4, <2>1, <2>5, <2>6
  <2>8. us # <<>>
    BY <1>1, <1>6
  <2> QED BY <1>0, <2>7, <2>8 DEF a
<1> QED BY <1>1, <1>5, <1>6

\* The tokens in the micro-batches so far.
Used(q) == UNION {ToSet(q[k].idxs) : k \in DOMAIN q}

\* The micro-batches q are made, and so far nothing is wrong.
Progress(b, R, q) ==
  LET o == ComputedOrder(q)
  IN /\ q \in Seq(MicroBatches(Len(b))) /\ o \in Seq(1 .. Len(b))
     /\ Used(q) = ToSet(o) /\ Once(o) /\ Before(R, o) /\ Closed(R, ToSet(o))
     /\ \A k \in DOMAIN q : Parts(b, q[k])

\* One more is made.
LEMMA ProgressExtends ==
  ASSUME NEW b, Len(b) \in Nat, NEW R, NEW q, Progress(b, R, q),
         NEW u, Takes(b, R, Used(q), u), u.idxs # <<>>
  PROVE  /\ Progress(b, R, Append(q, u))
         /\ Len(ComputedOrder(q)) \in Nat /\ Len(ComputedOrder(Append(q, u))) \in Nat
         /\ Len(ComputedOrder(Append(q, u))) >= Len(ComputedOrder(q)) + 1
<1> DEFINE N == Len(b)
           o == ComputedOrder(q)
           a == Append(q, u)
           p == ComputedOrder(a)
<1>1. /\ q \in Seq(MicroBatches(N)) /\ o \in Seq(1 .. N)
      /\ Used(q) = ToSet(o) /\ Once(o) /\ Before(R, o) /\ Closed(R, ToSet(o))
      /\ \A k \in DOMAIN q : Parts(b, q[k])
  BY DEF Progress
<1>2. /\ u \in MicroBatches(N) /\ ToSet(u.idxs) \cap ToSet(o) = {} /\ Once(u.idxs) /\ Before(R, u.idxs)
      /\ Closed(R, ToSet(o) \cup ToSet(u.idxs)) /\ Parts(b, u)
  BY <1>1 DEF Takes
<1>3. u.idxs \in Seq(1 .. N)
  BY <1>2 DEF MicroBatches
<1>4. /\ a \in Seq(MicroBatches(N)) /\ Len(q) \in Nat
      /\ DOMAIN q = 1 .. Len(q) /\ DOMAIN a = 1 .. Len(q) + 1
      /\ (\A k \in DOMAIN q : a[k] = q[k]) /\ a[Len(q) + 1] = u
  BY <1>1, <1>2, AppendFacts
<1>5. p = o \o u.idxs
  <2>1. ComputedOrder(<<>>) = <<>> /\ p = IF q = <<>> THEN u.idxs ELSE o \o u.idxs
    BY <1>1, <1>2, OrderAppend
  <2>2. <<>> \o u.idxs = u.idxs
    BY <1>3, ConcatEmptySeq
  <2> QED BY <2>1, <2>2
<1>6. /\ p \in Seq(1 .. N) /\ Len(o) \in Nat /\ Len(u.idxs) \in Nat
      /\ DOMAIN o = 1 .. Len(o) /\ DOMAIN u.idxs = 1 .. Len(u.idxs) /\ DOMAIN p = 1 .. Len(o) + Len(u.idxs)
      /\ (\A i \in DOMAIN o : p[i] = o[i]) /\ (\A i \in DOMAIN u.idxs : p[Len(o) + i] = u.idxs[i])
      /\ \A i \in 1 .. Len(o) + Len(u.idxs) : i \in DOMAIN o \/ (i > Len(o) /\ i - Len(o) \in DOMAIN u.idxs)
      /\ ToSet(p) = ToSet(o) \cup ToSet(u.idxs)
  <2> DEFINE r == o \o u.idxs
  <2> HIDE DEF o, p
  <2>1. /\ r \in Seq(1 .. N) /\ Len(o) \in Nat /\ Len(u.idxs) \in Nat
        /\ DOMAIN o = 1 .. Len(o) /\ DOMAIN u.idxs = 1 .. Len(u.idxs) /\ DOMAIN r = 1 .. Len(o) + Len(u.idxs)
        /\ (\A i \in DOMAIN o : r[i] = o[i]) /\ (\A i \in DOMAIN u.idxs : r[Len(o) + i] = u.idxs[i])
        /\ \A i \in 1 .. Len(o) + Len(u.idxs) : i \in DOMAIN o \/ (i > Len(o) /\ i - Len(o) \in DOMAIN u.idxs)
        /\ ToSet(r) = ToSet(o) \cup ToSet(u.idxs)
    BY <1>1, <1>3, ConcatFacts, SMTT(40)
  <2> HIDE DEF r
  <2>2. r = p
    BY <1>5 DEF r
  <2> QED BY <2>1, <2>2
<1>7. Used(a) = ToSet(p)
  <2>1. Used(a) = Used(q) \cup ToSet(u.idxs)
    <3>1. \A k \in DOMAIN a : k \in DOMAIN q \/ k = Len(q) + 1
      BY <1>4
    <3>2. DOMAIN q \subseteq DOMAIN a /\ Len(q) + 1 \in DOMAIN a
      BY <1>4
    <3>3. Used(a) \subseteq Used(q) \cup ToSet(u.idxs)
      BY <1>4, <3>1 DEF Used
    <3>4. Used(q) \subseteq Used(a) /\ ToSet(u.idxs) \subseteq Used(a)
      BY <1>4, <3>2 DEF Used
    <3> QED BY <3>3, <3>4
  <2> QED BY <1>1, <1>6, <2>1
<1> HIDE DEF a, p, o, N
<1>8. \A i \in DOMAIN p : \/ i \in DOMAIN o /\ p[i] = o[i] /\ o[i] \in ToSet(o)
                          \/ /\ i > Len(o) /\ i - Len(o) \in DOMAIN u.idxs /\ p[i] = u.idxs[i - Len(o)]
                             /\ u.idxs[i - Len(o)] \in ToSet(u.idxs)
  <2> TAKE i \in DOMAIN p
  <2>1. CASE i \in DOMAIN o
    BY <1>6, <2>1 DEF ToSet
  <2>2. CASE i > Len(o) /\ i - Len(o) \in DOMAIN u.idxs
    <3>1. Len(o) + (i - Len(o)) = i
      BY <1>6
    <3>2. p[i] = u.idxs[i - Len(o)]
      BY <1>6, <2>2, <3>1
    <3> QED BY <2>2, <3>2 DEF ToSet
  <2> QED BY <1>6, <2>1, <2>2
<1>9. Once(p)
  <2> SUFFICES ASSUME NEW i \in DOMAIN p, NEW j \in DOMAIN p, i # j PROVE p[i] # p[j]
    BY DEF Once
  <2>1. CASE i \in DOMAIN o /\ j \in DOMAIN o
    BY <1>1, <1>6, <2>1 DEF Once
  <2>2. CASE i > Len(o) /\ i - Len(o) \in DOMAIN u.idxs /\ j > Len(o) /\ j - Len(o) \in DOMAIN u.idxs
    <3>1. i - Len(o) # j - Len(o)
      BY <1>6
    <3>0. i \notin DOMAIN o /\ j \notin DOMAIN o
      BY <1>6, <2>2
    <3>2. p[i] = u.idxs[i - Len(o)] /\ p[j] = u.idxs[j - Len(o)]
      BY <1>8, <3>0
    <3> QED BY <1>2, <2>2, <3>1, <3>2 DEF Once
  <2>3. CASE p[i] \in ToSet(o) /\ p[j] \in ToSet(u.idxs)
    BY <1>2, <2>3
  <2>4. CASE p[j] \in ToSet(o) /\ p[i] \in ToSet(u.idxs)
    BY <1>2, <2>4
  <2> QED BY <1>8, <2>1, <2>2, <2>3, <2>4
<1>10. Before(R, p)
  <2> SUFFICES ASSUME NEW i \in DOMAIN p, NEW j \in DOMAIN p, i < j, <<p[j], p[i]>> \in R PROVE FALSE
    BY DEF Before
  <2>1. CASE i \in DOMAIN o /\ j \in DOMAIN o
    BY <1>1, <1>6, <2>1 DEF Before
  <2>2. CASE i > Len(o) /\ i - Len(o) \in DOMAIN u.idxs /\ j > Len(o) /\ j - Len(o) \in DOMAIN u.idxs
    <3>1. i - Len(o) < j - Len(o)
      BY <1>6
    <3>0. i \notin DOMAIN o /\ j \notin DOMAIN o
      BY <1>6, <2>2
    <3>2. p[i] = u.idxs[i - Len(o)] /\ p[j] = u.idxs[j - Len(o)]
      BY <1>8, <3>0
    <3> QED BY <1>2, <2>2, <3>1, <3>2 DEF Before
  <2>3. CASE p[i] \in ToSet(o) /\ p[j] \in ToSet(u.idxs)
    <3>1. p[j] \in ToSet(o)
      BY <1>1, <2>3 DEF Closed
    <3> QED BY <1>2, <2>3, <3>1
  <2>4. CASE i > Len(o) /\ j \in DOMAIN o
    BY <1>6, <2>4
  <2> QED BY <1>8, <2>1, <2>2, <2>3, <2>4
<1>11. \A k \in DOMAIN a : Parts(b, a[k])
  BY <1>1, <1>2, <1>4
<1>12. Closed(R, ToSet(p))
  BY <1>2, <1>6
<1>13. Progress(b, R, a)
  BY <1>4, <1>6, <1>7, <1>9, <1>10, <1>11, <1>12 DEF Progress, p, N
<1>14. Len(p) \in Nat /\ Len(p) >= Len(o) + 1
  <2>1. Len(u.idxs) # 0
    BY <1>3, EmptySeq
  <2>2. Len(p) = Len(o) + Len(u.idxs)
    BY <1>1, <1>3, <1>5, ConcatProperties
  <2> QED BY <1>6, <2>1, <2>2
<1> QED BY <1>6, <1>13, <1>14 DEF a, p, o

\* The next micro-batch.
NextSplit(b, n_ubatch, mode, taken) ==
  CASE mode = "simple"     -> split_simple(b, taken, n_ubatch)
    [] mode = "equal"      -> split_equal(b, taken, n_ubatch, FALSE)
    [] mode = "sequential" -> split_equal(b, taken, n_ubatch, TRUE)
    [] mode = "seq"        -> split_seq(b, taken, n_ubatch)

\* When they are made, all tokens are computed, each once and in an order that R allows.
InSplits(b, R, us) ==
  LET o == ComputedOrder(us)
  IN /\ us \in Seq(MicroBatches(Len(b))) /\ o \in Seq(1 .. Len(b))
     /\ Len(o) = Len(b) /\ ToSet(o) = 1 .. Len(b) /\ Once(o) /\ Before(R, o)
     /\ \A k \in DOMAIN us : Parts(b, us[k])

\* Taking such micro-batches splits the whole batch.
LEMMA SplitsFacts ==
  ASSUME NEW b, Len(b) \in Nat, NEW R, NEW n_ubatch, NEW mode,
         \A taken \in SUBSET (1 .. Len(b)) :
           Closed(R, taken) => Takes(b, R, taken, NextSplit(b, n_ubatch, mode, taken))
  PROVE  InSplits(b, R, Splits(b, n_ubatch, mode))
<1> DEFINE n == Len(b)
           base == <<>>
           Step(k, d) == Extended(d, NextSplit(b, n_ubatch, mode, Used(d)))
           E(m, h) == [k \in 0 .. m |-> IF k = 0 THEN base ELSE Step(k, h[k - 1])]
           w == CHOOSE h : h = E(n, h)
           Good(k, d) == /\ Progress(b, R, d) /\ Len(ComputedOrder(d)) \in Nat
                         /\ ToSet(ComputedOrder(d)) = 1 .. Len(b) \/ Len(ComputedOrder(d)) >= k
<1>1. n \in Nat
  OBVIOUS
<1>2. Splits(b, n_ubatch, mode) = w[n]
  BY DEF Splits, Used, NextSplit
<1>3. Good(0, base)
  <2>1. ComputedOrder(<<>>) = <<>>
    BY DEF ComputedOrder, FlattenSeq
  <2>2. /\ <<>> \in Seq(1 .. Len(b)) /\ <<>> \in Seq(MicroBatches(Len(b)))
        /\ DOMAIN <<>> = {} /\ ToSet(<<>>) = {} /\ Len(<<>>) = 0
    BY DEF ToSet
  <2>3. Used(<<>>) = {}
    BY <2>2 DEF Used
  <2>4. Once(<<>>) /\ Before(R, <<>>) /\ Closed(R, {})
    BY <2>2 DEF Once, Before, Closed
  <2>5. Progress(b, R, <<>>)
    BY <2>1, <2>2, <2>3, <2>4 DEF Progress
  <2> QED BY <2>1, <2>2, <2>5
<1>4. ASSUME NEW k \in 1 .. n, NEW d, Good(k - 1, d) PROVE Good(k, Step(k, d))
  <2> DEFINE o == ComputedOrder(d)
             u == NextSplit(b, n_ubatch, mode, Used(d))
  <2>1. Progress(b, R, d) /\ Len(o) \in Nat /\ (ToSet(o) = 1 .. Len(b) \/ Len(o) >= k - 1)
    BY <1>4
  <2>2. o \in Seq(1 .. Len(b)) /\ Used(d) = ToSet(o) /\ Closed(R, ToSet(o))
    BY <2>1 DEF Progress
  <2>3. ToSet(o) \in SUBSET (1 .. Len(b))
    BY <2>2, LenProperties DEF ToSet
  <2>4. Takes(b, R, Used(d), u)
    BY <2>2, <2>3
  <2> HIDE DEF u
  <2>5. Step(k, d) = IF u.idxs = <<>> THEN d ELSE Append(d, u)
    BY DEF Extended, u
  <2>6. CASE u.idxs = <<>>
    <3>1. ToSet(o) = 1 .. Len(b)
      BY <2>2, <2>4, <2>6 DEF Takes
    <3> QED BY <2>1, <2>5, <2>6, <3>1
  <2>7. CASE u.idxs # <<>>
    <3> DEFINE p == ComputedOrder(Append(d, u))
    <3>1. Progress(b, R, Append(d, u)) /\ Len(p) \in Nat /\ Len(p) >= Len(o) + 1
      BY <2>1, <2>4, <2>7, ProgressExtends
    <3>2. ToSet(o) = 1 .. Len(b) => ToSet(p) = 1 .. Len(b)
      <4>1. d \in Seq(MicroBatches(Len(b))) /\ u \in MicroBatches(Len(b))
        BY <2>1, <2>4 DEF Progress, Takes
      <4>2. p = IF d = <<>> THEN u.idxs ELSE o \o u.idxs
        BY <4>1, OrderAppend
      <4>3. ComputedOrder(<<>>) = <<>> /\ ToSet(<<>>) = {}
        BY <4>1, OrderAppend DEF ToSet
      <4>4. u.idxs \in Seq(1 .. Len(b))
        BY <4>1 DEF MicroBatches
      <4>5. p \in Seq(1 .. Len(b)) /\ (d # <<>> => ToSet(p) = ToSet(o) \cup ToSet(u.idxs))
        BY <2>2, <3>1, <4>2, <4>4, ConcatFacts DEF Progress
      <4>6. d = <<>> => ToSet(o) = {}
        BY <4>3
      <4>7. ToSet(p) \subseteq 1 .. Len(b)
        BY <4>5, LenProperties DEF ToSet
      <4>8. CASE d = <<>>
        BY <4>6, <4>7, <4>8
      <4>9. CASE d # <<>>
        BY <4>5, <4>7, <4>9
      <4> QED BY <4>8, <4>9
    <3>3. Len(o) >= k - 1 => Len(p) >= k
      BY <2>1, <3>1
    <3> HIDE DEF o, p
    <3>4. ToSet(p) = 1 .. Len(b) \/ Len(p) >= k
      BY <2>1, <3>2, <3>3
    <3> QED BY <2>5, <2>7, <3>1, <3>4 DEF p
  <2> QED BY <2>6, <2>7
<1> HIDE DEF Good, Step, base, n
<1>5. w[0] = base /\ \A k \in 1 .. n : w[k] = Step(k, w[k - 1])
  <2> DEFINE T == {m \in Nat : \E h : h = E(m, h)}
  <2>1. 0 \in T
    <3> DEFINE h == [k \in 0 .. 0 |-> base]
    <3>1. h = E(0, h)
      OBVIOUS
    <3> QED BY <3>1
  <2>2. ASSUME NEW m \in Nat, m \in T PROVE m + 1 \in T
    <3>1. PICK h : h = E(m, h)
      BY <2>2
    <3>0. \A k \in 0 .. m : h[k] = IF k = 0 THEN base ELSE Step(k, h[k - 1])
      BY <3>1
    <3> HIDE DEF E
    <3> DEFINE g == [k \in 0 .. m + 1 |-> IF k = m + 1 THEN Step(m + 1, h[m]) ELSE h[k]]
    <3>2. ASSUME NEW k \in 0 .. m + 1 PROVE g[k] = IF k = 0 THEN base ELSE Step(k, g[k - 1])
      <4>1. /\ k # m + 1 => k \in 0 .. m /\ (k # 0 => k - 1 \in 0 .. m + 1 /\ k - 1 # m + 1)
            /\ k = m + 1 => k # 0 /\ k - 1 = m /\ m \in 0 .. m + 1 /\ m # m + 1
        OBVIOUS
      <4>2. CASE k = m + 1
        BY <4>1, <4>2
      <4>3. CASE k # m + 1
        <5>1. g[k] = h[k] /\ (k # 0 => g[k - 1] = h[k - 1])
          BY <4>1, <4>3
        <5> HIDE DEF g
        <5> QED BY <3>0, <4>1, <4>3, <5>1
      <4> QED BY <4>2, <4>3
    <3> HIDE DEF g
    <3>3. g = E(m + 1, g)
      BY <3>2 DEF g, E
    <3> QED BY <3>3
  <2>3. n \in T
    <3> HIDE DEF T
    <3> QED BY <1>1, <2>1, <2>2, SetInduction
  <2>4. \E h : h = E(n, h)
    BY <2>3
  <2> HIDE DEF E
  <2>5. w = E(n, w)
    BY <2>4
  <2> HIDE DEF w
  <2>6. 0 \in 0 .. n /\ \A k \in 1 .. n : k \in 0 .. n /\ k # 0
    BY <1>1
  <2> QED BY <2>5, <2>6 DEF E
<1> HIDE DEF w
<1> DEFINE S == {k \in 0 .. n : Good(k, w[k])}
<1>6. 0 \in S
  BY <1>1, <1>3, <1>5
<1>7. \A k \in 1 .. n : k - 1 \in S => k \in S
  BY <1>1, <1>4, <1>5
<1> HIDE DEF S
<1>8. n \in S
  <2>1. \A k \in 0 .. n : k \in S
    BY <1>1, <1>6, <1>7, FiniteInduction
  <2> QED BY <1>1, <2>1
<1>9. Good(n, Splits(b, n_ubatch, mode))
  BY <1>2, <1>8 DEF S
<1> QED
  <2> DEFINE us == Splits(b, n_ubatch, mode)
             o == ComputedOrder(us)
  <2>1. Progress(b, R, us) /\ (ToSet(o) = 1 .. Len(b) \/ Len(o) >= Len(b))
    BY <1>9 DEF Good, n
  <2>2. /\ us \in Seq(MicroBatches(Len(b))) /\ o \in Seq(1 .. Len(b)) /\ Once(o) /\ Before(R, o)
        /\ \A k \in DOMAIN us : Parts(b, us[k])
    BY <2>1 DEF Progress
  <2> HIDE DEF us
  <2>3. Len(o) = Len(b) /\ ToSet(o) = 1 .. Len(b)
    <3>1. /\ Len(o) \in Nat /\ Len(o) <= Len(b)
          /\ (Len(o) >= Len(b) <=> ToSet(o) = 1 .. Len(b))
      BY <2>2, OnceFacts
    <3> QED BY <2>1, <3>1
  <2> QED BY <2>2, <2>3 DEF InSplits, us

-----------------------------------------------------------------------------
(***************************************************************************)
(* The three ways to split.                                                *)
(***************************************************************************)
\* A batch, each of its tokens in some sequence.
IsBatch(b) == /\ Len(b) \in Nat /\ DOMAIN b = 1 .. Len(b)
              /\ \A i \in 1 .. Len(b) : SeqSet(b[i]) # {}

\* Tokens have the same sequences or none in common.
Apart(b) == \A i, j \in 1 .. Len(b) : \/ SeqSet(b[i]) = SeqSet(b[j])
                                      \/ SeqSet(b[i]) \cap SeqSet(b[j]) = {}

\* All tokens are computed in the order of the batch, or those of each sequence.
AllInTurn(b) == {p \in (1 .. Len(b)) \X (1 .. Len(b)) : p[1] < p[2]}
InTurn(b)    == {p \in AllInTurn(b) : SeqSet(b[p[1]]) \cap SeqSet(b[p[2]]) # {}}

\* A set of naturals has its least element.
LEMMA MinOf ==
  ASSUME NEW S \in SUBSET Nat, S # {}
  PROVE  Min(S) \in S /\ \A x \in S : Min(S) <= x
BY LeastNatural DEF Min

\* Functions on the first numbers are sequences.
LEMMA FunctionSeq ==
  ASSUME NEW S, NEW n \in Nat, NEW f \in [1 .. n -> S]
  PROVE  f \in Seq(S) /\ Len(f) = n
<1>1. f \in Seq(S)
  BY SeqDef
<1>2. DOMAIN f = 1 .. Len(f) /\ Len(f) \in Nat /\ DOMAIN f = 1 .. n
  BY <1>1, LenProperties
<1>3. Len(f) = n
  BY <1>2
<1> QED BY <1>1, <1>3

\* Nothing is taken when nothing is left.
LEMMA TakesNothing ==
  ASSUME NEW b, Len(b) \in Nat, NEW R, NEW taken, Closed(R, taken), taken = 1 .. Len(b)
  PROVE  Takes(b, R, taken, Empty)
<1>1. /\ Empty.idxs = <<>> /\ Empty.n_seqs = 1 /\ DOMAIN Empty.idxs = {} /\ ToSet(Empty.idxs) = {}
      /\ Empty \in MicroBatches(Len(b)) /\ Len(Empty.idxs) = 0
  BY DEF Empty, MicroBatches, ToSet
<1>2. Once(Empty.idxs) /\ Before(R, Empty.idxs) /\ Closed(R, taken \cup ToSet(Empty.idxs))
  BY <1>1 DEF Once, Before
<1>3. Parts(b, Empty)
  BY <1>1 DEF Parts
<1> QED BY <1>1, <1>2, <1>3 DEF Takes

\* Ascending tokens are each there once, and in turn.
LEMMA AscendingFacts ==
  ASSUME NEW N \in Nat, NEW q \in Seq(1 .. N), Ascending(q), NEW R, \A x, y \in 1 .. N : <<x, y>> \in R => x < y
  PROVE  Once(q) /\ Before(R, q)
<1>1. DOMAIN q = 1 .. Len(q) /\ Len(q) \in Nat /\ \A i \in DOMAIN q : q[i] \in 1 .. N
  BY LenProperties, ElementOfSeq
<1>2. Once(q)
  <2> SUFFICES ASSUME NEW i \in DOMAIN q, NEW j \in DOMAIN q, i # j PROVE q[i] # q[j]
    BY DEF Once
  <2>1. i < j \/ j < i
    BY <1>1
  <2>2. q[i] < q[j] \/ q[j] < q[i]
    BY <2>1 DEF Ascending
  <2> QED BY <1>1, <2>2
<1>3. Before(R, q)
  <2> SUFFICES ASSUME NEW i \in DOMAIN q, NEW j \in DOMAIN q, i < j, <<q[j], q[i]>> \in R PROVE FALSE
    BY DEF Before
  <2>1. q[i] < q[j] /\ q[j] < q[i]
    BY <1>1 DEF Ascending
  <2> QED BY <1>1, <2>1
<1> QED BY <1>2, <1>3

\* split_simple takes tokens as they come.
LEMMA SimpleTakes ==
  ASSUME NEW b, IsBatch(b), NEW n_ubatch \in Nat \ {0},
         NEW taken \in SUBSET (1 .. Len(b)), Closed(AllInTurn(b), taken)
  PROVE  Takes(b, AllInTurn(b), taken, split_simple(b, taken, n_ubatch))
<1> DEFINE N == Len(b)
           first == Min(Unused(b, taken))
           last  == Min({first + n_ubatch - 1, N})
           n == last - first + 1
           u == [idxs |-> [k \in 1 .. n |-> first + k - 1], n_seqs |-> n]
<1>1. N \in Nat /\ DOMAIN b = 1 .. N /\ Unused(b, taken) = (1 .. N) \ taken
  BY DEF IsBatch, Unused
<1>2. CASE Unused(b, taken) = {}
  <2>1. taken = 1 .. N
    BY <1>1, <1>2
  <2> QED BY <1>1, <1>2, <2>1, TakesNothing DEF split_simple
<1>3. CASE Unused(b, taken) # {}
  <2>1. split_simple(b, taken, n_ubatch) = u
    BY <1>3 DEF split_simple
  <2>2. first \in (1 .. N) \ taken
    <3>1. (1 .. N) \ taken \in SUBSET Nat
      OBVIOUS
    <3> QED BY <1>1, <1>3, <3>1, MinOf
  <2> HIDE DEF first, N
  <2>3. last \in {first + n_ubatch - 1, N} /\ last <= N
    <3>1. {first + n_ubatch - 1, N} \in SUBSET Nat /\ {first + n_ubatch - 1, N} # {}
      BY <1>1, <2>2
    <3> HIDE DEF last
    <3> QED BY <3>1, MinOf DEF last
  <2> HIDE DEF last
  <2>4. n \in Nat \ {0} /\ first + n - 1 <= N
    BY <1>1, <2>2, <2>3
  <2> HIDE DEF n
  <2>5. ASSUME NEW k \in 1 .. n PROVE first + k - 1 \in (1 .. N) \ taken
    <3>1. first + k - 1 \in 1 .. N /\ (k # 1 => first < first + k - 1) /\ first \in 1 .. N
      BY <1>1, <2>2, <2>4
    <3>2. k # 1 => <<first, first + k - 1>> \in AllInTurn(b)
      BY <3>1 DEF AllInTurn, N
    <3>3. k = 1 => first + k - 1 = first
      BY <2>2
    <3> QED BY <2>2, <3>1, <3>2, <3>3 DEF Closed
  <2>6. /\ u.idxs = [k \in 1 .. n |-> first + k - 1] /\ u.n_seqs = n /\ u = [idxs |-> u.idxs, n_seqs |-> n]
    OBVIOUS
  <2> HIDE DEF u
  <2>7. u.idxs \in Seq(1 .. N) /\ Len(u.idxs) = n /\ DOMAIN u.idxs = 1 .. n
    <3>1. \A k \in 1 .. n : first + k - 1 \in 1 .. N
      BY <2>5
    <3>2. u.idxs \in [1 .. n -> 1 .. N] /\ DOMAIN u.idxs = 1 .. n
      BY <2>6, <3>1
    <3> QED BY <2>4, <3>2, FunctionSeq
  <2>8. u \in MicroBatches(Len(b)) /\ ToSet(u.idxs) \cap taken = {}
    <3>1. u \in MicroBatches(Len(b))
      BY <2>4, <2>6, <2>7 DEF MicroBatches, N
    <3>2. \A k \in 1 .. n : u.idxs[k] \notin taken
      BY <2>5, <2>6
    <3> QED BY <2>7, <3>1, <3>2 DEF ToSet
  <2>9. u.idxs # <<>>
    BY <2>4, <2>7
  <2>10. Once(u.idxs) /\ Before(AllInTurn(b), u.idxs)
    <3>1. Ascending(u.idxs)
      BY <2>2, <2>6, <2>7 DEF Ascending
    <3>2. \A x, y \in 1 .. N : <<x, y>> \in AllInTurn(b) => x < y
      BY DEF AllInTurn
    <3> QED BY <1>1, <2>7, <3>1, <3>2, AscendingFacts
  <2>11. Closed(AllInTurn(b), taken \cup ToSet(u.idxs))
    <3> SUFFICES ASSUME NEW x, NEW y, <<x, y>> \in AllInTurn(b), y \in taken \cup ToSet(u.idxs)
                 PROVE  x \in taken \cup ToSet(u.idxs)
      BY DEF Closed
    <3>1. x \in 1 .. N /\ y \in 1 .. N /\ x < y
      BY DEF AllInTurn, N
    <3>2. CASE y \in taken
      BY <3>2 DEF Closed
    <3>3. CASE x < first
      <4>1. x \in taken
        <5>1. ASSUME x \notin taken PROVE FALSE
          <6>1. x \in Unused(b, taken) /\ Unused(b, taken) \in SUBSET Nat
            BY <1>1, <3>1, <5>1
          <6>2. first <= x
            BY <6>1, MinOf DEF first
          <6> QED BY <2>2, <3>1, <3>3, <6>2
        <5> QED BY <5>1
      <4> QED BY <4>1
    <3>4. CASE y \in ToSet(u.idxs) /\ ~(x < first)
      <4>1. PICK k \in 1 .. n : y = first + k - 1
        BY <2>6, <2>7, <3>4 DEF ToSet
      <4>2. x - first + 1 \in 1 .. n /\ first + (x - first + 1) - 1 = x
        BY <2>2, <2>4, <3>1, <3>4, <4>1
      <4>3. u.idxs[x - first + 1] = x
        BY <2>6, <4>2
      <4> QED BY <2>7, <4>2, <4>3 DEF ToSet
    <3> QED BY <3>2, <3>3, <3>4
  <2>12. Parts(b, u)
    <3>1. n \div n = 1 /\ 1 * n = n
      BY <2>4
    <3>2. \A x \in 1 .. n : ((x - 1) \div 1) * 1 + 1 = x
      BY <2>4
    <3> QED BY <2>6, <2>7, <3>1, <3>2 DEF Parts
  <2> QED BY <2>1, <2>8, <2>9, <2>10, <2>11, <2>12 DEF Takes
<1> QED BY <1>2, <1>3

\* q takes unused tokens of one sequence set, as far as k and the first ones, and stops
\* only when it is full.
Running(b, taken, n_ubatch, k, q) ==
  /\ q \in Seq((1 .. k) \ taken) /\ Ascending(q)
  /\ q = <<>> => 1 .. k \subseteq taken
  /\ \A i \in DOMAIN q : SeqSet(b[q[i]]) = SeqSet(b[q[1]])
  /\ Len(q) < n_ubatch /\ q # <<>> =>
       \A y \in (1 .. k) \ taken : SeqSet(b[y]) = SeqSet(b[q[1]]) => y \in ToSet(q)
  /\ \A i \in DOMAIN q : \A y \in (1 .. k) \ taken :
       y < q[i] /\ SeqSet(b[y]) = SeqSet(b[q[1]]) => y \in ToSet(q)

\* split_seq goes over the tokens from the first one on.
LEMMA SeqRuns ==
  ASSUME NEW b, IsBatch(b), Apart(b), NEW n_ubatch \in Nat \ {0}, NEW taken \in SUBSET (1 .. Len(b))
  PROVE  /\ Running(b, taken, n_ubatch, Len(b), split_seq(b, taken, n_ubatch).idxs)
         /\ split_seq(b, taken, n_ubatch) = [idxs |-> split_seq(b, taken, n_ubatch).idxs, n_seqs |-> 1]
<1> DEFINE n == Len(b)
           base == <<>>
           Step(k, d) == IF k \notin taken /\ Len(d) < n_ubatch /\ (d # <<>> => SeqSet(b[k]) \subseteq SeqSet(b[Last(d)]))
                         THEN Append(d, k) ELSE d
           E(m, h) == [k \in 0 .. m |-> IF k = 0 THEN base ELSE Step(k, h[k - 1])]
           w == CHOOSE h : h = E(n, h)
           Good(k, d) == Running(b, taken, n_ubatch, k, d)
<1>1. n \in Nat
  BY DEF IsBatch
<1>2. split_seq(b, taken, n_ubatch).idxs = w[n]
  BY DEF split_seq
<1>3. Good(0, base)
  <2>1. <<>> \in Seq((1 .. 0) \ taken) /\ DOMAIN <<>> = {} /\ 1 .. 0 = {}
    OBVIOUS
  <2> QED BY <2>1 DEF Running, Ascending
<1>4. ASSUME NEW k \in 1 .. n, NEW d, Good(k - 1, d) PROVE Good(k, Step(k, d))
  <2> DEFINE T == (1 .. k) \ taken
             S == SeqSet(b[d[1]])
  <2>1. /\ d \in Seq((1 .. k - 1) \ taken) /\ Ascending(d) /\ (d = <<>> => 1 .. k - 1 \subseteq taken)
        /\ \A i \in DOMAIN d : SeqSet(b[d[i]]) = S
    BY <1>4 DEF Running
  <2>2. /\ Len(d) < n_ubatch /\ d # <<>> => \A y \in (1 .. k - 1) \ taken : SeqSet(b[y]) = S => y \in ToSet(d)
        /\ \A i \in DOMAIN d : \A y \in (1 .. k - 1) \ taken : y < d[i] /\ SeqSet(b[y]) = S => y \in ToSet(d)
    BY <1>4 DEF Running
  <2> HIDE DEF n
  <2>3. /\ k \in Nat /\ (1 .. k - 1) \ taken \subseteq T /\ \A y \in T : y = k \/ y \in (1 .. k - 1) \ taken
        /\ (k \in taken => T = (1 .. k - 1) \ taken)
    BY <1>1
  <2>4. d \in Seq(T) /\ Len(d) \in Nat /\ DOMAIN d = 1 .. Len(d) /\ \A i \in DOMAIN d : d[i] \in (1 .. k - 1) \ taken /\ d[i] < k
    <3>1. Len(d) \in Nat /\ DOMAIN d = 1 .. Len(d) /\ \A i \in DOMAIN d : d[i] \in (1 .. k - 1) \ taken
      BY <2>1, LenProperties, ElementOfSeq
    <3>2. d \in Seq(T)
      BY <2>1, <2>3, SeqMonotonic
    <3> QED BY <1>1, <3>1, <3>2
  <2>5. d # <<>> => 1 \in DOMAIN d /\ Len(d) \in DOMAIN d
    BY <2>1, <2>4, EmptySeq
  <2>6. \A y \in 1 .. n : SeqSet(b[y]) # {}
    BY DEF IsBatch, n
  <2>7. d # <<>> => SeqSet(b[Last(d)]) = S
    BY <2>1, <2>5 DEF Last
  <2>8. CASE k \notin taken /\ Len(d) < n_ubatch /\ (d # <<>> => SeqSet(b[k]) \subseteq S)
    <3> DEFINE a == Append(d, k)
    <3>1. k \in T
      BY <2>3, <2>8
    <3>2. /\ a \in Seq(T) /\ DOMAIN a = 1 .. Len(d) + 1 /\ (\A i \in DOMAIN d : a[i] = d[i])
          /\ a[Len(d) + 1] = k /\ ToSet(a) = ToSet(d) \cup {k}
      BY <2>4, <3>1, AppendFacts
    <3>3. Ascending(a)
      <4>1. T \subseteq Int /\ \A i \in DOMAIN d : d[i] < k
        BY <2>4
      <4> HIDE DEF T
      <4> QED BY <2>1, <2>4, <3>1, <4>1, AppendAscends
    <3>4. a # <<>> /\ Step(k, d) = a
      <4>1. a # <<>>
        BY <2>4, <3>1, AppendProperties
      <4> QED BY <2>7, <2>8, <4>1
    <3> HIDE DEF a
    <3>5. SeqSet(b[k]) = SeqSet(b[a[1]]) /\ (d # <<>> => a[1] = d[1] /\ SeqSet(b[a[1]]) = S)
      <4>1. CASE d = <<>>
        <5>1. Len(d) + 1 = 1
          BY <4>1
        <5> QED BY <3>2, <4>1, <5>1
      <4>2. CASE d # <<>>
        <5>1. a[1] = d[1] /\ d[1] \in 1 .. n
          BY <1>1, <2>4, <2>5, <3>2, <4>2
        <5>2. SeqSet(b[k]) = SeqSet(b[d[1]]) \/ SeqSet(b[k]) \cap SeqSet(b[d[1]]) = {}
          BY <5>1 DEF Apart, n
        <5>3. SeqSet(b[k]) = S
          BY <2>6, <2>8, <4>2, <5>2
        <5> QED BY <4>2, <5>1, <5>3
      <4> QED BY <4>1, <4>2
    <3>6. \A i \in DOMAIN a : SeqSet(b[a[i]]) = SeqSet(b[a[1]])
      <4> TAKE i \in DOMAIN a
      <4>1. CASE i \in DOMAIN d
        <5>1. d # <<>>
          BY <2>4, <4>1
        <5> QED BY <2>1, <3>2, <3>5, <4>1, <5>1
      <4>2. CASE i = Len(d) + 1
        BY <3>2, <3>5, <4>2
      <4>3. i \in DOMAIN d \/ i = Len(d) + 1
        BY <2>4, <3>2
      <4> QED BY <4>1, <4>2, <4>3
    <3>7. ASSUME NEW y \in T, SeqSet(b[y]) = SeqSet(b[a[1]]) PROVE y \in ToSet(a)
      <4>1. CASE y = k
        BY <3>2, <4>1
      <4>2. CASE y \in (1 .. k - 1) \ taken
        <5>1. d # <<>>
          BY <2>1, <4>2
        <5>2. y \in ToSet(d)
          BY <2>2, <2>8, <3>5, <3>7, <4>2, <5>1
        <5> QED BY <3>2, <5>2
      <4> QED BY <2>3, <4>1, <4>2
    <3>8. /\ Len(a) < n_ubatch /\ a # <<>> =>
                \A y \in T : SeqSet(b[y]) = SeqSet(b[a[1]]) => y \in ToSet(a)
          /\ \A i \in DOMAIN a : \A y \in T : y < a[i] /\ SeqSet(b[y]) = SeqSet(b[a[1]]) => y \in ToSet(a)
      BY <3>7
    <3>9. Running(b, taken, n_ubatch, k, a)
      BY <3>2, <3>3, <3>4, <3>6, <3>8 DEF Running
    <3> QED BY <3>4, <3>9
  <2>9. CASE ~(k \notin taken /\ Len(d) < n_ubatch /\ (d # <<>> => SeqSet(b[k]) \subseteq S))
    <3>1. Step(k, d) = d
      BY <2>7, <2>9
    <3>2. d = <<>> => 1 .. k \subseteq taken
      BY <2>1, <2>3, <2>9
    <3>3. ASSUME Len(d) < n_ubatch, d # <<>>, NEW y \in T, SeqSet(b[y]) = S PROVE y \in ToSet(d)
      <4>1. y # k
        BY <2>9, <3>3
      <4> QED BY <2>2, <2>3, <3>3, <4>1
    <3>4. ASSUME NEW i \in DOMAIN d, NEW y \in T, y < d[i], SeqSet(b[y]) = S PROVE y \in ToSet(d)
      <4>1. y # k
        BY <2>3, <2>4, <3>4
      <4> QED BY <2>2, <2>3, <3>4, <4>1
    <3> QED BY <2>1, <2>4, <3>1, <3>2, <3>3, <3>4 DEF Running
  <2> QED BY <2>8, <2>9
<1> HIDE DEF Good, Step, base, n
<1>5. w[0] = base /\ \A k \in 1 .. n : w[k] = Step(k, w[k - 1])
  <2> DEFINE T == {m \in Nat : \E h : h = E(m, h)}
  <2>1. 0 \in T
    <3> DEFINE h == [k \in 0 .. 0 |-> base]
    <3>1. h = E(0, h)
      OBVIOUS
    <3> QED BY <3>1
  <2>2. ASSUME NEW m \in Nat, m \in T PROVE m + 1 \in T
    <3>1. PICK h : h = E(m, h)
      BY <2>2
    <3>0. \A k \in 0 .. m : h[k] = IF k = 0 THEN base ELSE Step(k, h[k - 1])
      BY <3>1
    <3> HIDE DEF E
    <3> DEFINE g == [k \in 0 .. m + 1 |-> IF k = m + 1 THEN Step(m + 1, h[m]) ELSE h[k]]
    <3>2. ASSUME NEW k \in 0 .. m + 1 PROVE g[k] = IF k = 0 THEN base ELSE Step(k, g[k - 1])
      <4>1. /\ k # m + 1 => k \in 0 .. m /\ (k # 0 => k - 1 \in 0 .. m + 1 /\ k - 1 # m + 1)
            /\ k = m + 1 => k # 0 /\ k - 1 = m /\ m \in 0 .. m + 1 /\ m # m + 1
        OBVIOUS
      <4>2. CASE k = m + 1
        BY <4>1, <4>2
      <4>3. CASE k # m + 1
        <5>1. g[k] = h[k] /\ (k # 0 => g[k - 1] = h[k - 1])
          BY <4>1, <4>3
        <5> HIDE DEF g
        <5> QED BY <3>0, <4>1, <4>3, <5>1
      <4> QED BY <4>2, <4>3
    <3> HIDE DEF g
    <3>3. g = E(m + 1, g)
      BY <3>2 DEF g, E
    <3> QED BY <3>3
  <2>3. n \in T
    <3> HIDE DEF T
    <3> QED BY <1>1, <2>1, <2>2, SetInduction
  <2>4. \E h : h = E(n, h)
    BY <2>3
  <2> HIDE DEF E
  <2>5. w = E(n, w)
    BY <2>4
  <2> HIDE DEF w
  <2>6. 0 \in 0 .. n /\ \A k \in 1 .. n : k \in 0 .. n /\ k # 0
    BY <1>1
  <2> QED BY <2>5, <2>6 DEF E
<1> HIDE DEF w
<1> DEFINE S == {k \in 0 .. n : Good(k, w[k])}
<1>6. 0 \in S
  BY <1>1, <1>3, <1>5
<1>7. \A k \in 1 .. n : k - 1 \in S => k \in S
  BY <1>1, <1>4, <1>5
<1> HIDE DEF S
<1>8. n \in S
  <2>1. \A k \in 0 .. n : k \in S
    BY <1>1, <1>6, <1>7, FiniteInduction
  <2> QED BY <1>1, <2>1
<1>9. Good(n, split_seq(b, taken, n_ubatch).idxs)
  BY <1>2, <1>8 DEF S
<1> QED
  <2>1. split_seq(b, taken, n_ubatch) = [idxs |-> split_seq(b, taken, n_ubatch).idxs, n_seqs |-> 1]
    BY DEF split_seq
  <2> QED BY <1>9, <2>1 DEF Good, n

\* What comes before a token in its sequences is used, or taken with it.
LEMMA InTurnFacts ==
  ASSUME NEW b, IsBatch(b), Apart(b), NEW taken, Closed(InTurn(b), taken), NEW I \in SUBSET (1 .. Len(b)),
         \A y \in I, x \in (1 .. Len(b)) \ taken : x < y /\ SeqSet(b[x]) = SeqSet(b[y]) => x \in I
  PROVE  /\ Closed(InTurn(b), taken \cup I)
         /\ \A x, y \in 1 .. Len(b) : <<x, y>> \in InTurn(b) => x < y
<1>1. \A x, y : <<x, y>> \in InTurn(b) =>
        x \in 1 .. Len(b) /\ y \in 1 .. Len(b) /\ x < y /\ SeqSet(b[x]) \cap SeqSet(b[y]) # {}
  BY DEF InTurn, AllInTurn
<1>2. ASSUME NEW x, NEW y, <<x, y>> \in InTurn(b), y \in taken \cup I PROVE x \in taken \cup I
  <2>1. CASE y \in taken
    BY <1>2, <2>1 DEF Closed
  <2>2. CASE y \in I
    <3>1. x \in 1 .. Len(b) /\ x < y /\ SeqSet(b[x]) = SeqSet(b[y])
      BY <1>1, <1>2 DEF Apart
    <3> QED BY <2>2, <3>1
  <2> QED BY <1>2, <2>1, <2>2
<1> QED BY <1>1, <1>2 DEF Closed

\* split_seq takes tokens of one sequence set.
LEMMA SeqTakes ==
  ASSUME NEW b, IsBatch(b), Apart(b), NEW n_ubatch \in Nat \ {0},
         NEW taken \in SUBSET (1 .. Len(b)), Closed(InTurn(b), taken)
  PROVE  Takes(b, InTurn(b), taken, split_seq(b, taken, n_ubatch))
<1> DEFINE N == Len(b)
           u == split_seq(b, taken, n_ubatch)
           q == u.idxs
           n == Len(q)
<1>1. Running(b, taken, n_ubatch, N, q) /\ u = [idxs |-> q, n_seqs |-> 1]
  BY SeqRuns
<1>2. u.n_seqs = 1
  BY <1>1
<1> HIDE DEF u
<1>3. N \in Nat /\ q \in Seq((1 .. N) \ taken)
  BY <1>1 DEF Running, IsBatch
<1>4. /\ q \in Seq(1 .. N) /\ n \in Nat /\ DOMAIN q = 1 .. n /\ \A i \in DOMAIN q : q[i] \in (1 .. N) \ taken
  <2>1. (1 .. N) \ taken \subseteq 1 .. N
    OBVIOUS
  <2> QED BY <1>3, <2>1, SeqMonotonic, LenProperties, ElementOfSeq
<1>5. u \in MicroBatches(Len(b)) /\ ToSet(q) \cap taken = {} /\ ToSet(q) \in SUBSET (1 .. N)
  BY <1>1, <1>4 DEF MicroBatches, ToSet
<1>6. q = <<>> => taken = 1 .. N
  BY <1>1 DEF Running
<1> HIDE DEF q
<1>7. \A y \in ToSet(q), x \in (1 .. N) \ taken : x < y /\ SeqSet(b[x]) = SeqSet(b[y]) => x \in ToSet(q)
  <2> TAKE y \in ToSet(q), x \in (1 .. N) \ taken
  <2> HAVE x < y /\ SeqSet(b[x]) = SeqSet(b[y])
  <2>1. PICK i \in DOMAIN q : y = q[i]
    BY DEF ToSet
  <2>2. SeqSet(b[y]) = SeqSet(b[q[1]])
    BY <1>1, <2>1 DEF Running
  <2> QED BY <1>1, <2>1, <2>2 DEF Running
<1>8. /\ Closed(InTurn(b), taken \cup ToSet(q))
      /\ \A x, y \in 1 .. N : <<x, y>> \in InTurn(b) => x < y
  BY <1>5, <1>7, InTurnFacts
<1>9. Once(q) /\ Before(InTurn(b), q)
  BY <1>1, <1>3, <1>4, <1>8, AscendingFacts DEF Running
<1>10. Parts(b, u)
  <2>0. n \in Nat
    BY <1>4
  <2> HIDE DEF n
  <2>1. n \div 1 = n /\ n * 1 = n
    BY <2>0
  <2>2. ASSUME NEW x \in 1 .. n PROVE ((x - 1) \div n) * n + 1 = 1
    <3>1. (x - 1) \div n = 0
      BY <2>0
    <3> QED BY <2>0, <3>1
  <2>3. \A x \in DOMAIN q : SeqSet(b[q[x]]) = SeqSet(b[q[1]])
    BY <1>1 DEF Running
  <2> QED BY <1>2, <1>4, <2>1, <2>2, <2>3 DEF Parts, q, n
<1> QED BY <1>5, <1>6, <1>8, <1>9, <1>10 DEF Takes, q, u

\* q has unused tokens as far as k, no two with a sequence in common.
Separate(b, taken, k, q) ==
  /\ q \in Seq((1 .. k) \ taken)
  /\ \A i, j \in DOMAIN q : i # j => SeqSet(b[q[i]]) \cap SeqSet(b[q[j]]) = {}
  /\ q = <<>> => 1 .. k \subseteq taken

\* The sequence sets of a micro-batch do not overlap.
LEMMA FirstsFacts ==
  ASSUME NEW b, IsBatch(b), NEW n_ubatch \in Nat \ {0}, NEW taken \in SUBSET (1 .. Len(b)), NEW sequential \in BOOLEAN
  PROVE  Separate(b, taken, Len(b), Firsts(b, taken, n_ubatch, sequential))
<1> DEFINE n == Len(b)
           base == <<>>
           Step(k, d) == LET q == d
                             joins == /\ k \notin taken /\ Len(q) <= n_ubatch
                                      /\ \A i \in DOMAIN q : SeqSet(b[q[i]]) \intersect SeqSet(b[k]) = {}
                                      /\ sequential /\ q # <<>> => b[k].ids[1] = b[Last(q)].ids[1] + 1
                         IN IF joins THEN Append(q, k) ELSE q
           E(m, h) == [k \in 0 .. m |-> IF k = 0 THEN base ELSE Step(k, h[k - 1])]
           w == CHOOSE h : h = E(n, h)
           Good(k, d) == Separate(b, taken, k, d)
<1>1. n \in Nat
  BY DEF IsBatch
<1>2. Firsts(b, taken, n_ubatch, sequential) = w[n]
  BY DEF Firsts
<1>3. Good(0, base)
  <2>1. <<>> \in Seq((1 .. 0) \ taken) /\ DOMAIN <<>> = {} /\ 1 .. 0 = {}
    OBVIOUS
  <2> QED BY <2>1 DEF Separate
<1>4. ASSUME NEW k \in 1 .. n, NEW d, Good(k - 1, d) PROVE Good(k, Step(k, d))
  <2> DEFINE T == (1 .. k) \ taken
  <2>1. /\ d \in Seq((1 .. k - 1) \ taken) /\ (d = <<>> => 1 .. k - 1 \subseteq taken)
        /\ \A i, j \in DOMAIN d : i # j => SeqSet(b[d[i]]) \cap SeqSet(b[d[j]]) = {}
    BY <1>4 DEF Separate
  <2> HIDE DEF n
  <2>2. k \in Nat /\ (1 .. k - 1) \ taken \subseteq T /\ \A y \in 1 .. k : y = k \/ y \in 1 .. k - 1
    BY <1>1
  <2>3. d \in Seq(T) /\ Len(d) \in Nat /\ DOMAIN d = 1 .. Len(d)
    BY <2>1, <2>2, SeqMonotonic, LenProperties
  <2>4. \/ /\ Step(k, d) = Append(d, k) /\ k \notin taken
           /\ \A i \in DOMAIN d : SeqSet(b[d[i]]) \cap SeqSet(b[k]) = {}
        \/ Step(k, d) = d /\ (d = <<>> => k \in taken)
    <3>1. d = <<>> => Len(d) <= n_ubatch /\ DOMAIN d = {}
      BY <2>3
    <3> QED BY <3>1
  <2>5. CASE /\ Step(k, d) = Append(d, k) /\ k \notin taken
             /\ \A i \in DOMAIN d : SeqSet(b[d[i]]) \cap SeqSet(b[k]) = {}
    <3> DEFINE a == Append(d, k)
    <3>1. k \in T
      BY <2>2, <2>5
    <3>2. /\ a \in Seq(T) /\ DOMAIN a = 1 .. Len(d) + 1 /\ (\A i \in DOMAIN d : a[i] = d[i])
          /\ a[Len(d) + 1] = k /\ a # <<>>
      <4> HIDE DEF T
      <4>1. /\ a \in Seq(T) /\ DOMAIN a = 1 .. Len(d) + 1 /\ (\A i \in DOMAIN d : a[i] = d[i])
            /\ a[Len(d) + 1] = k
        BY <2>3, <3>1, AppendFacts
      <4>2. a # <<>>
        BY <2>3, <3>1, AppendProperties
      <4> QED BY <4>1, <4>2
    <3> HIDE DEF a
    <3>3. \A i \in DOMAIN a : i \in DOMAIN d \/ i = Len(d) + 1
      BY <2>3, <3>2
    <3>4. \A i, j \in DOMAIN a : i # j => SeqSet(b[a[i]]) \cap SeqSet(b[a[j]]) = {}
      <4> SUFFICES ASSUME NEW i \in DOMAIN a, NEW j \in DOMAIN a, i # j
                   PROVE  SeqSet(b[a[i]]) \cap SeqSet(b[a[j]]) = {}
        OBVIOUS
      <4>1. CASE i \in DOMAIN d /\ j \in DOMAIN d
        BY <2>1, <3>2, <4>1
      <4>2. CASE i \in DOMAIN d /\ j = Len(d) + 1
        BY <2>5, <3>2, <4>2
      <4>3. CASE i = Len(d) + 1 /\ j \in DOMAIN d
        BY <2>5, <3>2, <4>3
      <4> QED BY <3>3, <4>1, <4>2, <4>3
    <3>5. Separate(b, taken, k, a)
      BY <3>2, <3>4 DEF Separate
    <3> QED BY <2>5, <3>5 DEF a
  <2>6. CASE Step(k, d) = d /\ (d = <<>> => k \in taken)
    <3>1. Separate(b, taken, k, d)
      BY <2>1, <2>2, <2>3, <2>6 DEF Separate
    <3> QED BY <2>6, <3>1
  <2> QED BY <2>4, <2>5, <2>6
<1> HIDE DEF Good, Step, base, n
<1>5. w[0] = base /\ \A k \in 1 .. n : w[k] = Step(k, w[k - 1])
  <2> DEFINE T == {m \in Nat : \E h : h = E(m, h)}
  <2>1. 0 \in T
    <3> DEFINE h == [k \in 0 .. 0 |-> base]
    <3>1. h = E(0, h)
      OBVIOUS
    <3> QED BY <3>1
  <2>2. ASSUME NEW m \in Nat, m \in T PROVE m + 1 \in T
    <3>1. PICK h : h = E(m, h)
      BY <2>2
    <3>0. \A k \in 0 .. m : h[k] = IF k = 0 THEN base ELSE Step(k, h[k - 1])
      BY <3>1
    <3> HIDE DEF E
    <3> DEFINE g == [k \in 0 .. m + 1 |-> IF k = m + 1 THEN Step(m + 1, h[m]) ELSE h[k]]
    <3>2. ASSUME NEW k \in 0 .. m + 1 PROVE g[k] = IF k = 0 THEN base ELSE Step(k, g[k - 1])
      <4>1. /\ k # m + 1 => k \in 0 .. m /\ (k # 0 => k - 1 \in 0 .. m + 1 /\ k - 1 # m + 1)
            /\ k = m + 1 => k # 0 /\ k - 1 = m /\ m \in 0 .. m + 1 /\ m # m + 1
        OBVIOUS
      <4>2. CASE k = m + 1
        BY <4>1, <4>2
      <4>3. CASE k # m + 1
        <5>1. g[k] = h[k] /\ (k # 0 => g[k - 1] = h[k - 1])
          BY <4>1, <4>3
        <5> HIDE DEF g
        <5> QED BY <3>0, <4>1, <4>3, <5>1
      <4> QED BY <4>2, <4>3
    <3> HIDE DEF g
    <3>3. g = E(m + 1, g)
      BY <3>2 DEF g, E
    <3> QED BY <3>3
  <2>3. n \in T
    <3> HIDE DEF T
    <3> QED BY <1>1, <2>1, <2>2, SetInduction
  <2>4. \E h : h = E(n, h)
    BY <2>3
  <2> HIDE DEF E
  <2>5. w = E(n, w)
    BY <2>4
  <2> HIDE DEF w
  <2>6. 0 \in 0 .. n /\ \A k \in 1 .. n : k \in 0 .. n /\ k # 0
    BY <1>1
  <2> QED BY <2>5, <2>6 DEF E
<1> HIDE DEF w
<1> DEFINE S == {k \in 0 .. n : Good(k, w[k])}
<1>6. 0 \in S
  BY <1>1, <1>3, <1>5
<1>7. \A k \in 1 .. n : k - 1 \in S => k \in S
  BY <1>1, <1>4, <1>5
<1> HIDE DEF S
<1>8. n \in S
  <2>1. \A k \in 0 .. n : k \in S
    BY <1>1, <1>6, <1>7, FiniteInduction
  <2> QED BY <1>1, <2>1
<1>9. Good(n, Firsts(b, taken, n_ubatch, sequential))
  BY <1>2, <1>8 DEF S
<1> QED
  BY <1>9 DEF Good, n

\* r has the unused tokens of the sequence set S, in order.
Rest(b, taken, S, r) ==
  /\ r \in Seq(1 .. Len(b)) /\ Ascending(r) /\ Len(r) \in Nat \ {0} /\ DOMAIN r = 1 .. Len(r)
  /\ \A i \in DOMAIN r : r[i] \in (1 .. Len(b)) \ taken /\ SeqSet(b[r[i]]) = S
  /\ \A x \in (1 .. Len(b)) \ taken : SeqSet(b[x]) = S => x \in ToSet(r)

\* From the first unused token of a sequence set on, none is used.
LEMMA RestFacts ==
  ASSUME NEW b, IsBatch(b), Apart(b), NEW taken \in SUBSET (1 .. Len(b)), Closed(InTurn(b), taken),
         NEW f \in (1 .. Len(b)) \ taken
  PROVE  Rest(b, taken, SeqSet(b[f]), RestOf(b, taken, SeqSet(b[f])))
<1> DEFINE N == Len(b)
           S == SeqSet(b[f])
           all == SeqSetMap(b, S)
           K == {k \in DOMAIN all : all[k] \notin taken}
           first == Min(K)
           r == RestOf(b, taken, S)
<1>1. N \in Nat /\ DOMAIN b = 1 .. N /\ \A i \in 1 .. N : SeqSet(b[i]) # {}
  BY DEF IsBatch
<1> HIDE DEF N
<1>2. all \in Seq(1 .. N) /\ Ascending(all) /\ ToSet(all) = {i \in 1 .. N : SeqSet(b[i]) = S}
  <2> DEFINE I == {i \in DOMAIN b : SeqSet(b[i]) = S}
  <2>1. all = InOrder(I, N)
    BY DEF SeqSetMap, N
  <2>2. I \cap (1 .. N) = {i \in 1 .. N : SeqSet(b[i]) = S}
    BY <1>1
  <2> HIDE DEF I, S, all
  <2> QED BY <1>1, <2>1, <2>2, InOrderFacts
<1>3. r = SubSeq(all, first, Len(all))
  BY DEF RestOf
<1> HIDE DEF r, all
<1>4. Len(all) \in Nat /\ DOMAIN all = 1 .. Len(all) /\ \A k \in DOMAIN all : all[k] \in 1 .. N /\ SeqSet(b[all[k]]) = S
  BY <1>2, LenProperties, ElementOfSeq DEF ToSet
<1>5. first \in 1 .. Len(all) /\ all[first] \notin taken /\ \A k \in K : first <= k
  <2>1. f \in ToSet(all)
    BY <1>2 DEF N
  <2>2. K \in SUBSET Nat /\ K # {}
    BY <1>4, <2>1 DEF ToSet
  <2>3. first \in K /\ \A k \in K : first <= k
    <3> HIDE DEF K
    <3> QED BY <2>2, MinOf
  <2> QED BY <1>4, <2>3
<1>6. ASSUME NEW k \in first .. Len(all) PROVE all[k] \in (1 .. N) \ taken
  <2>1. k \in DOMAIN all /\ first \in DOMAIN all
    BY <1>4, <1>5
  <2>2. CASE k = first
    BY <1>4, <1>5, <2>1, <2>2
  <2>3. CASE k # first
    <3>1. first < k
      BY <1>5, <2>3
    <3>2. all[first] < all[k] /\ all[first] \in 1 .. N /\ all[k] \in 1 .. N /\ SeqSet(b[all[first]]) = SeqSet(b[all[k]])
      BY <1>2, <1>4, <2>1, <3>1 DEF Ascending
    <3>3. <<all[first], all[k]>> \in InTurn(b)
      BY <1>1, <3>2 DEF InTurn, AllInTurn, N
    <3> QED BY <1>5, <3>2, <3>3 DEF Closed
  <2> QED BY <2>2, <2>3
<1> HIDE DEF first, K
<1>7. /\ r \in Seq(1 .. N) /\ Len(r) = Len(all) - first + 1 /\ Len(r) \in Nat \ {0} /\ DOMAIN r = 1 .. Len(r)
      /\ \A i \in 1 .. Len(r) : r[i] = all[first + i - 1] /\ first + i - 1 \in first .. Len(all)
  <2>1. \A k \in first .. Len(all) : all[k] \in 1 .. N
    BY <1>6
  <2>2. /\ r \in Seq(1 .. N) /\ Len(r) = Len(all) - first + 1
        /\ \A i \in 1 .. Len(all) - first + 1 : r[i] = all[first + i - 1]
    BY <1>3, <1>4, <1>5, <2>1, SubSeqProperties
  <2>3. DOMAIN r = 1 .. Len(r)
    BY <2>2, LenProperties
  <2> QED BY <1>4, <1>5, <2>2, <2>3
<1>8. Ascending(r)
  <2> SUFFICES ASSUME NEW i \in 1 .. Len(r), NEW j \in 1 .. Len(r), i < j PROVE r[i] < r[j]
    BY <1>7 DEF Ascending
  <2>1. first + i - 1 \in DOMAIN all /\ first + j - 1 \in DOMAIN all /\ first + i - 1 < first + j - 1
    BY <1>4, <1>5, <1>7
  <2> QED BY <1>2, <1>7, <2>1 DEF Ascending
<1>9. \A i \in DOMAIN r : r[i] \in (1 .. N) \ taken /\ SeqSet(b[r[i]]) = S
  <2> TAKE i \in DOMAIN r
  <2>1. first + i - 1 \in first .. Len(all) /\ r[i] = all[first + i - 1]
    BY <1>7
  <2>2. first + i - 1 \in DOMAIN all
    BY <1>4, <1>5, <2>1
  <2> QED BY <1>4, <1>6, <2>1, <2>2
<1>10. ASSUME NEW x \in (1 .. N) \ taken, SeqSet(b[x]) = S PROVE x \in ToSet(r)
  <2>1. PICK k \in DOMAIN all : x = all[k]
    BY <1>2, <1>10 DEF ToSet
  <2>2. first <= k
    BY <1>5, <2>1 DEF K
  <2>3. k - first + 1 \in 1 .. Len(r) /\ first + (k - first + 1) - 1 = k
    BY <1>4, <1>5, <1>7, <2>2
  <2>4. r[k - first + 1] = x
    BY <1>7, <2>1, <2>3
  <2> QED BY <1>7, <2>3, <2>4 DEF ToSet
<1> QED BY <1>7, <1>8, <1>9, <1>10 DEF Rest, r, N

\* Places in K rows of m, one row after the other.
LEMMA Places ==
  ASSUME NEW K \in Nat \ {0}, NEW m \in Nat \ {0}
  PROVE  /\ K * m \in Nat \ {0} /\ (K * m) \div K = m /\ m * K = K * m
         /\ \A k \in 1 .. K, j \in 1 .. m : /\ (k - 1) * m + j \in 1 .. K * m
                                            /\ ((k - 1) * m + j - 1) \div m = k - 1
         /\ \A x \in 1 .. K * m : \E k \in 1 .. K, j \in 1 .. m : x = (k - 1) * m + j
<1>1. K * m \in Nat \ {0} /\ (K * m) \div K = m /\ m * K = K * m
  OBVIOUS
<1>2. ASSUME NEW k \in 1 .. K, NEW j \in 1 .. m
      PROVE  (k - 1) * m + j \in 1 .. K * m /\ ((k - 1) * m + j - 1) \div m = k - 1
  <2>1. (k - 1) * m >= 0 /\ (k - 1) * m \in Int /\ k * m = (k - 1) * m + m /\ k * m <= K * m
    OBVIOUS
  <2> DEFINE a == k - 1
             y == (k - 1) * m + j - 1
  <2>2. a \in Int /\ y \in Int /\ a * m <= y /\ y < (a + 1) * m
    BY <2>1
  <2> HIDE DEF a, y
  <2>3. y \div m = a
    BY <2>2
  <2> QED BY <1>1, <2>1, <2>3 DEF a, y
<1>3. ASSUME NEW x \in 1 .. K * m PROVE \E k \in 1 .. K, j \in 1 .. m : x = (k - 1) * m + j
  <2> DEFINE y == x - 1
             a == y \div m
  <2>1. y \in Nat /\ y < K * m /\ x = y + 1
    BY <1>1
  <2> HIDE DEF y
  <2>2. a \in Int /\ a * m <= y /\ y < a * m + m
    BY <2>1
  <2> HIDE DEF a
  <2>3. a >= 0 /\ a < K
    BY <1>1, <2>1, <2>2
  <2>4. a + 1 \in 1 .. K /\ y - a * m + 1 \in 1 .. m /\ x = ((a + 1) - 1) * m + (y - a * m + 1)
    BY <2>1, <2>2, <2>3
  <2> QED BY <2>4
<1> QED BY <1>1, <1>2, <1>3

\* K rows of m, and what they are together.
Rows(s, S, K, m)      == s \in [1 .. K -> Seq(S)] /\ \A k \in 1 .. K : Len(s[k]) = m
Joined(q, s, S, K, m) == /\ q \in Seq(S) /\ Len(q) = K * m
                         /\ \A k \in 1 .. K, j \in 1 .. m : q[(k - 1) * m + j] = s[k][j]

\* Rows of the same length are put one after the other.
LEMMA FlattenEqual ==
  ASSUME NEW S, NEW K \in Nat \ {0}, NEW m \in Nat \ {0}, NEW s, Rows(s, S, K, m)
  PROVE  Joined(FlattenSeq(s), s, S, K, m)
<1>0. s \in [1 .. K -> Seq(S)] /\ \A k \in 1 .. K : Len(s[k]) = m
  BY DEF Rows
<1>1. Len(s) = K
  BY <1>0, FunctionSeq
<1>2. PICK f : FlattenSeq(s) = f[K] /\ Flattens(f, s)
  BY <1>1, FlattenUnfolds
<1>3. f[1] = s[1] /\ \A k \in 2 .. K : f[k] = f[k - 1] \o s[k]
  BY <1>1, <1>2 DEF Flattens
<1> DEFINE Good(k) == /\ f[k] \in Seq(S) /\ Len(f[k]) = k * m
                      /\ \A i \in 1 .. k, j \in 1 .. m : f[k][(i - 1) * m + j] = s[i][j]
           T == {k \in 0 .. K : k # 0 => Good(k)}
<1>4. 0 \in T
  OBVIOUS
<1>5. ASSUME NEW k \in 1 .. K, k - 1 \in T PROVE k \in T
  <2>1. s[k] \in Seq(S) /\ Len(s[k]) = m
    BY <1>0
  <2>2. CASE k = 1
    <3>1. f[1] \in Seq(S) /\ Len(f[1]) = 1 * m
      BY <1>3, <2>1, <2>2
    <3>2. ASSUME NEW i \in 1 .. 1, NEW j \in 1 .. m PROVE f[1][(i - 1) * m + j] = s[i][j]
      <4>1. i = 1 /\ (i - 1) * m + j = j
        OBVIOUS
      <4> QED BY <1>3, <4>1
    <3>3. Good(1)
      BY <3>1, <3>2
    <3> HIDE DEF Good
    <3> QED BY <2>2, <3>3
  <2>3. CASE k # 1
    <3> DEFINE p == f[k - 1]
    <3>1. k - 1 \in Nat \ {0} /\ k \in 2 .. K
      BY <2>3
    <3>2. p \in Seq(S) /\ Len(p) = (k - 1) * m /\ \A i \in 1 .. k - 1, j \in 1 .. m : p[(i - 1) * m + j] = s[i][j]
      BY <1>5, <3>1
    <3>3. f[k] = p \o s[k]
      BY <1>3, <3>1
    <3> HIDE DEF p
    <3>4. /\ f[k] \in Seq(S) /\ Len(f[k]) = (k - 1) * m + m
          /\ DOMAIN p = 1 .. (k - 1) * m /\ DOMAIN s[k] = 1 .. m
          /\ (\A x \in DOMAIN p : f[k][x] = p[x]) /\ \A x \in DOMAIN s[k] : f[k][(k - 1) * m + x] = s[k][x]
      <4> DEFINE r == s[k]
                 n == (k - 1) * m
      <4>0. r \in Seq(S) /\ Len(r) = m /\ p \in Seq(S) /\ Len(p) = n /\ f[k] = p \o r
        BY <2>1, <3>2, <3>3
      <4> HIDE DEF r, n
      <4>1. /\ p \o r \in Seq(S) /\ DOMAIN p = 1 .. Len(p) /\ DOMAIN r = 1 .. Len(r)
            /\ (\A x \in DOMAIN p : (p \o r)[x] = p[x]) /\ \A x \in DOMAIN r : (p \o r)[Len(p) + x] = r[x]
        BY <4>0, ConcatFacts
      <4>2. Len(p \o r) = n + m
        BY <4>0, ConcatProperties
      <4>3. /\ f[k] \in Seq(S) /\ Len(f[k]) = n + m /\ DOMAIN p = 1 .. n /\ DOMAIN r = 1 .. m
            /\ (\A x \in DOMAIN p : f[k][x] = p[x]) /\ \A x \in DOMAIN r : f[k][n + x] = r[x]
        BY <4>0, <4>1, <4>2
      <4> QED BY <4>3 DEF r, n
    <3>5. (k - 1) * m + m = k * m
      OBVIOUS
    <3>6. ASSUME NEW i \in 1 .. k, NEW j \in 1 .. m PROVE f[k][(i - 1) * m + j] = s[i][j]
      <4>1. CASE i = k
        BY <3>4, <4>1
      <4>2. CASE i # k
        <5>1. i \in 1 .. k - 1
          BY <4>2
        <5>2. (i - 1) * m + j \in 1 .. (k - 1) * m
          BY <3>1, <5>1, Places
        <5> QED BY <3>2, <3>4, <5>1, <5>2
      <4> QED BY <4>1, <4>2
    <3>7. Good(k)
      BY <3>4, <3>5, <3>6
    <3> HIDE DEF Good
    <3> QED BY <3>7
  <2> QED BY <2>2, <2>3
<1> HIDE DEF T
<1>6. K \in T
  <2>1. \A k \in 0 .. K : k \in T
    BY <1>4, <1>5, FiniteInduction
  <2> QED BY <2>1
<1>7. Good(K)
  BY <1>6 DEF T
<1> QED BY <1>2, <1>7 DEF Joined

\* Of each set some tokens are taken, and no more than there are.
LEMMA RoundsFacts ==
  ASSUME NEW K \in Nat \ {0}, NEW rest, DOMAIN rest = 1 .. K, Len(rest) = K,
         \A k \in 1 .. K : Len(rest[k]) \in Nat \ {0}, NEW n_ubatch \in Nat \ {0}
  PROVE  /\ Rounds(rest, n_ubatch) \in Nat \ {0}
         /\ \A k \in 1 .. K : Rounds(rest, n_ubatch) <= Len(rest[k])
<1> DEFINE z == n_ubatch \div K
           most == Max({1, z})
           T == {Len(rest[k]) : k \in DOMAIN rest} \union {most}
<1>1. z \in Int
  OBVIOUS
<1> HIDE DEF z
<1>2. most \in Nat \ {0}
  <2>1. \E x \in {1, z} : \A y \in {1, z} : x >= y
    <3>1. CASE z >= 1
      BY <1>1, <3>1
    <3>2. CASE ~(z >= 1)
      BY <1>1, <3>2
    <3> QED BY <3>1, <3>2
  <2>2. most \in {1, z} /\ most >= 1
    BY <2>1 DEF Max
  <2> QED BY <1>1, <2>2
<1>3. Rounds(rest, n_ubatch) = Min(T)
  BY DEF Rounds, z
<1> HIDE DEF most
<1>4. T \in SUBSET (Nat \ {0}) /\ T \in SUBSET Nat /\ T # {} /\ \A k \in 1 .. K : Len(rest[k]) \in T
  BY <1>2
<1> HIDE DEF T
<1>5. Min(T) \in T /\ \A x \in T : Min(T) <= x
  BY <1>4, MinOf
<1> QED BY <1>3, <1>4, <1>5

\* split_equal takes as many tokens of each of its sequence sets.
LEMMA EqualTakes ==
  ASSUME NEW b, IsBatch(b), Apart(b), NEW n_ubatch \in Nat \ {0},
         NEW taken \in SUBSET (1 .. Len(b)), Closed(InTurn(b), taken),
         NEW sequential \in BOOLEAN, sequential => Coupled(b) = {}
  PROVE  Takes(b, InTurn(b), taken, split_equal(b, taken, n_ubatch, sequential))
<1> DEFINE N == Len(b)
           firsts == Firsts(b, taken, n_ubatch, sequential)
           K == Len(firsts)
           sets == SeqSets(b, firsts)
           u == split_equal(b, taken, n_ubatch, sequential)
<1>1. N \in Nat /\ DOMAIN b = 1 .. N /\ \A i \in 1 .. N : SeqSet(b[i]) # {}
  BY DEF IsBatch
<1>2. u = EqualParts(b, taken, n_ubatch, sets)
  BY DEF split_equal
<1> HIDE DEF u
<1>3. Separate(b, taken, N, firsts)
  BY FirstsFacts
<1> HIDE DEF N, firsts
<1>4. /\ firsts \in Seq((1 .. N) \ taken)
      /\ \A i, j \in DOMAIN firsts : i # j => SeqSet(b[firsts[i]]) \cap SeqSet(b[firsts[j]]) = {}
      /\ firsts = <<>> => taken = 1 .. N
  BY <1>3 DEF Separate, N
<1>5. /\ K \in Nat /\ DOMAIN firsts = 1 .. K /\ (\A k \in 1 .. K : firsts[k] \in (1 .. N) \ taken)
      /\ (K = 0 <=> firsts = <<>>)
  BY <1>4, LenProperties, ElementOfSeq, EmptySeq
<1>6. DOMAIN sets = 1 .. K /\ \A k \in 1 .. K : sets[k] = SeqSet(b[firsts[k]])
  BY <1>5 DEF SeqSets
<1> HIDE DEF sets, K
<1>7. CASE K = 0
  <2>1. sets = <<>>
    <3>1. SeqSets(b, <<>>) = <<>>
      BY DEF SeqSets
    <3> QED BY <1>5, <1>7, <3>1 DEF sets
  <2>2. u = Empty
    BY <1>2, <2>1 DEF EqualParts
  <2>3. Takes(b, InTurn(b), taken, Empty)
    BY <1>1, <1>4, <1>5, <1>7, TakesNothing DEF N
  <2> QED BY <2>2, <2>3 DEF u
<1>8. CASE K # 0
  <2> DEFINE rest == [k \in DOMAIN sets |-> RestOf(b, taken, sets[k])]
             m == Rounds(rest, n_ubatch)
             rows == [k \in DOMAIN rest |-> SubSeq(rest[k], 1, m)]
             q == FlattenSeq(rows)
  <2>1. K \in Nat \ {0} /\ sets # <<>>
    BY <1>5, <1>6, <1>8
  <2>2. u = [idxs |-> q, n_seqs |-> Len(rest)]
    BY <1>2, <2>1 DEF EqualParts, FirstOf
  <2>3. ASSUME NEW k \in 1 .. K PROVE Rest(b, taken, sets[k], rest[k])
    <3>1. firsts[k] \in (1 .. N) \ taken /\ sets[k] = SeqSet(b[firsts[k]]) /\ k \in DOMAIN sets
      BY <1>5, <1>6
    <3> DEFINE f == firsts[k]
    <3> HIDE DEF f
    <3>2. Rest(b, taken, SeqSet(b[f]), RestOf(b, taken, SeqSet(b[f])))
      BY <3>1, RestFacts DEF f, N
    <3> QED BY <3>1, <3>2 DEF f
  <2>4. DOMAIN rest = 1 .. K
    BY <1>6
  <2> HIDE DEF rest
  <2>5. ASSUME NEW k \in 1 .. K
        PROVE  /\ rest[k] \in Seq(1 .. N) /\ Ascending(rest[k]) /\ Len(rest[k]) \in Nat \ {0} /\ DOMAIN rest[k] = 1 .. Len(rest[k])
               /\ \A i \in 1 .. Len(rest[k]) : rest[k][i] \in (1 .. N) \ taken /\ SeqSet(b[rest[k][i]]) = sets[k]
               /\ \A x \in (1 .. N) \ taken : SeqSet(b[x]) = sets[k] => x \in ToSet(rest[k])
    BY <2>3 DEF Rest, N
  <2>6. Len(rest) = K
    <3>1. rest \in [1 .. K -> Seq(1 .. N)]
      <4>1. rest = [k \in 1 .. K |-> rest[k]]
        BY <2>4 DEF rest
      <4> QED BY <2>5, <4>1
    <3> QED BY <2>1, <3>1, FunctionSeq
  <2>7. m \in Nat \ {0} /\ \A k \in 1 .. K : m <= Len(rest[k])
    BY <2>1, <2>4, <2>5, <2>6, RoundsFacts
  <2> HIDE DEF m
  <2>8. ASSUME NEW k \in 1 .. K
        PROVE  /\ rows[k] \in Seq(1 .. N) /\ Len(rows[k]) = m
               /\ \A j \in 1 .. m : rows[k][j] = rest[k][j]
    <3> DEFINE r == rest[k]
    <3>1. r \in Seq(1 .. N) /\ DOMAIN r = 1 .. Len(r) /\ Len(r) \in Nat /\ m <= Len(r) /\ \A i \in 1 .. Len(r) : r[i] \in 1 .. N
      BY <2>5, <2>7
    <3>2. rows[k] = SubSeq(r, 1, m)
      BY <2>4
    <3> HIDE DEF r, rows
    <3>3. \A i \in 1 .. m : r[i] \in 1 .. N
      BY <2>7, <3>1
    <3>4. /\ SubSeq(r, 1, m) \in Seq(1 .. N) /\ Len(SubSeq(r, 1, m)) = m - 1 + 1
          /\ \A i \in 1 .. m - 1 + 1 : SubSeq(r, 1, m)[i] = r[1 + i - 1]
      BY <2>7, <3>1, <3>3, SubSeqProperties
    <3>5. m - 1 + 1 = m /\ \A i \in 1 .. m : 1 + i - 1 = i
      BY <2>7
    <3> QED BY <3>2, <3>4, <3>5 DEF r
  <2>9. rows \in [1 .. K -> Seq(1 .. N)]
    BY <2>4, <2>8
  <2> HIDE DEF rows
  <2>10. /\ q \in Seq(1 .. N) /\ Len(q) = K * m
         /\ \A k \in 1 .. K, j \in 1 .. m : q[(k - 1) * m + j] = rows[k][j]
    <3> DEFINE S == 1 .. N
    <3>1. Rows(rows, S, K, m)
      BY <2>8, <2>9 DEF Rows
    <3> HIDE DEF S
    <3>2. Joined(FlattenSeq(rows), rows, S, K, m)
      BY <2>1, <2>7, <3>1, FlattenEqual
    <3> QED BY <3>2 DEF S, Joined
  <2> HIDE DEF q
  <2>11. /\ K * m \in Nat \ {0} /\ (K * m) \div K = m /\ m * K = K * m
         /\ \A k \in 1 .. K, j \in 1 .. m : /\ (k - 1) * m + j \in 1 .. K * m
                                            /\ ((k - 1) * m + j - 1) \div m = k - 1
         /\ \A x \in 1 .. K * m : \E k \in 1 .. K, j \in 1 .. m : x = (k - 1) * m + j
    BY <2>1, <2>7, Places
  <2>12. DOMAIN q = 1 .. K * m /\ q # <<>>
    BY <2>10, <2>11, LenProperties
  <2>13. \A k \in 1 .. K, j \in 1 .. m : /\ (k - 1) * m + j \in DOMAIN q /\ q[(k - 1) * m + j] = rest[k][j]
                                         /\ j \in 1 .. Len(rest[k])
                                         /\ rest[k][j] \in (1 .. N) \ taken /\ SeqSet(b[rest[k][j]]) = sets[k]
    <3> TAKE k \in 1 .. K, j \in 1 .. m
    <3>1. j \in 1 .. Len(rest[k])
      BY <2>5, <2>7
    <3>2. rest[k][j] \in (1 .. N) \ taken /\ SeqSet(b[rest[k][j]]) = sets[k]
      BY <2>5, <3>1
    <3>3. (k - 1) * m + j \in DOMAIN q
      BY <2>11, <2>12
    <3>4. q[(k - 1) * m + j] = rest[k][j]
      BY <2>8, <2>10
    <3> QED BY <3>1, <3>2, <3>3, <3>4
  <2>14. \A x \in DOMAIN q : \E k \in 1 .. K, j \in 1 .. m : x = (k - 1) * m + j
    BY <2>11, <2>12
  <2>15. \A k, l \in 1 .. K : k # l => sets[k] \cap sets[l] = {} /\ sets[k] # {}
    <3> TAKE k, l \in 1 .. K
    <3>1. sets[k] = SeqSet(b[firsts[k]]) /\ sets[l] = SeqSet(b[firsts[l]]) /\ firsts[k] \in 1 .. N
      BY <1>5, <1>6
    <3>2. k # l => SeqSet(b[firsts[k]]) \cap SeqSet(b[firsts[l]]) = {}
      BY <1>4, <1>5
    <3>3. SeqSet(b[firsts[k]]) # {}
      BY <1>1, <3>1
    <3> QED BY <3>1, <3>2, <3>3
  <2>16. Once(q)
    <3> SUFFICES ASSUME NEW x \in DOMAIN q, NEW y \in DOMAIN q, q[x] = q[y] PROVE x = y
      BY DEF Once
    <3>1. PICK k \in 1 .. K, j \in 1 .. m : x = (k - 1) * m + j
      BY <2>14
    <3>2. PICK l \in 1 .. K, i \in 1 .. m : y = (l - 1) * m + i
      BY <2>14
    <3>3. rest[k][j] = rest[l][i] /\ sets[k] = sets[l]
      BY <2>13, <3>1, <3>2
    <3>4. k = l
      BY <2>15, <3>3
    <3>5. j = i
      <4>1. j \in DOMAIN rest[k] /\ i \in DOMAIN rest[k]
        BY <2>5, <2>13, <3>4
      <4>2. ~(rest[k][j] < rest[k][i]) /\ ~(rest[k][i] < rest[k][j])
        BY <2>13, <3>3, <3>4
      <4>3. ~(j < i) /\ ~(i < j)
        BY <2>5, <4>1, <4>2 DEF Ascending
      <4> QED BY <4>3
    <3> QED BY <3>1, <3>2, <3>4, <3>5
  <2>17. \A y \in ToSet(q), x \in (1 .. N) \ taken : x < y /\ SeqSet(b[x]) = SeqSet(b[y]) => x \in ToSet(q)
    <3> TAKE y \in ToSet(q), x \in (1 .. N) \ taken
    <3> HAVE x < y /\ SeqSet(b[x]) = SeqSet(b[y])
    <3>1. PICK z \in DOMAIN q : y = q[z]
      BY DEF ToSet
    <3>2. PICK k \in 1 .. K, j \in 1 .. m : z = (k - 1) * m + j
      BY <2>14
    <3>3. y = rest[k][j] /\ SeqSet(b[x]) = sets[k]
      BY <2>13, <3>1, <3>2
    <3>4. PICK i \in 1 .. Len(rest[k]) : x = rest[k][i]
      BY <2>5, <3>3 DEF ToSet
    <3>5. ~(j < i) /\ j # i
      <4> DEFINE c == rest[k]
      <4>1. /\ Ascending(c) /\ DOMAIN c = 1 .. Len(c) /\ i \in DOMAIN c /\ j \in DOMAIN c
            /\ x = c[i] /\ y = c[j] /\ x < y
        BY <2>5, <2>13, <3>3, <3>4
      <4>2. x \in Int /\ y \in Int
        BY <2>13, <3>3
      <4> HIDE DEF c
      <4>3. ~(j < i)
        <5>1. j < i => y < x
          BY <4>1 DEF Ascending
        <5> QED BY <4>1, <4>2, <5>1
      <4>4. j # i
        BY <4>1, <4>2
      <4> QED BY <4>3, <4>4
    <3>6. i \in 1 .. m
      BY <2>7, <3>5
    <3>7. q[(k - 1) * m + i] = x /\ (k - 1) * m + i \in DOMAIN q
      BY <2>13, <3>4, <3>6
    <3> QED BY <3>7 DEF ToSet
  <2>18. ToSet(q) \in SUBSET (1 .. N) /\ ToSet(q) \cap taken = {}
    <3>1. ASSUME NEW x \in DOMAIN q PROVE q[x] \in (1 .. N) \ taken
      <4>1. PICK k \in 1 .. K, j \in 1 .. m : x = (k - 1) * m + j
        BY <2>14
      <4> QED BY <2>13, <4>1
    <3> QED BY <3>1 DEF ToSet
  <2>19. /\ Closed(InTurn(b), taken \cup ToSet(q))
         /\ \A x, y \in 1 .. N : <<x, y>> \in InTurn(b) => x < y
    BY <2>17, <2>18, InTurnFacts DEF N
  <2>20. Before(InTurn(b), q)
    <3> SUFFICES ASSUME NEW x \in DOMAIN q, NEW y \in DOMAIN q, x < y, <<q[y], q[x]>> \in InTurn(b) PROVE FALSE
      BY DEF Before
    <3>1. PICK k \in 1 .. K, j \in 1 .. m : x = (k - 1) * m + j
      BY <2>14
    <3>2. PICK l \in 1 .. K, i \in 1 .. m : y = (l - 1) * m + i
      BY <2>14
    <3>3. q[x] = rest[k][j] /\ q[y] = rest[l][i] /\ SeqSet(b[q[x]]) = sets[k] /\ SeqSet(b[q[y]]) = sets[l]
      BY <2>13, <3>1, <3>2, SMTT(40)
    <3>4. q[y] < q[x] /\ sets[l] \cap sets[k] # {}
      BY <2>18, <2>19, <3>3 DEF InTurn, ToSet
    <3>5. k = l
      BY <2>15, <3>4
    <3>6. j < i
      <4> DEFINE z == (k - 1) * m
      <4>1. x = z + j /\ y = z + i /\ z \in Int
        BY <2>7, <3>1, <3>2, <3>5
      <4> HIDE DEF z
      <4> QED BY <4>1
    <3>7. rest[k][j] < rest[k][i]
      BY <2>5, <2>13, <3>5, <3>6 DEF Ascending
    <3> QED BY <2>13, <3>3, <3>4, <3>5, <3>7
  <2>21. u.idxs = q /\ u.n_seqs = K /\ u = [idxs |-> q, n_seqs |-> K]
    BY <2>2, <2>6 DEF q
  <2>22. Parts(b, u)
    <3>1. ASSUME NEW x \in DOMAIN q PROVE SeqSet(b[q[x]]) = SeqSet(b[q[((x - 1) \div m) * m + 1]])
      <4>1. PICK k \in 1 .. K, j \in 1 .. m : x = (k - 1) * m + j
        BY <2>14
      <4>2. (x - 1) \div m = k - 1
        <5> DEFINE z == (k - 1) * m
        <5>1. z \in Int
          BY <2>7
        <5>2. (z + j - 1) \div m = k - 1
          BY <2>11
        <5>3. x = z + j
          BY <4>1
        <5> HIDE DEF z
        <5>4. x - 1 = z + j - 1
          BY <5>1, <5>3
        <5> QED BY <5>2, <5>4
      <4>3. 1 \in 1 .. m
        BY <2>7
      <4> QED BY <2>13, <4>1, <4>2, <4>3
    <3>2. Len(q) \div K = m /\ m * K = Len(q)
      BY <2>10, <2>11
    <3> QED BY <2>21, <3>1, <3>2 DEF Parts
  <2>23. u \in MicroBatches(N)
    BY <2>1, <2>10, <2>21 DEF MicroBatches
  <2>24. Takes(b, InTurn(b), taken, u)
    BY <2>12, <2>16, <2>18, <2>19, <2>20, <2>21, <2>22, <2>23 DEF Takes, N
  <2> QED BY <2>24 DEF u
<1> QED BY <1>7, <1>8

-----------------------------------------------------------------------------
(***************************************************************************)
(* Whatever sequences the tokens are in, what is computed are tokens of    *)
(* the batch.                                                              *)
(***************************************************************************)
\* The parts of a micro-batch have as many tokens each, and no sequence in common.
Parted(b, u) ==
  LET m == Len(u.idxs) \div u.n_seqs
  IN /\ u.n_seqs \in Nat \ {0} /\ m \in Nat \ {0} /\ u.n_seqs * m = Len(u.idxs)
     /\ \A j, k \in 1 .. u.n_seqs :
          j # k => SeqSet(b[u.idxs[(j - 1) * m + 1]]) \cap SeqSet(b[u.idxs[(k - 1) * m + 1]]) = {}

\* split_seq takes tokens of the batch.
LEMMA SeqType ==
  ASSUME NEW b, IsBatch(b), NEW n_ubatch, NEW taken
  PROVE  /\ split_seq(b, taken, n_ubatch) \in MicroBatches(Len(b)) /\ split_seq(b, taken, n_ubatch).n_seqs = 1
         /\ n_ubatch \in Nat \ {0} /\ Len(b) # 0 /\ 1 \notin taken => split_seq(b, taken, n_ubatch).idxs # <<>>
<1> DEFINE n == Len(b)
           base == <<>>
           Step(k, d) == IF k \notin taken /\ Len(d) < n_ubatch /\ (d # <<>> => SeqSet(b[k]) \subseteq SeqSet(b[Last(d)]))
                         THEN Append(d, k) ELSE d
           E(m, h) == [k \in 0 .. m |-> IF k = 0 THEN base ELSE Step(k, h[k - 1])]
           w == CHOOSE h : h = E(n, h)
           Good(k, d) == d \in Seq(1 .. n) /\ (n_ubatch \in Nat \ {0} /\ 1 \notin taken /\ k # 0 => d # <<>>)
<1>1. n \in Nat
  BY DEF IsBatch
<1>2. split_seq(b, taken, n_ubatch).idxs = w[n]
  BY DEF split_seq
<1>3. Good(0, base)
  OBVIOUS
<1>4. ASSUME NEW k \in 1 .. n, NEW d, Good(k - 1, d) PROVE Good(k, Step(k, d))
  <2> DEFINE T == 1 .. n
  <2>1. d \in Seq(T) /\ k \in T
    BY <1>4
  <2> HIDE DEF T
  <2>2. Append(d, k) \in Seq(T) /\ Append(d, k) # <<>> /\ Len(d) \in Nat
    BY <2>1, AppendProperties, LenProperties
  <2>3. Step(k, d) \in Seq(T) /\ (Step(k, d) = d \/ Step(k, d) = Append(d, k))
    BY <2>1, <2>2
  <2>4. n_ubatch \in Nat \ {0} /\ 1 \notin taken => Step(k, d) # <<>>
    <3>1. CASE d # <<>>
      BY <2>2, <2>3, <3>1
    <3>2. CASE d = <<>>
      <4>1. n_ubatch \in Nat \ {0} /\ 1 \notin taken => k = 1
        <5>1. n_ubatch \in Nat \ {0} /\ 1 \notin taken => k - 1 = 0
          BY <1>4, <3>2
        <5> QED BY <5>1
      <4>2. Len(d) = 0
        BY <3>2
      <4>3. n_ubatch \in Nat \ {0} /\ 1 \notin taken => Step(k, d) = Append(d, k)
        BY <3>2, <4>1, <4>2
      <4> QED BY <2>2, <4>3
    <3> QED BY <3>1, <3>2
  <2> HIDE DEF Step
  <2> QED BY <2>3, <2>4 DEF T
<1> HIDE DEF Good, Step, base, n
<1>5. w[0] = base /\ \A k \in 1 .. n : w[k] = Step(k, w[k - 1])
  <2> DEFINE T == {m \in Nat : \E h : h = E(m, h)}
  <2>1. 0 \in T
    <3> DEFINE h == [k \in 0 .. 0 |-> base]
    <3>1. h = E(0, h)
      OBVIOUS
    <3> QED BY <3>1
  <2>2. ASSUME NEW m \in Nat, m \in T PROVE m + 1 \in T
    <3>1. PICK h : h = E(m, h)
      BY <2>2
    <3>0. \A k \in 0 .. m : h[k] = IF k = 0 THEN base ELSE Step(k, h[k - 1])
      BY <3>1
    <3> HIDE DEF E
    <3> DEFINE g == [k \in 0 .. m + 1 |-> IF k = m + 1 THEN Step(m + 1, h[m]) ELSE h[k]]
    <3>2. ASSUME NEW k \in 0 .. m + 1 PROVE g[k] = IF k = 0 THEN base ELSE Step(k, g[k - 1])
      <4>1. /\ k # m + 1 => k \in 0 .. m /\ (k # 0 => k - 1 \in 0 .. m + 1 /\ k - 1 # m + 1)
            /\ k = m + 1 => k # 0 /\ k - 1 = m /\ m \in 0 .. m + 1 /\ m # m + 1
        OBVIOUS
      <4>2. CASE k = m + 1
        BY <4>1, <4>2
      <4>3. CASE k # m + 1
        <5>1. g[k] = h[k] /\ (k # 0 => g[k - 1] = h[k - 1])
          BY <4>1, <4>3
        <5> HIDE DEF g
        <5> QED BY <3>0, <4>1, <4>3, <5>1
      <4> QED BY <4>2, <4>3
    <3> HIDE DEF g
    <3>3. g = E(m + 1, g)
      BY <3>2 DEF g, E
    <3> QED BY <3>3
  <2>3. n \in T
    <3> HIDE DEF T
    <3> QED BY <1>1, <2>1, <2>2, SetInduction
  <2>4. \E h : h = E(n, h)
    BY <2>3
  <2> HIDE DEF E
  <2>5. w = E(n, w)
    BY <2>4
  <2> HIDE DEF w
  <2>6. 0 \in 0 .. n /\ \A k \in 1 .. n : k \in 0 .. n /\ k # 0
    BY <1>1
  <2> QED BY <2>5, <2>6 DEF E
<1> HIDE DEF w
<1> DEFINE S == {k \in 0 .. n : Good(k, w[k])}
<1>6. 0 \in S
  BY <1>1, <1>3, <1>5
<1>7. \A k \in 1 .. n : k - 1 \in S => k \in S
  BY <1>1, <1>4, <1>5
<1> HIDE DEF S
<1>8. n \in S
  <2>1. \A k \in 0 .. n : k \in S
    BY <1>1, <1>6, <1>7, FiniteInduction
  <2> QED BY <1>1, <2>1
<1>9. Good(n, split_seq(b, taken, n_ubatch).idxs)
  BY <1>2, <1>8 DEF S
<1> QED
  <2>1. split_seq(b, taken, n_ubatch) = [idxs |-> split_seq(b, taken, n_ubatch).idxs, n_seqs |-> 1]
    BY DEF split_seq
  <2>2. split_seq(b, taken, n_ubatch).idxs \in Seq(1 .. Len(b))
    BY <1>9 DEF Good, n
  <2>3. /\ split_seq(b, taken, n_ubatch).n_seqs = 1
        /\ n_ubatch \in Nat \ {0} /\ Len(b) # 0 /\ 1 \notin taken => split_seq(b, taken, n_ubatch).idxs # <<>>
    BY <1>9, <2>1 DEF Good, n
  <2> QED BY <2>1, <2>2, <2>3 DEF MicroBatches

\* There are tokens of a sequence set from its first unused one on.
LEMMA RestType ==
  ASSUME NEW b, IsBatch(b), NEW taken, NEW f \in (1 .. Len(b)) \ taken
  PROVE  /\ RestOf(b, taken, SeqSet(b[f])) \in Seq(1 .. Len(b))
         /\ Len(RestOf(b, taken, SeqSet(b[f]))) \in Nat \ {0}
         /\ \A x \in ToSet(RestOf(b, taken, SeqSet(b[f]))) : SeqSet(b[x]) = SeqSet(b[f])
<1> DEFINE N == Len(b)
           S == SeqSet(b[f])
           all == SeqSetMap(b, S)
           K == {k \in DOMAIN all : all[k] \notin taken}
           first == Min(K)
           r == RestOf(b, taken, S)
<1>1. N \in Nat /\ DOMAIN b = 1 .. N
  BY DEF IsBatch
<1> HIDE DEF N
<1>2. all \in Seq(1 .. N) /\ ToSet(all) = {i \in 1 .. N : SeqSet(b[i]) = S}
  <2> DEFINE I == {i \in DOMAIN b : SeqSet(b[i]) = S}
  <2>1. all = InOrder(I, N)
    BY DEF SeqSetMap, N
  <2>2. I \cap (1 .. N) = {i \in 1 .. N : SeqSet(b[i]) = S}
    BY <1>1
  <2> HIDE DEF I, S, all
  <2> QED BY <1>1, <2>1, <2>2, InOrderFacts
<1>3. r = SubSeq(all, first, Len(all))
  BY DEF RestOf
<1> HIDE DEF r, all
<1>4. Len(all) \in Nat /\ DOMAIN all = 1 .. Len(all) /\ \A k \in DOMAIN all : all[k] \in 1 .. N
  BY <1>2, LenProperties, ElementOfSeq
<1>5. first \in 1 .. Len(all)
  <2>1. f \in ToSet(all)
    BY <1>2 DEF N
  <2>2. K \in SUBSET Nat /\ K # {}
    BY <1>4, <2>1 DEF ToSet
  <2>3. first \in K
    <3> HIDE DEF K
    <3> QED BY <2>2, MinOf
  <2> QED BY <1>4, <2>3
<1> HIDE DEF first, K
<1>6. r \in Seq(1 .. N) /\ Len(r) = Len(all) - first + 1 /\ \A i \in 1 .. Len(r) : r[i] = all[first + i - 1]
  <2>1. \A k \in first .. Len(all) : all[k] \in 1 .. N
    BY <1>4, <1>5
  <2>2. /\ r \in Seq(1 .. N) /\ Len(r) = Len(all) - first + 1
        /\ \A i \in 1 .. Len(all) - first + 1 : r[i] = all[first + i - 1]
    BY <1>3, <1>4, <1>5, <2>1, SubSeqProperties
  <2> QED BY <2>2
<1>7. Len(r) \in Nat \ {0}
  BY <1>4, <1>5, <1>6
<1>8. ASSUME NEW x \in ToSet(r) PROVE SeqSet(b[x]) = S
  <2>1. DOMAIN r = 1 .. Len(r)
    BY <1>6, LenProperties
  <2>2. PICK i \in 1 .. Len(r) : r[i] = x
    BY <2>1 DEF ToSet
  <2>3. first + i - 1 \in 1 .. Len(all)
    BY <1>4, <1>5, <1>6
  <2>4. x = all[first + i - 1]
    BY <1>6, <2>2
  <2>5. x \in ToSet(all)
    BY <1>4, <2>3, <2>4 DEF ToSet
  <2> QED BY <1>2, <2>5
<1> QED BY <1>6, <1>7, <1>8 DEF r, N

\* split_equal takes tokens of the batch.
LEMMA EqualType ==
  ASSUME NEW b, IsBatch(b), NEW n_ubatch \in Nat \ {0}, NEW taken \in SUBSET (1 .. Len(b)), NEW sequential \in BOOLEAN
  PROVE  LET u == split_equal(b, taken, n_ubatch, sequential)
         IN /\ u \in MicroBatches(Len(b)) /\ (u.idxs # <<>> => Parted(b, u))
            /\ ~sequential /\ Len(b) # 0 /\ taken = {} => u.idxs # <<>>
<1> DEFINE N == Len(b)
           firsts == Firsts(b, taken, n_ubatch, sequential)
           K == Len(firsts)
           sets == SeqSets(b, firsts)
           u == split_equal(b, taken, n_ubatch, sequential)
           rest == [k \in DOMAIN sets |-> RestOf(b, taken, sets[k])]
           m == Rounds(rest, n_ubatch)
           rows == [k \in DOMAIN rest |-> SubSeq(rest[k], 1, m)]
           q == FlattenSeq(rows)
<1>1. Empty \in MicroBatches(N) /\ Empty.idxs = <<>>
  BY DEF Empty, MicroBatches
<1>0. N \in Nat
  BY DEF IsBatch
<1>2. /\ firsts \in Seq((1 .. N) \ taken)
      /\ \A i, j \in DOMAIN firsts : i # j => SeqSet(b[firsts[i]]) \cap SeqSet(b[firsts[j]]) = {}
      /\ firsts = <<>> => 1 .. N \subseteq taken
  BY FirstsFacts DEF Separate
<1> HIDE DEF firsts, N
<1>3. K \in Nat /\ DOMAIN firsts = 1 .. K /\ \A k \in 1 .. K : firsts[k] \in (1 .. N) \ taken
  BY <1>2, LenProperties, ElementOfSeq
<1>4. DOMAIN sets = 1 .. K /\ \A k \in 1 .. K : sets[k] = SeqSet(b[firsts[k]])
  BY <1>3 DEF SeqSets
<1>5. (u = Empty /\ (sequential \/ sets = <<>>)) \/ (sets # <<>> /\ u = [idxs |-> q, n_seqs |-> Len(rest)])
  <2>1. (u = Empty /\ sequential) \/ u = EqualParts(b, taken, n_ubatch, sets)
    BY DEF split_equal, firsts
  <2>2. EqualParts(b, taken, n_ubatch, sets) = IF sets = <<>> THEN Empty ELSE FirstOf(rest, m)
    BY DEF EqualParts
  <2>3. FirstOf(rest, m) = [idxs |-> q, n_seqs |-> Len(rest)]
    BY DEF FirstOf
  <2> HIDE DEF u, sets, rest, q, m
  <2> QED BY <2>1, <2>2, <2>3
<1> HIDE DEF u, sets
<1>6. CASE u = Empty /\ (sequential \/ sets = <<>>)
  <2>1. sets = <<>> /\ N # 0 => taken # {}
    <3> SUFFICES ASSUME sets = <<>>, N # 0, taken = {} PROVE FALSE
      OBVIOUS
    <3>1. 1 \in 1 .. N
      BY <1>0
    <3>2. firsts # <<>>
      BY <1>2, <3>1
    <3>3. K # 0
      BY <1>2, <3>2, EmptySeq
    <3>4. 1 \in DOMAIN sets
      BY <1>3, <1>4, <3>3
    <3> QED BY <3>4
  <2> QED BY <1>1, <1>6, <2>1 DEF u, N
<1>7. CASE sets # <<>> /\ u = [idxs |-> q, n_seqs |-> Len(rest)]
  <2>1. K \in Nat \ {0}
    <3>1. K = 0 => firsts = <<>>
      BY <1>2, EmptySeq
    <3>2. SeqSets(b, <<>>) = <<>>
      BY DEF SeqSets
    <3> QED BY <1>3, <1>7, <3>1, <3>2 DEF sets
  <2> HIDE DEF K
  <2>2. ASSUME NEW k \in 1 .. K PROVE rest[k] \in Seq(1 .. N) /\ Len(rest[k]) \in Nat \ {0} /\ SeqSet(b[rest[k][1]]) = sets[k]
    <3> DEFINE f == firsts[k]
    <3>1. f \in (1 .. N) \ taken /\ rest[k] = RestOf(b, taken, SeqSet(b[f]))
      BY <1>3, <1>4
    <3>2. sets[k] = SeqSet(b[f])
      BY <1>4
    <3> HIDE DEF f, rest
    <3>3. /\ rest[k] \in Seq(1 .. N) /\ Len(rest[k]) \in Nat \ {0}
          /\ \A x \in ToSet(rest[k]) : SeqSet(b[x]) = SeqSet(b[f])
      BY <3>1, RestType DEF N
    <3>4. rest[k][1] \in ToSet(rest[k])
      <4>1. 1 \in DOMAIN rest[k]
        BY <3>3, LenProperties
      <4> QED BY <4>1 DEF ToSet
    <3> QED BY <3>2, <3>3, <3>4
  <2>3. DOMAIN rest = 1 .. K /\ rest = [k \in 1 .. K |-> rest[k]]
    BY <1>4
  <2> HIDE DEF rest
  <2>4. Len(rest) = K
    <3>1. rest \in [1 .. K -> Seq(1 .. N)]
      BY <2>2, <2>3
    <3> QED BY <2>1, <3>1, FunctionSeq
  <2>5. m \in Nat \ {0} /\ \A k \in 1 .. K : m <= Len(rest[k])
    BY <2>1, <2>2, <2>3, <2>4, RoundsFacts
  <2> HIDE DEF m
  <2>6. ASSUME NEW k \in 1 .. K PROVE rows[k] \in Seq(1 .. N) /\ Len(rows[k]) = m /\ rows[k][1] = rest[k][1]
    <3> DEFINE r == rest[k]
    <3>1. r \in Seq(1 .. N) /\ Len(r) \in Nat /\ m <= Len(r)
      BY <2>2, <2>5
    <3>2. rows[k] = SubSeq(r, 1, m)
      BY <2>3
    <3> HIDE DEF r, rows
    <3>3. \A i \in 1 .. m : r[i] \in 1 .. N
      <4>1. \A i \in 1 .. m : i \in 1 .. Len(r)
        BY <2>5, <3>1
      <4> QED BY <3>1, <4>1, ElementOfSeq
    <3>4. /\ SubSeq(r, 1, m) \in Seq(1 .. N) /\ Len(SubSeq(r, 1, m)) = m - 1 + 1
          /\ \A i \in 1 .. m - 1 + 1 : SubSeq(r, 1, m)[i] = r[1 + i - 1]
      BY <2>5, <3>1, <3>3, SubSeqProperties
    <3>5. m - 1 + 1 = m /\ 1 \in 1 .. m - 1 + 1 /\ 1 + 1 - 1 = 1
      BY <2>5
    <3> QED BY <3>2, <3>4, <3>5 DEF r
  <2>7. rows \in [1 .. K -> Seq(1 .. N)]
    BY <2>3, <2>6
  <2> HIDE DEF rows
  <2>8. Rows(rows, 1 .. N, K, m)
    BY <2>6, <2>7 DEF Rows
  <2> DEFINE S == 1 .. N
  <2>9. Rows(rows, S, K, m)
    BY <2>8
  <2> HIDE DEF S
  <2>10. Joined(q, rows, S, K, m)
    BY <2>1, <2>5, <2>9, FlattenEqual
  <2>11. /\ q \in Seq(1 .. N) /\ Len(q) = K * m
         /\ \A k \in 1 .. K, j \in 1 .. m : q[(k - 1) * m + j] = rows[k][j]
    BY <2>10 DEF Joined, S
  <2> HIDE DEF q
  <2>12. K * m \in Nat \ {0} /\ (K * m) \div K = m
    BY <2>1, <2>5, Places
  <2>13. u.idxs = q /\ u.n_seqs = K /\ q # <<>>
    BY <1>7, <2>4, <2>11, <2>12
  <2>14. \A k \in 1 .. K : SeqSet(b[q[(k - 1) * m + 1]]) = SeqSet(b[firsts[k]])
    <3> TAKE k \in 1 .. K
    <3>1. 1 \in 1 .. m
      BY <2>5
    <3>2. q[(k - 1) * m + 1] = rows[k][1]
      BY <2>11, <3>1
    <3> QED BY <1>4, <2>2, <2>6, <3>2
  <2>15. \A j, k \in 1 .. K : j # k => SeqSet(b[q[(j - 1) * m + 1]]) \cap SeqSet(b[q[(k - 1) * m + 1]]) = {}
    <3> TAKE j, k \in 1 .. K
    <3>1. j # k => SeqSet(b[firsts[j]]) \cap SeqSet(b[firsts[k]]) = {}
      BY <1>2, <1>3
    <3> QED BY <2>14, <3>1
  <2>16. Len(u.idxs) \div u.n_seqs = m
    BY <2>11, <2>12, <2>13
  <2>17. Parted(b, u)
    BY <2>1, <2>5, <2>11, <2>13, <2>15, <2>16 DEF Parted
  <2>18. u \in MicroBatches(N)
    BY <1>7, <2>1, <2>4, <2>11 DEF MicroBatches
  <2> QED BY <2>13, <2>17, <2>18 DEF u, N
<1> QED BY <1>5, <1>6, <1>7

\* What is split into is what the next micro-batches are.
LEMMA SplitsType ==
  ASSUME NEW b, Len(b) \in Nat, NEW n_ubatch, NEW mode,
         \A taken \in SUBSET (1 .. Len(b)) : NextSplit(b, n_ubatch, mode, taken) \in MicroBatches(Len(b))
  PROVE  Splits(b, n_ubatch, mode) \in Seq(MicroBatches(Len(b)))
<1> DEFINE n == Len(b)
           base == <<>>
           Step(k, d) == Extended(d, NextSplit(b, n_ubatch, mode, Used(d)))
           E(m, h) == [k \in 0 .. m |-> IF k = 0 THEN base ELSE Step(k, h[k - 1])]
           w == CHOOSE h : h = E(n, h)
           Good(k, d) == d \in Seq(MicroBatches(Len(b)))
<1>1. n \in Nat
  OBVIOUS
<1>2. Splits(b, n_ubatch, mode) = w[n]
  BY DEF Splits, Used, NextSplit
<1>3. Good(0, base)
  OBVIOUS
<1>4. ASSUME NEW k \in 1 .. n, NEW d, Good(k - 1, d) PROVE Good(k, Step(k, d))
  <2> DEFINE u == NextSplit(b, n_ubatch, mode, Used(d))
             M == MicroBatches(Len(b))
  <2>1. d \in Seq(M)
    BY <1>4
  <2>2. Used(d) \in SUBSET (1 .. Len(b))
    <3> SUFFICES ASSUME NEW k2 \in DOMAIN d PROVE ToSet(d[k2].idxs) \subseteq 1 .. Len(b)
      BY DEF Used
    <3>1. d[k2] \in M
      BY <2>1, ElementOfSeq, LenProperties
    <3>2. d[k2].idxs \in Seq(1 .. Len(b))
      BY <3>1 DEF MicroBatches
    <3> QED BY <3>2, LenProperties, ElementOfSeq DEF ToSet
  <2>3. u \in M
    BY <2>2
  <2> HIDE DEF u, M
  <2>4. Append(d, u) \in Seq(M)
    BY <2>1, <2>3, AppendProperties
  <2>5. Extended(d, u) \in Seq(M)
    BY <2>1, <2>4 DEF Extended
  <2> QED BY <2>5 DEF u, M
<1> HIDE DEF Good, Step, base, n
<1>5. w[0] = base /\ \A k \in 1 .. n : w[k] = Step(k, w[k - 1])
  <2> DEFINE T == {m \in Nat : \E h : h = E(m, h)}
  <2>1. 0 \in T
    <3> DEFINE h == [k \in 0 .. 0 |-> base]
    <3>1. h = E(0, h)
      OBVIOUS
    <3> QED BY <3>1
  <2>2. ASSUME NEW m \in Nat, m \in T PROVE m + 1 \in T
    <3>1. PICK h : h = E(m, h)
      BY <2>2
    <3>0. \A k \in 0 .. m : h[k] = IF k = 0 THEN base ELSE Step(k, h[k - 1])
      BY <3>1
    <3> HIDE DEF E
    <3> DEFINE g == [k \in 0 .. m + 1 |-> IF k = m + 1 THEN Step(m + 1, h[m]) ELSE h[k]]
    <3>2. ASSUME NEW k \in 0 .. m + 1 PROVE g[k] = IF k = 0 THEN base ELSE Step(k, g[k - 1])
      <4>1. /\ k # m + 1 => k \in 0 .. m /\ (k # 0 => k - 1 \in 0 .. m + 1 /\ k - 1 # m + 1)
            /\ k = m + 1 => k # 0 /\ k - 1 = m /\ m \in 0 .. m + 1 /\ m # m + 1
        OBVIOUS
      <4>2. CASE k = m + 1
        BY <4>1, <4>2
      <4>3. CASE k # m + 1
        <5>1. g[k] = h[k] /\ (k # 0 => g[k - 1] = h[k - 1])
          BY <4>1, <4>3
        <5> HIDE DEF g
        <5> QED BY <3>0, <4>1, <4>3, <5>1
      <4> QED BY <4>2, <4>3
    <3> HIDE DEF g
    <3>3. g = E(m + 1, g)
      BY <3>2 DEF g, E
    <3> QED BY <3>3
  <2>3. n \in T
    <3> HIDE DEF T
    <3> QED BY <1>1, <2>1, <2>2, SetInduction
  <2>4. \E h : h = E(n, h)
    BY <2>3
  <2> HIDE DEF E
  <2>5. w = E(n, w)
    BY <2>4
  <2> HIDE DEF w
  <2>6. 0 \in 0 .. n /\ \A k \in 1 .. n : k \in 0 .. n /\ k # 0
    BY <1>1
  <2> QED BY <2>5, <2>6 DEF E
<1> HIDE DEF w
<1> DEFINE S == {k \in 0 .. n : Good(k, w[k])}
<1>6. 0 \in S
  BY <1>1, <1>3, <1>5
<1>7. \A k \in 1 .. n : k - 1 \in S => k \in S
  BY <1>1, <1>4, <1>5
<1> HIDE DEF S
<1>8. n \in S
  <2>1. \A k \in 0 .. n : k \in S
    BY <1>1, <1>6, <1>7, FiniteInduction
  <2> QED BY <1>1, <2>1
<1>9. Good(n, Splits(b, n_ubatch, mode))
  BY <1>2, <1>8 DEF S
<1> QED
  BY <1>9 DEF Good

\* The order consists of tokens of the batch.
LEMMA OrderType ==
  ASSUME NEW N \in Nat, NEW us \in Seq(MicroBatches(N))
  PROVE  ComputedOrder(us) \in Seq(1 .. N)
<1> DEFINE n == Len(us)
           s == [k \in DOMAIN us |-> us[k].idxs]
<1>1. n \in Nat /\ DOMAIN us = 1 .. n /\ (us = <<>> <=> n = 0) /\ \A k \in 1 .. n : us[k] \in MicroBatches(N)
  BY LenProperties, EmptySeq, ElementOfSeq
<1> HIDE DEF n
<1>2. s \in [1 .. n -> Seq(1 .. N)] /\ \A k \in 1 .. n : s[k] \in Seq(1 .. N)
  BY <1>1 DEF MicroBatches
<1>3. ComputedOrder(us) = FlattenSeq(s)
  BY DEF ComputedOrder
<1> HIDE DEF s
<1>4. Len(s) = n
  BY <1>1, <1>2, FunctionSeq
<1>5. CASE n = 0
  <2>1. ComputedOrder(us) = <<>>
    BY <1>1, <1>3, <1>4, <1>5 DEF FlattenSeq
  <2> QED BY <2>1
<1>6. CASE n # 0
  <2>1. PICK f : FlattenSeq(s) = f[n] /\ Flattens(f, s)
    <3>1. Len(s) \in Nat \ {0}
      BY <1>1, <1>4, <1>6
    <3> QED BY <1>4, <3>1, FlattenUnfolds
  <2>2. f[1] = s[1] /\ \A k \in 2 .. n : f[k] = f[k - 1] \o s[k]
    BY <1>4, <2>1 DEF Flattens
  <2> DEFINE S == 1 .. N
             T == {k \in 0 .. n : k # 0 => f[k] \in Seq(S)}
  <2>3. \A k \in 1 .. n : s[k] \in Seq(S)
    BY <1>2
  <2> HIDE DEF S
  <2>4. 0 \in T
    BY <1>1
  <2>5. ASSUME NEW k \in 1 .. n, k - 1 \in T PROVE k \in T
    <3>1. CASE k = 1
      BY <2>2, <2>3, <3>1
    <3>2. CASE k # 1
      <4>1. k \in 2 .. n /\ k - 1 # 0
        BY <1>1, <3>2
      <4>2. f[k - 1] \in Seq(S) /\ s[k] \in Seq(S) /\ f[k] = f[k - 1] \o s[k]
        BY <2>2, <2>3, <2>5, <4>1
      <4>3. f[k] \in Seq(S)
        BY <4>2, ConcatProperties
      <4> QED BY <4>3
    <3> QED BY <3>1, <3>2
  <2> HIDE DEF T
  <2>6. n \in T
    <3>1. \A k \in 0 .. n : k \in T
      BY <1>1, <2>4, <2>5, FiniteInduction
    <3> QED BY <1>1, <3>1
  <2>7. f[n] \in Seq(S)
    BY <1>6, <2>6 DEF T
  <2> QED BY <1>3, <2>1, <2>7 DEF S
<1> QED BY <1>5, <1>6

\* Some token is always taken first.
LEMMA NextParted ==
  ASSUME NEW b, IsBatch(b), NEW n_ubatch \in Nat \ {0}, NEW taken \in SUBSET (1 .. Len(b)), NEW mode \in {"seq", "equal"}
  PROVE  LET u == NextSplit(b, n_ubatch, mode, taken)
         IN /\ u \in MicroBatches(Len(b)) /\ (u.idxs # <<>> => Parted(b, u))
            /\ Len(b) # 0 /\ taken = {} => u.idxs # <<>>
<1>1. CASE mode = "seq"
  <2> DEFINE u == split_seq(b, taken, n_ubatch)
  <2>1. u \in MicroBatches(Len(b)) /\ u.n_seqs = 1 /\ (Len(b) # 0 /\ 1 \notin taken => u.idxs # <<>>)
    BY SeqType
  <2>2. NextSplit(b, n_ubatch, mode, taken) = u
    BY <1>1 DEF NextSplit
  <2> HIDE DEF u
  <2>3. ASSUME u.idxs # <<>> PROVE Parted(b, u)
    <3> DEFINE q == u.idxs
    <3>1. q \in Seq(1 .. Len(b)) /\ q # <<>>
      BY <2>1, <2>3 DEF MicroBatches
    <3> HIDE DEF q
    <3>2. Len(q) \in Nat \ {0}
      BY <3>1, LenProperties, EmptySeq
    <3> DEFINE l == Len(q)
    <3>3. l \div 1 = l /\ 1 * l = l
      BY <3>2
    <3>4. \A j, k \in 1 .. 1 : j = k
      OBVIOUS
    <3>5. Len(u.idxs) = l /\ u.n_seqs = 1 /\ l \in Nat \ {0}
      BY <2>1, <3>2 DEF q
    <3> HIDE DEF l
    <3> QED BY <3>3, <3>4, <3>5 DEF Parted
  <2> QED BY <2>1, <2>2, <2>3
<1>2. CASE mode = "equal"
  <2> DEFINE u == split_equal(b, taken, n_ubatch, FALSE)
  <2>1. /\ u \in MicroBatches(Len(b)) /\ (u.idxs # <<>> => Parted(b, u))
        /\ Len(b) # 0 /\ taken = {} => u.idxs # <<>>
    BY EqualType
  <2>2. NextSplit(b, n_ubatch, mode, taken) = u
    BY <1>2 DEF NextSplit
  <2> HIDE DEF u
  <2> QED BY <2>1, <2>2
<1> QED BY <1>1, <1>2

\* The micro-batches of a batch that is split by its sequence sets, and there are some.
LEMMA SplitsParted ==
  ASSUME NEW b, IsBatch(b), NEW n_ubatch \in Nat \ {0}, NEW mode \in {"seq", "equal"}
  PROVE  LET us == Splits(b, n_ubatch, mode)
         IN /\ us \in Seq(MicroBatches(Len(b))) /\ (\A k \in DOMAIN us : Parted(b, us[k]))
            /\ Len(b) = 0 => us = <<>>
            /\ Len(b) # 0 => us # <<>>
<1> DEFINE n == Len(b)
           base == <<>>
           M == {u \in MicroBatches(Len(b)) : Parted(b, u)}
           Step(k, d) == Extended(d, NextSplit(b, n_ubatch, mode, Used(d)))
           E(m, h) == [k \in 0 .. m |-> IF k = 0 THEN base ELSE Step(k, h[k - 1])]
           w == CHOOSE h : h = E(n, h)
           Kept(k, d) == d \in Seq(M) /\ (k = 0 => d = <<>>) /\ (k # 0 => d # <<>>)
<1>1. n \in Nat
  BY DEF IsBatch
<1>2. Splits(b, n_ubatch, mode) = w[n]
  BY DEF Splits, Used, NextSplit
<1>3. Kept(0, base)
  OBVIOUS
<1>4. ASSUME NEW k \in 1 .. n, NEW d, Kept(k - 1, d) PROVE Kept(k, Step(k, d))
  <2> DEFINE u == NextSplit(b, n_ubatch, mode, Used(d))
  <2>1. d \in Seq(M) /\ (k - 1 = 0 => d = <<>>) /\ (k - 1 # 0 => d # <<>>) /\ n # 0 /\ k # 0
    BY <1>1, <1>4
  <2> HIDE DEF Kept
  <2>2. Used(d) \in SUBSET (1 .. Len(b))
    <3> SUFFICES ASSUME NEW k2 \in DOMAIN d PROVE ToSet(d[k2].idxs) \subseteq 1 .. Len(b)
      BY DEF Used
    <3>1. d[k2] \in M
      <4> HIDE DEF M
      <4> QED BY <2>1, ElementOfSeq, LenProperties
    <3>2. d[k2].idxs \in Seq(1 .. Len(b))
      BY <3>1 DEF MicroBatches
    <3> QED BY <3>2, LenProperties, ElementOfSeq DEF ToSet
  <2>3. /\ u \in MicroBatches(Len(b)) /\ (u.idxs # <<>> => Parted(b, u))
        /\ Len(b) # 0 /\ Used(d) = {} => u.idxs # <<>>
    BY <2>2, NextParted
  <2>4. d = <<>> => Used(d) = {}
    BY DEF Used
  <2>5. u.idxs # <<>> => u \in M
    BY <2>3
  <2>6. Step(k, d) = IF u.idxs = <<>> THEN d ELSE Append(d, u)
    BY DEF Extended
  <2> HIDE DEF u, M, Step
  <2>7. u.idxs # <<>> => Append(d, u) \in Seq(M) /\ Append(d, u) # <<>>
    BY <2>1, <2>5, AppendProperties
  <2>8. d = <<>> => u.idxs # <<>>
    BY <2>1, <2>3, <2>4
  <2> QED BY <2>1, <2>6, <2>7, <2>8 DEF Kept
<1> HIDE DEF Kept, Step, base, n, M
<1>5. w[0] = base /\ \A k \in 1 .. n : w[k] = Step(k, w[k - 1])
  <2> DEFINE T == {m \in Nat : \E h : h = E(m, h)}
  <2>1. 0 \in T
    <3> DEFINE h == [k \in 0 .. 0 |-> base]
    <3>1. h = E(0, h)
      OBVIOUS
    <3> QED BY <3>1
  <2>2. ASSUME NEW m \in Nat, m \in T PROVE m + 1 \in T
    <3>1. PICK h : h = E(m, h)
      BY <2>2
    <3>0. \A k \in 0 .. m : h[k] = IF k = 0 THEN base ELSE Step(k, h[k - 1])
      BY <3>1
    <3> HIDE DEF E
    <3> DEFINE g == [k \in 0 .. m + 1 |-> IF k = m + 1 THEN Step(m + 1, h[m]) ELSE h[k]]
    <3>2. ASSUME NEW k \in 0 .. m + 1 PROVE g[k] = IF k = 0 THEN base ELSE Step(k, g[k - 1])
      <4>1. /\ k # m + 1 => k \in 0 .. m /\ (k # 0 => k - 1 \in 0 .. m + 1 /\ k - 1 # m + 1)
            /\ k = m + 1 => k # 0 /\ k - 1 = m /\ m \in 0 .. m + 1 /\ m # m + 1
        OBVIOUS
      <4>2. CASE k = m + 1
        BY <4>1, <4>2
      <4>3. CASE k # m + 1
        <5>1. g[k] = h[k] /\ (k # 0 => g[k - 1] = h[k - 1])
          BY <4>1, <4>3
        <5> HIDE DEF g
        <5> QED BY <3>0, <4>1, <4>3, <5>1
      <4> QED BY <4>2, <4>3
    <3> HIDE DEF g
    <3>3. g = E(m + 1, g)
      BY <3>2 DEF g, E
    <3> QED BY <3>3
  <2>3. n \in T
    <3> HIDE DEF T
    <3> QED BY <1>1, <2>1, <2>2, SetInduction
  <2>4. \E h : h = E(n, h)
    BY <2>3
  <2> HIDE DEF E
  <2>5. w = E(n, w)
    BY <2>4
  <2> HIDE DEF w
  <2>6. 0 \in 0 .. n /\ \A k \in 1 .. n : k \in 0 .. n /\ k # 0
    BY <1>1
  <2> QED BY <2>5, <2>6 DEF E
<1> HIDE DEF w, E
<1>6. Kept(n, w[n])
  <2> DEFINE S == {k \in 0 .. n : Kept(k, w[k])}
  <2>1. 0 \in S
    BY <1>1, <1>3, <1>5
  <2>2. ASSUME NEW k \in 1 .. n, k - 1 \in S PROVE k \in S
    <3>1. Kept(k - 1, w[k - 1]) /\ k \in 0 .. n
      BY <1>1, <2>2
    <3>2. Kept(k, Step(k, w[k - 1]))
      BY <1>4, <3>1
    <3> QED BY <1>5, <3>1, <3>2
  <2> HIDE DEF S
  <2>3. n \in S
    <3>1. \A k \in 0 .. n : k \in S
      BY <1>1, <2>1, <2>2, FiniteInduction
    <3> QED BY <1>1, <3>1
  <2> QED BY <2>3 DEF S
<1>7. Splits(b, n_ubatch, mode) \in Seq(M) /\ (n = 0 <=> Splits(b, n_ubatch, mode) = <<>>)
  BY <1>2, <1>6 DEF Kept
<1> DEFINE us == Splits(b, n_ubatch, mode)
<1> HIDE DEF us
<1>8. \A k \in DOMAIN us : us[k] \in M
  BY <1>7, LenProperties, ElementOfSeq DEF us
<1>9. us \in Seq(MicroBatches(Len(b)))
  <2>1. M \subseteq MicroBatches(Len(b))
    BY DEF M
  <2> QED BY <1>7, <2>1, SeqMonotonic DEF us
<1>10. \A k \in DOMAIN us : Parted(b, us[k])
  BY <1>8 DEF M
<1> QED BY <1>7, <1>9, <1>10 DEF us, n

\* The ways to split a batch.
Modes(b) == {"simple", "equal", "seq"} \union (IF Coupled(b) = {} THEN {"sequential"} ELSE {})

\* Each of them splits the whole batch.
LEMMA WholeSplits ==
  ASSUME NEW b, IsBatch(b), Apart(b), NEW n_ubatch \in Nat \ {0}, NEW mode \in Modes(b)
  PROVE  Whole(b, Splits(b, n_ubatch, mode))
<1> DEFINE N == Len(b)
           us == Splits(b, n_ubatch, mode)
           o == ComputedOrder(us)
<1>1. N \in Nat /\ DOMAIN b = 1 .. N
  BY DEF IsBatch
<1>2. ASSUME NEW R, \A taken \in SUBSET (1 .. N) : Closed(R, taken) => Takes(b, R, taken, NextSplit(b, n_ubatch, mode, taken))
      PROVE  InSplits(b, R, us)
  BY <1>1, <1>2, SplitsFacts
<1>3. InSplits(b, InTurn(b), us) \/ InSplits(b, AllInTurn(b), us)
  <2>1. CASE mode = "simple"
    <3>1. ASSUME NEW taken \in SUBSET (1 .. N), Closed(AllInTurn(b), taken)
          PROVE  Takes(b, AllInTurn(b), taken, NextSplit(b, n_ubatch, mode, taken))
      <4>1. NextSplit(b, n_ubatch, mode, taken) = split_simple(b, taken, n_ubatch)
        BY <2>1 DEF NextSplit
      <4> QED BY <3>1, <4>1, SimpleTakes
    <3> HIDE DEF us
    <3> QED BY <1>2, <3>1
  <2>2. CASE mode = "equal"
    <3>1. ASSUME NEW taken \in SUBSET (1 .. N), Closed(InTurn(b), taken)
          PROVE  Takes(b, InTurn(b), taken, NextSplit(b, n_ubatch, mode, taken))
      <4>1. NextSplit(b, n_ubatch, mode, taken) = split_equal(b, taken, n_ubatch, FALSE)
        BY <2>2 DEF NextSplit
      <4> QED BY <3>1, <4>1, EqualTakes
    <3> HIDE DEF us
    <3> QED BY <1>2, <3>1
  <2>3. CASE mode = "sequential"
    <3>0. Coupled(b) = {}
      BY <2>3 DEF Modes
    <3>1. ASSUME NEW taken \in SUBSET (1 .. N), Closed(InTurn(b), taken)
          PROVE  Takes(b, InTurn(b), taken, NextSplit(b, n_ubatch, mode, taken))
      <4>1. NextSplit(b, n_ubatch, mode, taken) = split_equal(b, taken, n_ubatch, TRUE)
        BY <2>3 DEF NextSplit
      <4> QED BY <3>0, <3>1, <4>1, EqualTakes
    <3> HIDE DEF us
    <3> QED BY <1>2, <3>1
  <2>4. CASE mode = "seq"
    <3>1. ASSUME NEW taken \in SUBSET (1 .. N), Closed(InTurn(b), taken)
          PROVE  Takes(b, InTurn(b), taken, NextSplit(b, n_ubatch, mode, taken))
      <4>1. NextSplit(b, n_ubatch, mode, taken) = split_seq(b, taken, n_ubatch)
        BY <2>4 DEF NextSplit
      <4> QED BY <3>1, <4>1, SeqTakes
    <3> HIDE DEF us
    <3> QED BY <1>2, <3>1
  <2>5. mode = "simple" \/ mode = "equal" \/ mode = "sequential" \/ mode = "seq"
    BY DEF Modes
  <2> QED BY <2>1, <2>2, <2>3, <2>4, <2>5
<1> HIDE DEF us
<1>4. /\ o \in Seq(1 .. N) /\ Len(o) = N /\ ToSet(o) = 1 .. N /\ Once(o)
      /\ \A k \in DOMAIN us : Parts(b, us[k])
  BY <1>3 DEF InSplits
<1>5. Before(InTurn(b), o) \/ Before(AllInTurn(b), o)
  BY <1>3 DEF InSplits
<1> HIDE DEF o, N
<1>6. ASSUME NEW i \in DOMAIN o, NEW j \in DOMAIN o, i < j, SeqSet(b[o[i]]) \cap SeqSet(b[o[j]]) # {}
      PROVE  o[i] < o[j]
  <2>1. o[i] \in 1 .. N /\ o[j] \in 1 .. N
    BY <1>4, ElementOfSeq
  <2>2. o[i] # o[j]
    BY <1>4, <1>6, LenProperties DEF Once
  <2>3. ASSUME o[j] < o[i] PROVE FALSE
    <3>1. <<o[j], o[i]>> \in AllInTurn(b) /\ <<o[j], o[i]>> \in InTurn(b)
      BY <1>6, <2>1, <2>3 DEF AllInTurn, InTurn, N
    <3> QED BY <1>5, <1>6, <3>1 DEF Before
  <2> QED BY <1>1, <2>1, <2>2, <2>3
<1>7. Whole(b, us)
  <2>1. \A k \in DOMAIN us :
          LET m == Len(us[k].idxs) \div us[k].n_seqs
          IN /\ m * us[k].n_seqs = Len(us[k].idxs)
             /\ \A x \in DOMAIN us[k].idxs :
                  SeqSet(b[us[k].idxs[x]]) = SeqSet(b[us[k].idxs[((x - 1) \div m) * m + 1]])
    BY <1>4 DEF Parts
  <2> QED BY <1>1, <1>4, <1>6, <2>1 DEF Whole, o, N
<1> QED BY <1>7 DEF us

-----------------------------------------------------------------------------
(***************************************************************************)
(* What a decode computes.                                                 *)
(***************************************************************************)
\* Two tokens of a batch have the same sequences or none in common.
ShapesApart == \A lists \in Shapes : \A i, j \in DOMAIN lists :
  ToSet(lists[i]) = ToSet(lists[j]) \/ ToSet(lists[i]) \cap ToSet(lists[j]) = {}

\* The positions do not change the sequences.
LEMMA BatchFacts ==
  ASSUME NEW b \in Batches
  PROVE  IsBatch(b) /\ (ShapesApart => Apart(b))
<1>1. PICK lists \in Shapes : \E hi : b = AutoPos(lists, hi)
  BY DEF Batches
<1>2. /\ lists \in Seq(Seq(Seqs)) /\ \A i \in DOMAIN lists : lists[i] # <<>>
      /\ ShapesApart => \A i, j \in DOMAIN lists : \/ ToSet(lists[i]) = ToSet(lists[j])
                                                    \/ ToSet(lists[i]) \cap ToSet(lists[j]) = {}
  BY ShapesAssumption DEF ShapesApart
<1> DEFINE n == Len(lists)
<1>3. n \in Nat /\ DOMAIN lists = 1 .. n /\ \A i \in 1 .. n : lists[i] \in Seq(Seqs) /\ lists[i] # <<>>
  BY <1>2, LenProperties, ElementOfSeq
<1> HIDE DEF n
<1>4. PICK p : b = [i \in DOMAIN lists |-> [ids |-> lists[i], pos |-> p[i - 1][lists[i][1]]]]
  BY <1>1 DEF AutoPos
<1>5. b = [i \in 1 .. n |-> b[i]] /\ DOMAIN b = 1 .. n /\ \A i \in 1 .. n : SeqSet(b[i]) = ToSet(lists[i])
  BY <1>3, <1>4 DEF SeqSet
<1>6. Len(b) = n
  <2> DEFINE S == {b[i] : i \in 1 .. n}
  <2>1. b \in [1 .. n -> S]
    BY <1>5
  <2> HIDE DEF S
  <2> QED BY <1>3, <2>1, FunctionSeq
<1>7. \A i \in 1 .. n : ToSet(lists[i]) # {}
  <2> TAKE i \in 1 .. n
  <2>1. lists[i] \in Seq(Seqs) /\ lists[i] # <<>>
    BY <1>3
  <2>2. 1 \in DOMAIN lists[i]
    BY <2>1, LenProperties, EmptySeq
  <2> QED BY <2>2 DEF ToSet
<1> QED BY <1>2, <1>3, <1>5, <1>6, <1>7 DEF IsBatch, Apart

\* As long as micro-batches are to be computed, they are from a batch that was given;
\* and its splits were made of it.
BatchGiven ==
  /\ \E S : todo \in Seq(S)
  /\ todo # <<>> => IsBatch(batch.tokens) /\ (ShapesApart => Apart(batch.tokens))
  /\ \E N \in Nat : ComputedOrder(batch.splits) \in Seq(1 .. N)

\* At first there is none.
LEMMA NothingGiven == todo = <<>> /\ batch = NoBatch => BatchGiven
<1> SUFFICES ASSUME todo = <<>>, batch = NoBatch PROVE BatchGiven
  OBVIOUS
<1>1. todo \in Seq({})
  OBVIOUS
<1>2. ComputedOrder(batch.splits) = <<>>
  BY DEF NoBatch, ComputedOrder, FlattenSeq
<1>3. <<>> \in Seq(1 .. 0)
  OBVIOUS
<1> QED BY <1>1, <1>2, <1>3 DEF BatchGiven

\* A batch is begun.
LEMMA BeginGiven ==
  ASSUME NEW b \in Batches, NEW embd_all, Begin(b, embd_all)
  PROVE  BatchGiven'
<1> DEFINE us == SplitOf(b, embd_all)
           ubs == [k \in DOMAIN us |-> Ubatch(b, us[k])]
<1>1. IsBatch(b) /\ (ShapesApart => Apart(b))
  BY BatchFacts
<1>2. us \in Seq(MicroBatches(Len(b))) /\ ComputedOrder(us) \in Seq(1 .. Len(b))
  <2>1. PICK mode \in {"seq", "equal"} : us = Splits(b, NUbatch, mode)
    BY DEF SplitOf
  <2>2. Len(b) \in Nat
    BY <1>1 DEF IsBatch
  <2>3. ASSUME NEW taken \in SUBSET (1 .. Len(b)) PROVE NextSplit(b, NUbatch, mode, taken) \in MicroBatches(Len(b))
    <3>1. CASE mode = "seq"
      BY <1>1, <3>1, SeqType DEF NextSplit
    <3>2. CASE mode = "equal"
      <4>1. NextSplit(b, NUbatch, mode, taken) = split_equal(b, taken, NUbatch, FALSE)
        BY <3>2 DEF NextSplit
      <4> QED BY <1>1, <4>1, EqualType, SizeAssumption
    <3> QED BY <3>1, <3>2
  <2> HIDE DEF us
  <2>4. us \in Seq(MicroBatches(Len(b)))
    BY <2>1, <2>2, <2>3, SplitsType
  <2> QED BY <2>2, <2>4, OrderType
<1> HIDE DEF us
<1>3. \E S : ubs \in Seq(S)
  <2> DEFINE S == {Ubatch(b, us[k]) : k \in DOMAIN us}
  <2>1. Len(us) \in Nat /\ DOMAIN us = 1 .. Len(us)
    BY <1>2, LenProperties
  <2>2. ubs \in [1 .. Len(us) -> S]
    BY <2>1
  <2> HIDE DEF S, ubs
  <2>3. ubs \in Seq(S)
    BY <2>1, <2>2, FunctionSeq
  <2> QED BY <2>3
<1>4. PICK p : /\ todo' = IF p.ok /\ p.sound THEN ubs ELSE <<>>
               /\ batch' = IF ~p.sound THEN [tokens |-> b, splits |-> <<>>]
                           ELSE IF p.ok THEN [tokens |-> b, splits |-> us] ELSE NoBatch
  BY DEF Begin, us
<1> HIDE DEF ubs
<1>5. ComputedOrder(<<>>) \in Seq(1 .. 0)
  BY DEF ComputedOrder, FlattenSeq
<1>6. CASE p.ok /\ p.sound
  <2>1. todo' = ubs /\ batch' = [tokens |-> b, splits |-> us]
    BY <1>4, <1>6
  <2>2. batch'.tokens = b /\ batch'.splits = us
    BY <2>1
  <2>0. Len(b) \in Nat
    BY <1>1 DEF IsBatch
  <2>3. /\ \E S : todo' \in Seq(S)
        /\ IsBatch(batch'.tokens) /\ (ShapesApart => Apart(batch'.tokens))
        /\ \E N \in Nat : ComputedOrder(batch'.splits) \in Seq(1 .. N)
    BY <1>1, <1>2, <1>3, <2>0, <2>1, <2>2
  <2> QED BY <2>3 DEF BatchGiven
<1>7. CASE ~(p.ok /\ p.sound)
  <2>1. todo' = <<>> /\ (batch' = [tokens |-> b, splits |-> <<>>] \/ batch' = NoBatch)
    BY <1>4, <1>7
  <2>2. batch'.splits = <<>>
    BY <2>1 DEF NoBatch
  <2>3. todo' \in Seq({})
    BY <2>1
  <2> QED BY <1>5, <2>1, <2>2, <2>3 DEF BatchGiven
<1> QED BY <1>6, <1>7

\* The next micro-batch is computed.
LEMMA ComputeGiven == ASSUME BatchGiven, Compute PROVE BatchGiven'
<1>1. PICK S : todo \in Seq(S)
  BY DEF BatchGiven
<1>2. todo # <<>> /\ todo' = Tail(todo) /\ batch' = IF Len(todo) = 1 THEN NoBatch ELSE batch
  BY DEF Compute
<1>3. Tail(todo) \in Seq(S) /\ Len(Tail(todo)) = Len(todo) - 1
  BY <1>1, <1>2, HeadTailProperties
<1>4. CASE Len(todo) = 1
  <2> DEFINE q == Tail(todo)
  <2>0. q \in Seq(S) /\ Len(q) = 0
    BY <1>3, <1>4
  <2> HIDE DEF q
  <2>1. q = <<>>
    BY <2>0, EmptySeq
  <2>2. todo' = <<>> /\ batch' = NoBatch
    BY <1>2, <1>4, <2>1 DEF q
  <2>3. (todo = <<>> /\ batch = NoBatch => BatchGiven)'
    BY NothingGiven, PTL
  <2> QED BY <2>2, <2>3
<1>5. CASE Len(todo) # 1
  <2>1. batch' = batch
    BY <1>2, <1>5
  <2> QED BY <1>2, <1>3, <2>1 DEF BatchGiven
<1> QED BY <1>4, <1>5

\* Every step keeps it.
LEMMA GivenStep == ASSUME BatchGiven, [Next]_vars PROVE BatchGiven'
<1>1. ASSUME UNCHANGED <<todo, batch>> PROVE BatchGiven'
  BY <1>1 DEF BatchGiven
<1>2. ASSUME Call PROVE BatchGiven'
  BY <1>1, <1>2 DEF Call
<1>3. CASE Clear
  BY <1>2, <1>3 DEF Clear
<1>4. ASSUME NEW r \in Ranges, SeqRmAll(r) PROVE BatchGiven'
  BY <1>2, <1>4 DEF SeqRmAll
<1>5. ASSUME NEW r \in Ranges, NEW s \in Seqs, SeqRm(s, r) PROVE BatchGiven'
  BY <1>2, <1>5 DEF SeqRm
<1>6. ASSUME NEW r \in Ranges, NEW s \in Seqs, NEW d \in Shifts, SeqAdd(s, r, d) PROVE BatchGiven'
  BY <1>2, <1>6 DEF SeqAdd, Move
<1>7. ASSUME NEW r \in Ranges, NEW s \in Seqs, NEW d \in Divs, SeqDiv(s, r, d) PROVE BatchGiven'
  BY <1>2, <1>7 DEF SeqDiv, Move
<1>8. ASSUME NEW s \in Seqs, SeqKeep(s) PROVE BatchGiven'
  BY <1>2, <1>8 DEF SeqKeep
<1>9. ASSUME NEW s \in Seqs, NEW t \in Seqs \ {s}, SeqCp(s, t) \/ LoadSeq(s, t) PROVE BatchGiven'
  BY <1>2, <1>9 DEF SeqCp, LoadSeq
<1>10. ASSUME NEW b \in Batches, NEW embd_all \in EmbdModes, Begin(b, embd_all) PROVE BatchGiven'
  BY <1>10, BeginGiven
<1>11. CASE Compute
  BY <1>11, ComputeGiven
<1>12. CASE ComputeFails
  <2>1. todo' = <<>> /\ batch' = NoBatch
    BY <1>12 DEF ComputeFails
  <2>2. (todo = <<>> /\ batch = NoBatch => BatchGiven)'
    BY NothingGiven, PTL
  <2> QED BY <2>1, <2>2
<1>13. CASE Reload
  BY <1>2, <1>13 DEF Reload
<1>14. CASE UNCHANGED vars
  BY <1>1, <1>14 DEF vars
<1> QED
  BY <1>3, <1>4, <1>5, <1>6, <1>7, <1>8, <1>9, <1>10, <1>11, <1>12, <1>13, <1>14 DEF Next

\* What is computed are tokens of a batch that was given.
LEMMA GivenAlways == Spec => []BatchGiven
<1>1. Init => BatchGiven
  BY NothingGiven DEF Init
<1>2. BatchGiven /\ [Next]_vars => BatchGiven'
  BY GivenStep
<1> QED BY <1>1, <1>2, PTL DEF Spec

\* The splits of a batch, simple, equal and by sequence (split_simple, split_equal and
\* split_seq), compute each token once and in turn with those of its sequences, if tokens
\* have the same sequences or none in common.
THEOREM BatchesSplitWhole == ASSUME ShapesApart PROVE Spec => []SplitsWhole
<1>1. BatchGiven => SplitsWhole
  <2> SUFFICES ASSUME BatchGiven, todo # <<>>, NEW mode \in Modes(batch.tokens)
               PROVE  Whole(batch.tokens, Splits(batch.tokens, NUbatch, mode))
    BY DEF SplitsWhole, Modes
  <2>1. IsBatch(batch.tokens) /\ Apart(batch.tokens)
    BY DEF BatchGiven
  <2> QED BY <2>1, WholeSplits, SizeAssumption
<1> QED BY <1>1, GivenAlways, PTL

\* The rows of the output are where the caller looks for them after output_reorder,
\* whichever tokens of a batch have outputs.
THEOREM OutputsFound == Spec => []OutputsInPlace
<1>1. BatchGiven => OutputsInPlace
  <2> SUFFICES ASSUME BatchGiven PROVE OutputsInPlace
    OBVIOUS
  <2> DEFINE o == ComputedOrder(batch.splits)
  <2>1. PICK N \in Nat : o \in Seq(1 .. N)
    BY DEF BatchGiven
  <2> HIDE DEF o
  <2>2. ASSUME NEW out \in SUBSET ToSet(o), NEW t \in out PROVE LogitsOf(OutIds(o, out))[t] = t
    <3> DEFINE I == {k \in DOMAIN o : o[k] \in out}
               at == InOrder(I, Len(o))
               q == OutIds(o, out)
    <3>1. Len(o) \in Nat /\ DOMAIN o = 1 .. Len(o) /\ \A k \in DOMAIN o : o[k] \in Nat
      BY <2>1, LenProperties, ElementOfSeq
    <3>2. at \in Seq(1 .. Len(o)) /\ ToSet(at) = I
      <4>1. I \cap (1 .. Len(o)) = I
        BY <3>1
      <4> HIDE DEF I
      <4> QED BY <3>1, <4>1, InOrderFacts
    <3>3. q = [k \in DOMAIN at |-> o[at[k]]]
      BY DEF OutIds
    <3> HIDE DEF at, q
    <3>4. Len(at) \in Nat /\ DOMAIN at = 1 .. Len(at) /\ \A k \in DOMAIN at : at[k] \in DOMAIN o
      BY <3>1, <3>2, LenProperties, ElementOfSeq
    <3>5. q \in Seq(Nat)
      <4>1. q \in [1 .. Len(at) -> Nat]
        BY <3>1, <3>3, <3>4
      <4> QED BY <3>4, <4>1, FunctionSeq
    <3>6. t \in ToSet(q)
      <4>1. PICK k \in DOMAIN o : o[k] = t
        BY DEF ToSet
      <4>2. PICK x \in DOMAIN at : at[x] = k
        BY <3>2, <4>1 DEF ToSet
      <4>3. x \in DOMAIN q /\ q[x] = t
        BY <3>3, <4>1, <4>2
      <4> QED BY <4>3 DEF ToSet
    <3> QED BY <3>5, <3>6, LogitsInPlace DEF q
  <2> QED BY <2>2 DEF OutputsInPlace, o
<1> QED BY <1>1, GivenAlways, PTL

-----------------------------------------------------------------------------
(***************************************************************************)
(* The cells: what every call keeps.                                       *)
(***************************************************************************)
Cell == [pos : -1 .. MaxPos, src : {-1} \cup Idx, tail : {-1} \cup Idx, seqs : SUBSET Seqs]

\* The tails are where the sequences are.
Linked(c) == /\ \A s \in Seqs : c[s].tail # -1 => s \in c[c[s].tail].seqs
             /\ \A i \in Idx : \A s \in c[i].seqs : c[s].tail = i
\* Cells with sequences have positions.
Filled(c) == \A i \in Idx : c[i].seqs = {} <=> c[i].pos = -1
\* No state has to be moved.
Home(c)   == \A i \in Idx : c[i].src \in {-1, i}
Sound(c)  == c \in [Idx -> Cell] /\ Linked(c) /\ Filled(c) /\ Home(c)

\* The cells and their numbers.
LEMMA IdxFacts ==
  /\ Size \in Nat /\ Size >= 1 /\ IsFiniteSet(Idx) /\ Cardinality(Idx) = Size /\ Idx \subseteq Nat /\ 0 \in Idx
  /\ -1 \notin Idx /\ Seqs = Idx /\ MaxPos \in Nat /\ \A i \in Int : i \in Idx <=> 0 <= i /\ i < Size
<1>1. Size \in Nat /\ Size >= 1 /\ MaxPos \in Nat /\ Size - 1 \in Int
  BY SizeAssumption
<1>2. IsFiniteSet(0 .. Size - 1) /\ Cardinality(0 .. Size - 1) = Size
  BY <1>1, FS_Interval
<1> QED BY <1>1, <1>2 DEF Idx, Seqs

\* d is c without the sequences of X.
Dropped(c, d, X) ==
  /\ d \in [Idx -> Cell]
  /\ \A i \in Idx : /\ d[i].seqs = c[i].seqs \ X
                    /\ d[i].pos = IF d[i].seqs = {} THEN -1 ELSE c[i].pos
                    /\ d[i].src \in {-1, c[i].src}
                    /\ d[i].tail = IF i \in X THEN -1 ELSE c[i].tail

\* Sequences may leave.
LEMMA DroppedSound ==
  ASSUME NEW c, Sound(c), NEW d, NEW X, Dropped(c, d, X)
  PROVE  Sound(d)
<1>1. /\ c \in [Idx -> Cell] /\ Linked(c) /\ Filled(c) /\ Home(c) /\ d \in [Idx -> Cell]
      /\ \A i \in Idx : /\ d[i].seqs = c[i].seqs \ X
                        /\ d[i].pos = IF d[i].seqs = {} THEN -1 ELSE c[i].pos
                        /\ d[i].src \in {-1, c[i].src}
                        /\ d[i].tail = IF i \in X THEN -1 ELSE c[i].tail
  BY DEF Sound, Dropped
<1>2. \A i \in Idx : c[i].tail \in {-1} \cup Idx /\ c[i].seqs \in SUBSET Idx
  BY <1>1, IdxFacts DEF Cell
<1>3. Linked(d)
  <2>1. ASSUME NEW s \in Seqs, d[s].tail # -1 PROVE s \in d[d[s].tail].seqs
    <3>1. s \in Idx /\ s \notin X /\ d[s].tail = c[s].tail
      BY <1>1, <2>1, IdxFacts
    <3>2. c[s].tail \in Idx /\ s \in c[c[s].tail].seqs
      BY <1>1, <1>2, <2>1, <3>1 DEF Linked
    <3> QED BY <1>1, <3>1, <3>2
  <2>2. ASSUME NEW i \in Idx, NEW s \in d[i].seqs PROVE d[s].tail = i
    <3>1. s \in c[i].seqs /\ s \notin X
      BY <1>1
    <3>2. s \in Idx /\ c[s].tail = i
      BY <1>1, <1>2, <3>1 DEF Linked
    <3> QED BY <1>1, <3>1, <3>2
  <2> QED BY <2>1, <2>2 DEF Linked
<1>4. Filled(d)
  BY <1>1 DEF Filled
<1>5. Home(d)
  BY <1>1 DEF Home
<1> QED BY <1>1, <1>3, <1>4, <1>5 DEF Sound

\* A cell without some of its sequences.
LEMMA EmptiedFacts ==
  ASSUME NEW cell \in Cell, NEW X
  PROVE  LET e == Emptied([cell EXCEPT !.seqs = @ \ X])
         IN /\ e \in Cell /\ e.seqs = cell.seqs \ X /\ e.tail = cell.tail
            /\ e.pos = IF e.seqs = {} THEN -1 ELSE cell.pos
            /\ e.src = IF e.seqs = {} THEN -1 ELSE cell.src
<1> DEFINE f == [cell EXCEPT !.seqs = @ \ X]
<1>1. f \in Cell /\ f.seqs = cell.seqs \ X /\ f.tail = cell.tail /\ f.pos = cell.pos /\ f.src = cell.src
  BY DEF Cell
<1> HIDE DEF f
<1>2. Emptied(f) = IF f.seqs = {} THEN [f EXCEPT !.pos = -1, !.src = -1] ELSE f
  BY DEF Emptied
<1>3. -1 \in -1 .. MaxPos
  BY IdxFacts
<1>4. CASE f.seqs = {}
  <2> DEFINE g == [f EXCEPT !.pos = -1, !.src = -1]
  <2>1. g \in Cell /\ g.seqs = f.seqs /\ g.tail = f.tail /\ g.pos = -1 /\ g.src = -1
    BY <1>1, <1>3 DEF Cell
  <2> HIDE DEF g
  <2>2. Emptied(f) = g
    BY <1>2, <1>4 DEF g
  <2> QED BY <1>1, <1>4, <2>1, <2>2 DEF f
<1>5. CASE f.seqs # {}
  BY <1>1, <1>2, <1>5 DEF f
<1> QED BY <1>4, <1>5

\* Sequence s leaves its cell.
LEMMA FreedFacts ==
  ASSUME NEW c, Sound(c), NEW s \in Seqs
  PROVE  /\ Sound(Freed(c, s)) /\ Dropped(c, Freed(c, s), {s})
         /\ Freed(c, s)[s].tail = -1 /\ \A x \in Seqs : x # s => Freed(c, s)[x].tail = c[x].tail
<1> DEFINE t == c[s].tail
           d == Freed(c, s)
<1>1. c \in [Idx -> Cell] /\ Linked(c) /\ Filled(c) /\ t \in {-1} \cup Idx /\ s \in Idx
  BY IdxFacts DEF Sound, Cell
<1>2. Dropped(c, d, {s}) /\ d[s].tail = -1
  <2>1. CASE t = -1
    <3>1. d = c
      BY <2>1 DEF Freed
    <3>2. \A i \in Idx : s \notin c[i].seqs
      BY <1>1, <2>1, IdxFacts DEF Linked
    <3> QED BY <1>1, <2>1, <3>1, <3>2 DEF Dropped, Filled
  <2>2. CASE t \in Idx
    <3> DEFINE e == Emptied([c[t] EXCEPT !.seqs = @ \ {s}])
               g == [c EXCEPT ![t] = e]
    <3>1. d = [g EXCEPT ![s].tail = -1]
      <4>1. \A i \in Idx : i >= 0
        BY IdxFacts
      <4>2. c[s].tail >= 0
        BY <2>2, <4>1
      <4>3. Detach(c, t, s) = g
        BY DEF Detach
      <4> HIDE DEF g, t
      <4> QED BY <4>2, <4>3 DEF Freed, t
    <3>2. /\ e \in Cell /\ e.seqs = c[t].seqs \ {s} /\ e.tail = c[t].tail
          /\ e.pos = IF e.seqs = {} THEN -1 ELSE c[t].pos
          /\ e.src = IF e.seqs = {} THEN -1 ELSE c[t].src
      <4>1. c[t] \in Cell
        BY <1>1, <2>2
      <4> QED BY <4>1, EmptiedFacts
    <3> HIDE DEF e
    <3>3. g \in [Idx -> Cell] /\ g[t] = e /\ \A i \in Idx : i # t => g[i] = c[i]
      BY <1>1, <2>2, <3>2
    <3> HIDE DEF g
    <3>4. /\ d \in [Idx -> Cell] /\ d[s].tail = -1 /\ \A i \in Idx : i # s => d[i] = g[i]
          /\ d[s].seqs = g[s].seqs /\ d[s].pos = g[s].pos /\ d[s].src = g[s].src
      BY <1>1, <3>1, <3>3 DEF Cell
    <3> HIDE DEF d
    <3>5. ASSUME NEW i \in Idx
          PROVE  /\ d[i].seqs = c[i].seqs \ {s}
                 /\ d[i].pos = IF d[i].seqs = {} THEN -1 ELSE c[i].pos
                 /\ d[i].src \in {-1, c[i].src}
                 /\ d[i].tail = IF i \in {s} THEN -1 ELSE c[i].tail
      <4>1. d[i].seqs = g[i].seqs /\ d[i].pos = g[i].pos /\ d[i].src = g[i].src /\ (i # s => d[i].tail = g[i].tail)
        BY <3>4
      <4>2. CASE i = t
        BY <3>2, <3>3, <3>4, <4>1, <4>2
      <4>3. CASE i # t
        <5>1. s \notin c[i].seqs
          BY <1>1, <4>3 DEF Linked
        <5>2. c[i].seqs = {} => c[i].pos = -1
          BY <1>1 DEF Filled
        <5> QED BY <3>3, <3>4, <4>1, <4>3, <5>1, <5>2
      <4> QED BY <4>2, <4>3
    <3> QED BY <3>4, <3>5 DEF Dropped
  <2> QED BY <1>1, <2>1, <2>2
<1> HIDE DEF d
<1>3. \A x \in Seqs : x # s => d[x].tail = c[x].tail
  BY <1>2, IdxFacts DEF Dropped
<1> QED BY <1>2, <1>3, DroppedSound DEF d

\* The memory between calls: cells, head and used.
Good(m) == Sound(m.cells) /\ m.head \in Idx /\ m.used = CountUsed(m.cells)

\* The cells of N are emptied.
LEMMA CountLess ==
  ASSUME NEW c, NEW d, NEW N \in SUBSET Idx, \A i \in N : ~is_empty(c, i),
         \A i \in Idx : is_empty(d, i) <=> i \in N \/ is_empty(c, i)
  PROVE  CountUsed(d) = CountUsed(c) - Cardinality(N) /\ CountUsed(c) \in Nat /\ CountUsed(d) \in Nat
<1> DEFINE S == {i \in Idx : ~is_empty(c, i)}
           T == {i \in Idx : ~is_empty(d, i)}
<1>1. IsFiniteSet(S) /\ IsFiniteSet(N) /\ IsFiniteSet(T)
  BY IdxFacts, FS_Subset
<1>2. T = S \ N /\ S \cap N = N
  OBVIOUS
<1>3. Cardinality(T) = Cardinality(S) - Cardinality(N)
  <2> HIDE DEF S, T
  <2> QED BY <1>1, <1>2, FS_Difference
<1>4. Cardinality(S) \in Nat /\ Cardinality(T) \in Nat
  BY <1>1, FS_CardinalityType
<1> QED BY <1>3, <1>4 DEF CountUsed

\* seq_rm.
LEMMA RmGood ==
  ASSUME NEW m, Good(m), NEW s \in Seqs, NEW r, r[1] \in Nat
  PROVE  Good(seq_rm(m, s, r))
<1> DEFINE c   == m.cells
           t   == c[s].tail
           hit == {i \in Idx : s \in c[i].seqs /\ Store!In(c[i].pos, r)}
           d   == [i \in Idx |-> IF i \in hit THEN Emptied([c[i] EXCEPT !.seqs = @ \ {s}]) ELSE c[i]]
           new == {i \in hit : is_empty(d, i)}
           e   == IF t >= 0 /\ Store!In(c[t].pos, r) THEN [d EXCEPT ![s].tail = -1] ELSE d
           n   == [cells |-> e, head |-> IF new # {} /\ Min(new) < m.head THEN Min(new) ELSE m.head,
                   used |-> m.used - Cardinality(new)]
<1>1. seq_rm(m, s, r) = IF Refuses(c, s, r) THEN m ELSE n
  BY DEF seq_rm
<1>2. /\ Sound(c) /\ m.head \in Idx /\ m.used = CountUsed(c)
      /\ c \in [Idx -> Cell] /\ Linked(c) /\ Filled(c) /\ s \in Idx
  BY IdxFacts DEF Good, Sound
<1> HIDE DEF c
<1>3. \A i \in Idx : c[i] \in Cell /\ c[i].seqs \subseteq Seqs /\ c[i].tail \in {-1} \cup Idx
  BY <1>2 DEF Cell
<1>4. \A i \in hit : i = t
  BY <1>2 DEF Linked
<1>5. ASSUME NEW i \in Idx
      PROVE  /\ d[i] \in Cell /\ d[i].seqs = (IF i \in hit THEN c[i].seqs \ {s} ELSE c[i].seqs)
             /\ d[i].tail = c[i].tail /\ d[i].pos = IF d[i].seqs = {} THEN -1 ELSE c[i].pos
             /\ d[i].src \in {-1, c[i].src}
  <2>1. CASE i \in hit
    <3> DEFINE f == Emptied([c[i] EXCEPT !.seqs = @ \ {s}])
    <3>1. f \in Cell /\ f.seqs = c[i].seqs \ {s} /\ f.tail = c[i].tail
          /\ f.pos = (IF f.seqs = {} THEN -1 ELSE c[i].pos) /\ f.src = (IF f.seqs = {} THEN -1 ELSE c[i].src)
      <4> DEFINE cell == c[i]
      <4>1. cell \in Cell
        BY <1>3
      <4> HIDE DEF cell
      <4>2. LET g == Emptied([cell EXCEPT !.seqs = @ \ {s}])
            IN /\ g \in Cell /\ g.seqs = cell.seqs \ {s} /\ g.tail = cell.tail
               /\ g.pos = IF g.seqs = {} THEN -1 ELSE cell.pos
               /\ g.src = IF g.seqs = {} THEN -1 ELSE cell.src
        BY <4>1, EmptiedFacts, Zenon
      <4> QED BY <4>2 DEF cell
    <3>2. d[i] = f
      BY <2>1
    <3> HIDE DEF f, d, hit
    <3> QED BY <2>1, <3>1, <3>2
  <2>2. CASE i \notin hit
    <3>1. d[i] = c[i]
      BY <2>2
    <3>2. c[i].seqs = {} => c[i].pos = -1
      BY <1>2 DEF Filled
    <3> HIDE DEF d, hit
    <3> QED BY <1>3, <2>2, <3>1, <3>2
  <2> QED BY <2>1, <2>2
<1>6. d \in [Idx -> Cell]
  <2>1. d = [i \in Idx |-> d[i]]
    OBVIOUS
  <2> HIDE DEF d
  <2> QED BY <1>5, <2>1
<1> HIDE DEF d
<1>7. Sound(e) /\ \A i \in Idx : e[i].seqs = d[i].seqs
  <2>1. CASE t >= 0 /\ Store!In(c[t].pos, r)
    <3>1. e = [d EXCEPT ![s].tail = -1]
      BY <2>1
    <3>2. /\ e \in [Idx -> Cell] /\ e[s].tail = -1 /\ \A i \in Idx : i # s => e[i] = d[i]
          /\ e[s].seqs = d[s].seqs /\ e[s].pos = d[s].pos /\ e[s].src = d[s].src
      BY <1>2, <1>6, <3>1 DEF Cell
    <3> HIDE DEF e
    <3>3. \A i \in Idx : d[i].seqs = c[i].seqs \ {s}
      <4>1. t \in Idx /\ s \in c[t].seqs
        <5>1. t \in {-1} \cup Idx
          BY <1>2, <1>3
        <5>2. t # -1
          BY <2>1
        <5> QED BY <1>2, <5>1, <5>2 DEF Linked
      <4>2. t \in hit
        BY <2>1, <4>1
      <4>3. \A i \in Idx : i # t => s \notin c[i].seqs
        BY <1>2 DEF Linked
      <4>4. \A i \in Idx : d[i].seqs = (IF i \in hit THEN c[i].seqs \ {s} ELSE c[i].seqs)
        BY <1>5
      <4>5. \A i \in Idx : i \in hit <=> i = t
        BY <1>4, <4>2
      <4> HIDE DEF d, hit, t, c
      <4> TAKE i \in Idx
      <4>6. CASE i = t
        BY <4>4, <4>5, <4>6
      <4>7. CASE i # t
        <5>1. d[i].seqs = c[i].seqs /\ s \notin c[i].seqs
          BY <4>3, <4>4, <4>5, <4>7
        <5> QED BY <5>1
      <4> QED BY <4>6, <4>7
    <3>4. Dropped(c, e, {s})
      <4> SUFFICES ASSUME NEW i \in Idx
                   PROVE  /\ e[i].seqs = c[i].seqs \ {s}
                          /\ e[i].pos = IF e[i].seqs = {} THEN -1 ELSE c[i].pos
                          /\ e[i].src \in {-1, c[i].src}
                          /\ e[i].tail = IF i \in {s} THEN -1 ELSE c[i].tail
        BY <3>2 DEF Dropped
      <4>1. e[i].seqs = d[i].seqs /\ e[i].pos = d[i].pos /\ e[i].src = d[i].src /\ (i # s => e[i].tail = d[i].tail)
        BY <3>2
      <4> QED BY <1>5, <3>2, <3>3, <4>1
    <3>5. Sound(e)
      BY <1>2, <3>4, DroppedSound
    <3> QED BY <3>2, <3>5
  <2>2. CASE ~(t >= 0 /\ Store!In(c[t].pos, r))
    <3>1. hit = {}
      <4> SUFFICES ASSUME NEW i \in hit PROVE FALSE
        OBVIOUS
      <4>1. i = t /\ i \in Idx /\ Store!In(c[i].pos, r)
        BY <1>4
      <4>2. \A j \in Idx : j >= 0
        BY IdxFacts
      <4> QED BY <2>2, <4>1, <4>2
    <3>2. e = d
      BY <2>2
    <3> HIDE DEF e
    <3>3. Dropped(c, d, {})
      BY <1>5, <1>6, <3>1 DEF Dropped
    <3> QED BY <1>2, <3>2, <3>3, DroppedSound
  <2> QED BY <2>1, <2>2
<1>8. m.used - Cardinality(new) = CountUsed(e)
  <2>1. \A i \in new : ~is_empty(c, i)
    BY DEF is_empty
  <2>2. \A i \in Idx : is_empty(e, i) <=> i \in new \/ is_empty(c, i)
    <3> TAKE i \in Idx
    <3>1. is_empty(e, i) <=> is_empty(d, i)
      BY <1>7 DEF is_empty
    <3>2. CASE i \in hit
      BY <3>1, <3>2 DEF is_empty
    <3>3. CASE i \notin hit
      BY <1>5, <3>1, <3>3 DEF is_empty
    <3> QED BY <3>2, <3>3
  <2>3. new \in SUBSET Idx
    OBVIOUS
  <2> HIDE DEF new, e
  <2>4. CountUsed(e) = CountUsed(c) - Cardinality(new)
    BY <2>1, <2>2, <2>3, CountLess
  <2> QED BY <1>2, <2>4
<1>9. new # {} => Min(new) \in Idx
  <2>1. new \in SUBSET Nat /\ new \subseteq Idx
    BY IdxFacts
  <2> HIDE DEF new
  <2> QED BY <2>1, MinOf
<1> HIDE DEF e, new
<1>10. Good(n)
  BY <1>2, <1>7, <1>8, <1>9 DEF Good
<1> HIDE DEF n
<1> QED BY <1>1, <1>10

-----------------------------------------------------------------------------
(***************************************************************************)
(* find_slot: the empty cells.                                             *)
(***************************************************************************)
\* A function that reaches every element of a finite set from within maps it one to one.
LEMMA Pigeons ==
  ASSUME NEW S, IsFiniteSet(S), NEW f, \A i \in S : \E x \in S : f[x] = i
  PROVE  /\ \A x \in S : f[x] \in S
         /\ \A x, y \in S : f[x] = f[y] => x = y
<1> DEFINE D == {x \in S : f[x] \in S}
           g == [x \in D |-> f[x]]
<1>1. IsFiniteSet(D) /\ D \in SUBSET S
  BY FS_Subset
<1>2. g \in Surjection(D, S)
  <2>1. g \in [D -> S]
    OBVIOUS
  <2>2. \A i \in S : \E x \in D : g[x] = i
    OBVIOUS
  <2> HIDE DEF D, g
  <2> QED BY <2>1, <2>2 DEF Surjection
<1> HIDE DEF g
<1>3. Cardinality(S) <= Cardinality(D) /\ (Cardinality(S) = Cardinality(D) <=> g \in Injection(D, S))
  <2> HIDE DEF D
  <2> QED BY <1>1, <1>2, FS_Surjection
<1>4. Cardinality(D) <= Cardinality(S) /\ (Cardinality(S) = Cardinality(D) => S = D)
  <2> HIDE DEF D
  <2> QED BY <1>1, FS_Subset
<1>5. Cardinality(S) \in Nat /\ Cardinality(D) \in Nat
  <2> HIDE DEF D
  <2> QED BY <1>1, FS_CardinalityType
<1>6. Cardinality(S) = Cardinality(D)
  BY <1>3, <1>4, <1>5
<1>7. S = D /\ g \in Injection(D, S)
  BY <1>3, <1>4, <1>6
<1>8. \A x, y \in D : g[x] = g[y] => x = y
  <2> HIDE DEF D
  <2> QED BY <1>7 DEF Injection, IsInjective
<1>9. \A x \in S : g[x] = f[x]
  BY <1>7 DEF g
<1> QED BY <1>7, <1>8, <1>9

\* Cell i is so many cells behind h, going round.
Turn(h, i) == IF i >= h THEN i - h ELSE i - h + Size

\* Going round.
LEMMA TurnFacts ==
  ASSUME NEW h \in Idx
  PROVE  /\ \A i \in Idx : Turn(h, i) \in Idx /\ (h + Turn(h, i)) % Size = i
         /\ \A k \in Idx : (h + k) % Size \in Idx /\ Turn(h, (h + k) % Size) = k
         /\ \A i, j \in Idx : Turn(h, i) = Turn(h, j) => i = j
<1>1. \A x \in 0 .. 2 * Size - 1 : x % Size = IF x < Size THEN x ELSE x - Size
  <2> SUFFICES ASSUME NEW x \in 0 .. 2 * Size - 1 PROVE x % Size = IF x < Size THEN x ELSE x - Size
    OBVIOUS
  <2>1. Size \in Nat \ {0}
    BY IdxFacts
  <2>2. CASE x < Size
    BY <2>1, <2>2
  <2>3. CASE ~(x < Size)
    BY <2>1, <2>3
  <2> QED BY <2>2, <2>3
<1>2. Size \in Nat /\ Size >= 1 /\ h \in 0 .. Size - 1
  BY IdxFacts
<1>3. ASSUME NEW i \in 0 .. Size - 1 PROVE Turn(h, i) \in 0 .. Size - 1 /\ (h + Turn(h, i)) % Size = i
  <2>1. Turn(h, i) \in 0 .. Size - 1 /\ h + Turn(h, i) \in 0 .. 2 * Size - 1
        /\ h + Turn(h, i) = IF i >= h THEN i ELSE i + Size
    BY <1>2 DEF Turn
  <2> QED BY <1>1, <1>2, <2>1
<1>4. ASSUME NEW k \in 0 .. Size - 1 PROVE (h + k) % Size \in 0 .. Size - 1 /\ Turn(h, (h + k) % Size) = k
  <2>1. h + k \in 0 .. 2 * Size - 1
    BY <1>2
  <2>2. (h + k) % Size = IF h + k < Size THEN h + k ELSE h + k - Size
    BY <1>1, <1>2, <2>1
  <2> QED BY <1>2, <2>2 DEF Turn
<1>5. \A i, j \in 0 .. Size - 1 : Turn(h, i) = Turn(h, j) => i = j
  BY <1>2 DEF Turn
<1> QED BY <1>3, <1>4, <1>5 DEF Idx

\* The first empty cell behind h.
LEMMA EmptyFromFacts ==
  ASSUME NEW c, NEW h \in Idx
  PROVE  /\ (\A i \in Idx : ~is_empty(c, i)) => EmptyFrom(c, h) = -1
         /\ (\E i \in Idx : is_empty(c, i)) =>
              /\ EmptyFrom(c, h) \in Idx /\ is_empty(c, EmptyFrom(c, h))
              /\ \A i \in Idx : is_empty(c, i) => Turn(h, EmptyFrom(c, h)) <= Turn(h, i)
<1> DEFINE free == {k \in Idx : is_empty(c, (h + k) % Size)}
           e == EmptyFrom(c, h)
<1>1. e = IF free = {} THEN -1 ELSE (h + Min(free)) % Size
  BY DEF EmptyFrom
<1>2. ASSUME NEW i \in Idx, is_empty(c, i) PROVE Turn(h, i) \in free
  BY <1>2, TurnFacts
<1>3. CASE free = {}
  BY <1>1, <1>2, <1>3
<1>4. CASE free # {}
  <2>1. free \in SUBSET Nat /\ free \subseteq Idx
    BY IdxFacts
  <2>2. Min(free) \in free /\ \A k \in free : Min(free) <= k
    <3> HIDE DEF free
    <3> QED BY <1>4, <2>1, MinOf
  <2> DEFINE k == Min(free)
  <2>3. k \in Idx /\ e = (h + k) % Size /\ is_empty(c, (h + k) % Size) /\ \A j \in free : k <= j
    BY <1>1, <1>4, <2>2
  <2> HIDE DEF free, k, e
  <2>4. e \in Idx /\ Turn(h, e) = k
    BY <2>3, TurnFacts
  <2> QED BY <1>2, <2>3, <2>4 DEF e
<1> QED BY <1>3, <1>4

\* No sequence has cell i for its tail.
Unclaimed(c, i) == \A x \in Seqs : c[x].tail # i
Fresh(c)    == {i \in Idx : is_empty(c, i) /\ Unclaimed(c, i)}
Reserved(c) == {i \in Idx : is_empty(c, i) /\ ~Unclaimed(c, i)}

\* e is the first fresh cell behind h, and the reserved ones come before it.
Leads(c, h, e) == Fresh(c) # {} =>
  /\ e \in Fresh(c)
  /\ \A i \in Fresh(c) : Turn(h, e) <= Turn(h, i)
  /\ \A i \in Reserved(c) : Turn(h, i) < Turn(h, e)

\* When that cell was taken, the next one is found behind it.
LEMMA LeadsOn ==
  ASSUME NEW c, NEW d, NEW h \in Idx, NEW e \in Fresh(c), Leads(c, h, e),
         Fresh(d) = Fresh(c) \ {e}, Reserved(d) \subseteq Reserved(c) \cup {e}
  PROVE  Leads(d, h, EmptyFrom(d, (e + 1) % Size))
<1> SUFFICES ASSUME Fresh(d) # {}
             PROVE  LET n == EmptyFrom(d, (e + 1) % Size)
                    IN /\ n \in Fresh(d)
                       /\ \A i \in Fresh(d) : Turn(h, n) <= Turn(h, i)
                       /\ \A i \in Reserved(d) : Turn(h, i) < Turn(h, n)
  BY DEF Leads
<1> DEFINE g == (e + 1) % Size
           n == EmptyFrom(d, g)
<1>1. e \in Idx /\ e \in 0 .. Size - 1 /\ h \in 0 .. Size - 1 /\ Size \in Nat /\ Size >= 1
  BY IdxFacts DEF Fresh
<1>2. g = IF e + 1 = Size THEN 0 ELSE e + 1
  <2>1. CASE e + 1 = Size
    <3>1. Size % Size = 0
      BY <1>1
    <3> QED BY <2>1, <3>1
  <2>2. CASE e + 1 # Size
    <3>1. e + 1 < Size /\ e + 1 >= 0
      BY <1>1, <2>2
    <3> QED BY <1>1, <2>2, <3>1
  <2> QED BY <2>1, <2>2
<1> HIDE DEF g
<1>3. g \in Idx
  BY <1>1, <1>2, IdxFacts
<1>4. \A i \in Idx : Turn(h, i) \in Idx /\ Turn(g, i) \in Idx
  BY <1>3, TurnFacts
<1>5. \A i \in Idx : Turn(g, i) = IF Turn(h, i) > Turn(h, e) THEN Turn(h, i) - Turn(h, e) - 1
                                  ELSE Turn(h, i) - Turn(h, e) - 1 + Size
  BY <1>1, <1>2, IdxFacts DEF Turn
<1>6. /\ \A i \in Fresh(d) : i \in Idx /\ is_empty(d, i) /\ Turn(h, i) > Turn(h, e)
      /\ \A i \in Reserved(d) : i \in Idx /\ Turn(h, i) <= Turn(h, e)
      /\ \A i \in Idx : is_empty(d, i) => i \in Fresh(d) \/ i \in Reserved(d)
  <2>1. ASSUME NEW i \in Fresh(d) PROVE i \in Idx /\ is_empty(d, i) /\ Turn(h, i) > Turn(h, e)
    <3>1. i \in Idx /\ is_empty(d, i) /\ i \in Fresh(c) /\ i # e
      BY DEF Fresh
    <3>2. Turn(h, e) <= Turn(h, i) /\ Turn(h, e) # Turn(h, i)
      BY <1>1, <3>1, TurnFacts DEF Leads
    <3>3. Turn(h, e) \in Nat /\ Turn(h, i) \in Nat
      BY <1>1, <1>4, <3>1, IdxFacts
    <3> QED BY <3>1, <3>2, <3>3
  <2>2. ASSUME NEW i \in Reserved(d) PROVE i \in Idx /\ Turn(h, i) <= Turn(h, e)
    <3>1. i \in Idx /\ (i \in Reserved(c) \/ i = e)
      BY DEF Reserved
    <3>2. i \in Reserved(c) => Turn(h, i) < Turn(h, e)
      BY DEF Leads
    <3>3. Turn(h, e) \in Nat /\ Turn(h, i) \in Nat
      BY <1>1, <1>4, <3>1, IdxFacts
    <3> QED BY <3>1, <3>2, <3>3
  <2>3. \A i \in Idx : is_empty(d, i) => i \in Fresh(d) \/ i \in Reserved(d)
    BY DEF Fresh, Reserved
  <2> QED BY <2>1, <2>2, <2>3
<1>7. n \in Idx /\ is_empty(d, n) /\ \A i \in Idx : is_empty(d, i) => Turn(g, n) <= Turn(g, i)
  BY <1>3, <1>6, EmptyFromFacts
<1> HIDE DEF n
<1>8. PICK f \in Fresh(d) : TRUE
  OBVIOUS
<1>9. \A i \in Idx : Turn(h, i) \in 0 .. Size - 1
  BY <1>4 DEF Idx
<1>10. n \in Fresh(d)
  <2> SUFFICES ASSUME n \in Reserved(d) PROVE FALSE
    BY <1>6, <1>7
  <2>1. f \in Idx /\ Turn(g, n) <= Turn(g, f) /\ Turn(h, f) > Turn(h, e) /\ Turn(h, n) <= Turn(h, e)
    BY <1>6, <1>7, <1>8
  <2>2. Turn(h, f) \in 0 .. Size - 1 /\ Turn(h, n) \in 0 .. Size - 1 /\ Turn(h, e) \in 0 .. Size - 1
    BY <1>1, <1>7, <1>9, <2>1
  <2>3. Turn(g, f) = Turn(h, f) - Turn(h, e) - 1 /\ Turn(g, n) = Turn(h, n) - Turn(h, e) - 1 + Size
    BY <1>5, <1>7, <2>1, <2>2
  <2> QED BY <1>1, <2>1, <2>2, <2>3
<1>11. ASSUME NEW i \in Fresh(d) PROVE Turn(h, n) <= Turn(h, i)
  <2>1. i \in Idx /\ Turn(g, n) <= Turn(g, i) /\ Turn(h, i) > Turn(h, e) /\ Turn(h, n) > Turn(h, e)
    BY <1>6, <1>7, <1>10
  <2>2. Turn(h, i) \in 0 .. Size - 1 /\ Turn(h, n) \in 0 .. Size - 1 /\ Turn(h, e) \in 0 .. Size - 1
    BY <1>1, <1>7, <1>9, <2>1
  <2>3. Turn(g, i) = Turn(h, i) - Turn(h, e) - 1 /\ Turn(g, n) = Turn(h, n) - Turn(h, e) - 1
    BY <1>5, <1>7, <2>1, <2>2
  <2> QED BY <1>1, <2>1, <2>2, <2>3
<1>12. ASSUME NEW i \in Reserved(d) PROVE Turn(h, i) < Turn(h, n)
  <2>1. i \in Idx /\ Turn(h, i) <= Turn(h, e) /\ Turn(h, n) > Turn(h, e)
    BY <1>6, <1>10
  <2>2. Turn(h, i) \in 0 .. Size - 1 /\ Turn(h, n) \in 0 .. Size - 1 /\ Turn(h, e) \in 0 .. Size - 1
    BY <1>1, <1>7, <1>9, <2>1
  <2> QED BY <2>1, <2>2
<1> QED BY <1>10, <1>11, <1>12 DEF n, g

-----------------------------------------------------------------------------
(***************************************************************************)
(* find_slot: sequences that become shared leave their cells.              *)
(***************************************************************************)
\* A micro-batch as find_slot takes it: no sequence is in two of its parts.
IsPart(p) == p.ids \in Seq(Seqs) /\ p.ids # <<>> /\ p.pos \in 0 .. MaxPos
IsUb(ub)  == /\ Len(ub) \in Nat \ {0} /\ DOMAIN ub = 1 .. Len(ub)
             /\ \A k \in DOMAIN ub : IsPart(ub[k])
             /\ \A j, k \in DOMAIN ub : j # k => ToSet(ub[j].ids) \cap ToSet(ub[k].ids) = {}
\* The sequence whose state part k goes on from.
Lead(ub, k) == ub[k].ids[1]

\* The parts have sequences of their own.
LEMMA UbFacts ==
  ASSUME NEW ub, IsUb(ub)
  PROVE  /\ Len(ub) \in Nat /\ Len(ub) >= 1 /\ DOMAIN ub = 1 .. Len(ub)
         /\ \A k \in 1 .. Len(ub) :
              /\ Lead(ub, k) \in ToSet(ub[k].ids) /\ Lead(ub, k) \in Seqs /\ ToSet(ub[k].ids) \in SUBSET Seqs
              /\ ub[k].pos \in 0 .. MaxPos /\ Tail(ub[k].ids) \in Seq(Seqs)
              /\ \A x \in ToSet(ub[k].ids) : x = Lead(ub, k) \/ x \in ToSet(Tail(ub[k].ids))
         /\ \A j, k \in 1 .. Len(ub) : j # k => Lead(ub, j) \notin ToSet(ub[k].ids) /\ Lead(ub, j) # Lead(ub, k)
<1>1. Len(ub) \in Nat /\ Len(ub) >= 1 /\ DOMAIN ub = 1 .. Len(ub)
  BY DEF IsUb
<1>2. ASSUME NEW k \in 1 .. Len(ub)
      PROVE  /\ Lead(ub, k) \in ToSet(ub[k].ids) /\ Lead(ub, k) \in Seqs /\ ToSet(ub[k].ids) \in SUBSET Seqs
             /\ ub[k].pos \in 0 .. MaxPos /\ Tail(ub[k].ids) \in Seq(Seqs)
             /\ \A x \in ToSet(ub[k].ids) : x = Lead(ub, k) \/ x \in ToSet(Tail(ub[k].ids))
  <2> DEFINE q == ub[k].ids
             r == Tail(q)
  <2>1. q \in Seq(Seqs) /\ q # <<>> /\ ub[k].pos \in 0 .. MaxPos
    BY <1>1 DEF IsUb, IsPart
  <2>2. Lead(ub, k) = q[1]
    BY DEF Lead
  <2> HIDE DEF q
  <2>3. /\ Len(q) \in Nat \ {0} /\ DOMAIN q = 1 .. Len(q) /\ \A i \in 1 .. Len(q) : q[i] \in Seqs
    BY <2>1, EmptySeq, LenProperties, ElementOfSeq
  <2>4. r \in Seq(Seqs) /\ Len(r) = Len(q) - 1 /\ \A i \in 1 .. Len(r) : r[i] = q[i + 1]
    BY <2>1, HeadTailProperties
  <2>5. DOMAIN r = 1 .. Len(r)
    BY <2>4, LenProperties
  <2> HIDE DEF r
  <2>6. \A i \in 1 .. Len(q) : i = 1 \/ (i - 1 \in 1 .. Len(r) /\ (i - 1) + 1 = i)
    BY <2>3, <2>4
  <2>7. ASSUME NEW x \in ToSet(q), x # q[1] PROVE x \in ToSet(r)
    <3>1. PICK i \in 1 .. Len(q) : q[i] = x
      BY <2>3 DEF ToSet
    <3>2. i - 1 \in 1 .. Len(r) /\ r[i - 1] = x
      BY <2>4, <2>6, <2>7, <3>1
    <3> QED BY <2>5, <3>2 DEF ToSet
  <2>8. q[1] \in ToSet(q) /\ q[1] \in Seqs /\ ToSet(q) \in SUBSET Seqs
    BY <2>3 DEF ToSet
  <2> QED BY <2>1, <2>2, <2>4, <2>7, <2>8 DEF q, r
<1>3. ASSUME NEW j \in 1 .. Len(ub), NEW k \in 1 .. Len(ub), j # k
      PROVE  Lead(ub, j) \notin ToSet(ub[k].ids) /\ Lead(ub, j) # Lead(ub, k)
  <2>1. ToSet(ub[j].ids) \cap ToSet(ub[k].ids) = {}
    BY <1>1, <1>3 DEF IsUb
  <2> QED BY <1>2, <2>1
<1> QED BY <1>1, <1>2, <1>3

\* All elements of the sequences are in what is put together of them.
LEMMA FlattenCovers ==
  ASSUME NEW S, NEW n \in Nat \ {0}, NEW s, DOMAIN s = 1 .. n, Len(s) = n, \A k \in 1 .. n : s[k] \in Seq(S)
  PROVE  FlattenSeq(s) \in Seq(S) /\ \A k \in 1 .. n : ToSet(s[k]) \subseteq ToSet(FlattenSeq(s))
<1>1. PICK f : FlattenSeq(s) = f[n] /\ Flattens(f, s)
  BY FlattenUnfolds
<1>2. f[1] = s[1] /\ \A k \in 2 .. n : f[k] = f[k - 1] \o s[k]
  BY <1>1 DEF Flattens
<1> DEFINE T == {k \in 0 .. n : k # 0 => f[k] \in Seq(S) /\ \A j \in 1 .. k : ToSet(s[j]) \subseteq ToSet(f[k])}
<1>3. 0 \in T
  OBVIOUS
<1>4. ASSUME NEW k \in 1 .. n, k - 1 \in T PROVE k \in T
  <2>1. CASE k = 1
    BY <1>2, <2>1
  <2>2. CASE k # 1
    <3>1. k \in 2 .. n /\ k - 1 # 0 /\ k \in 0 .. n /\ \A j \in 1 .. k : j = k \/ j \in 1 .. k - 1
      BY <2>2
    <3>2. f[k - 1] \in Seq(S) /\ s[k] \in Seq(S) /\ f[k] = f[k - 1] \o s[k]
      BY <1>2, <1>4, <3>1
    <3>3. \A j \in 1 .. k - 1 : ToSet(s[j]) \subseteq ToSet(f[k - 1])
      BY <1>4, <3>1
    <3>4. f[k] \in Seq(S) /\ ToSet(f[k]) = ToSet(f[k - 1]) \cup ToSet(s[k])
      BY <3>2, ConcatFacts
    <3>5. \A j \in 1 .. k : ToSet(s[j]) \subseteq ToSet(f[k])
      BY <3>1, <3>3, <3>4
    <3> QED BY <3>1, <3>4, <3>5
  <2> QED BY <2>1, <2>2
<1> HIDE DEF T
<1>5. n \in T
  <2>1. \A k \in 0 .. n : k \in T
    BY <1>3, <1>4, FiniteInduction
  <2> QED BY <2>1
<1> QED BY <1>1, <1>5 DEF T

\* Of the sequences of a part only the first may still have a cell.
Alone(c, ub) == \A k \in 1 .. Len(ub) : \A x \in ToSet(ub[k].ids) : x = Lead(ub, k) \/ c[x].tail = -1

\* The other sequences of each part have left their cells.
LEMMA UnsharedFacts ==
  ASSUME NEW c, Sound(c), NEW ub, IsUb(ub)
  PROVE  Sound(Unshared(c, ub)) /\ Alone(Unshared(c, ub), ub)
<1> DEFINE tails == [k \in DOMAIN ub |-> Tail(ub[k].ids)]
           others == FlattenSeq(tails)
           n == Len(others)
           base == c
           Step(k, d) == Freed(d, others[k])
           E(m, h) == [k \in 0 .. m |-> IF k = 0 THEN base ELSE Step(k, h[k - 1])]
           w == CHOOSE h : h = E(n, h)
           Kept(k, d) == Sound(d) /\ \A j \in 1 .. k : d[others[j]].tail = -1
<1>2. Unshared(c, ub) = w[n]
  BY DEF Unshared
<1>7. /\ others \in Seq(Seqs)
      /\ \A k \in 1 .. Len(ub) : ToSet(Tail(ub[k].ids)) \subseteq ToSet(others)
  <2>1. Len(ub) \in Nat \ {0} /\ DOMAIN ub = 1 .. Len(ub) /\ \A k \in 1 .. Len(ub) : Tail(ub[k].ids) \in Seq(Seqs)
    BY UbFacts
  <2>2. tails \in [1 .. Len(ub) -> Seq(Seqs)] /\ \A k \in 1 .. Len(ub) : tails[k] = Tail(ub[k].ids)
    BY <2>1
  <2> HIDE DEF tails
  <2>3. Len(tails) = Len(ub) /\ DOMAIN tails = 1 .. Len(ub) /\ \A k \in 1 .. Len(ub) : tails[k] \in Seq(Seqs)
    BY <2>1, <2>2, FunctionSeq
  <2>4. FlattenSeq(tails) \in Seq(Seqs) /\ \A k \in 1 .. Len(ub) : ToSet(tails[k]) \subseteq ToSet(FlattenSeq(tails))
    BY <2>1, <2>3, FlattenCovers
  <2> QED BY <2>2, <2>4
<1> HIDE DEF others
<1>1. n \in Nat /\ DOMAIN others = 1 .. n /\ \A k \in 1 .. n : others[k] \in Seqs
  BY <1>7, LenProperties, ElementOfSeq
<1> HIDE DEF n
<1>3. Kept(0, base)
  OBVIOUS
<1>4. ASSUME NEW k \in 1 .. n, NEW d, Kept(k - 1, d) PROVE Kept(k, Step(k, d))
  <2>1. Sound(Step(k, d)) /\ Step(k, d)[others[k]].tail = -1
        /\ \A x \in Seqs : x # others[k] => Step(k, d)[x].tail = d[x].tail
    BY <1>1, <1>4, FreedFacts
  <2>2. \A j \in 1 .. k : j = k \/ j \in 1 .. k - 1
    BY <1>1
  <2>3. \A j \in 1 .. k - 1 : others[j] \in Seqs
    BY <1>1
  <2> HIDE DEF Step
  <2> QED BY <1>4, <2>1, <2>2, <2>3
<1> HIDE DEF Kept, Step, base
<1>5. w[0] = base /\ \A k \in 1 .. n : w[k] = Step(k, w[k - 1])
  <2> DEFINE T == {m \in Nat : \E h : h = E(m, h)}
  <2>1. 0 \in T
    <3> DEFINE h == [k \in 0 .. 0 |-> base]
    <3>1. h = E(0, h)
      OBVIOUS
    <3> QED BY <3>1
  <2>2. ASSUME NEW m \in Nat, m \in T PROVE m + 1 \in T
    <3>1. PICK h : h = E(m, h)
      BY <2>2
    <3>0. \A k \in 0 .. m : h[k] = IF k = 0 THEN base ELSE Step(k, h[k - 1])
      BY <3>1
    <3> HIDE DEF E
    <3> DEFINE g == [k \in 0 .. m + 1 |-> IF k = m + 1 THEN Step(m + 1, h[m]) ELSE h[k]]
    <3>2. ASSUME NEW k \in 0 .. m + 1 PROVE g[k] = IF k = 0 THEN base ELSE Step(k, g[k - 1])
      <4>1. /\ k # m + 1 => k \in 0 .. m /\ (k # 0 => k - 1 \in 0 .. m + 1 /\ k - 1 # m + 1)
            /\ k = m + 1 => k # 0 /\ k - 1 = m /\ m \in 0 .. m + 1 /\ m # m + 1
        OBVIOUS
      <4>2. CASE k = m + 1
        BY <4>1, <4>2
      <4>3. CASE k # m + 1
        <5>1. g[k] = h[k] /\ (k # 0 => g[k - 1] = h[k - 1])
          BY <4>1, <4>3
        <5> HIDE DEF g
        <5> QED BY <3>0, <4>1, <4>3, <5>1
      <4> QED BY <4>2, <4>3
    <3> HIDE DEF g
    <3>3. g = E(m + 1, g)
      BY <3>2 DEF g, E
    <3> QED BY <3>3
  <2>3. n \in T
    <3> HIDE DEF T
    <3> QED BY <1>1, <2>1, <2>2, SetInduction
  <2>4. \E h : h = E(n, h)
    BY <2>3
  <2> HIDE DEF E
  <2>5. w = E(n, w)
    BY <2>4
  <2> HIDE DEF w
  <2>6. 0 \in 0 .. n /\ \A k \in 1 .. n : k \in 0 .. n /\ k # 0
    BY <1>1
  <2> QED BY <2>5, <2>6 DEF E
<1> HIDE DEF w, E
<1>6. Kept(n, w[n])
  <2> DEFINE S == {k \in 0 .. n : Kept(k, w[k])}
  <2>1. 0 \in S
    BY <1>1, <1>3, <1>5
  <2>2. ASSUME NEW k \in 1 .. n, k - 1 \in S PROVE k \in S
    <3>1. Kept(k - 1, w[k - 1]) /\ k \in 0 .. n
      BY <1>1, <2>2
    <3>2. Kept(k, Step(k, w[k - 1]))
      BY <1>4, <3>1
    <3> QED BY <1>5, <3>1, <3>2
  <2> HIDE DEF S
  <2>3. n \in S
    <3>1. \A k \in 0 .. n : k \in S
      BY <1>1, <2>1, <2>2, FiniteInduction
    <3> QED BY <1>1, <3>1
  <2> QED BY <2>3 DEF S
<1>8. Sound(w[n]) /\ \A j \in 1 .. n : w[n][others[j]].tail = -1
  BY <1>6 DEF Kept
<1>9. Alone(w[n], ub)
  <2> SUFFICES ASSUME NEW k \in 1 .. Len(ub), NEW x \in ToSet(ub[k].ids), x # Lead(ub, k)
               PROVE  w[n][x].tail = -1
    BY DEF Alone
  <2>1. x \in ToSet(others)
    BY <1>7, UbFacts
  <2>2. PICK j \in 1 .. n : others[j] = x
    BY <1>1, <2>1 DEF ToSet
  <2> QED BY <1>8, <2>2
<1> QED BY <1>2, <1>8, <1>9

-----------------------------------------------------------------------------
(***************************************************************************)
(* find_slot: a cell for each part.                                        *)
(***************************************************************************)
\* The sequences of L have cells of their own, the others are where they were in c.
Split(c, d, L) ==
  /\ d \in [Idx -> Cell] /\ Filled(d)
  /\ \A i \in Idx : \A x \in d[i].seqs : d[x].tail = i
  /\ \A x \in Seqs \ L : d[x].tail = c[x].tail /\ (d[x].tail = -1 \/ x \in d[d[x].tail].seqs)
  /\ \A x \in L : d[x].tail \in Idx /\ d[d[x].tail].seqs \subseteq {x}
  /\ \A x, y \in L : d[x].tail = d[y].tail => x = y
  /\ \A i \in Idx : d[i].src \in {-1, i} \/ \E x \in L : d[x].tail = i

\* A sequence that has its cell for itself keeps it.
LEMMA OwnCell ==
  ASSUME NEW c, NEW d, NEW L \in SUBSET Seqs, Split(c, d, L), NEW s \in Seqs \ L,
         d[s].tail # -1, Cardinality(d[d[s].tail].seqs) = 1
  PROVE  Split(c, d, L \cup {s})
<1> DEFINE t == d[s].tail
<1>1. t \in Idx /\ s \in d[t].seqs /\ d[t].seqs \in SUBSET Idx
  <2>1. s \in Idx /\ d[s] \in Cell /\ s \in d[t].seqs
    BY IdxFacts DEF Split
  <2>2. t \in {-1} \cup Idx
    BY <2>1 DEF Cell
  <2>3. d[t] \in Cell
    BY <2>2 DEF Split
  <2> QED BY <2>1, <2>2, <2>3, IdxFacts DEF Cell
<1>2. d[t].seqs = {s}
  <2>1. IsFiniteSet(d[t].seqs)
    BY <1>1, IdxFacts, FS_Subset
  <2>2. PICK x : d[t].seqs = {x}
    BY <2>1, FS_Singleton
  <2> QED BY <1>1, <2>2
<1>3. \A y \in L : d[y].tail # t
  BY <1>2 DEF Split
<1> QED BY <1>1, <1>2, <1>3 DEF Split

\* While a sequence needs a cell there is one that no sequence has.
LEMMA FreshCell ==
  ASSUME NEW c, NEW d, NEW L \in SUBSET Seqs, Split(c, d, L), NEW s \in Seqs \ L,
         d[s].tail = -1 \/ Cardinality(d[d[s].tail].seqs) # 1
  PROVE  Fresh(d) # {}
<1> SUFFICES ASSUME Fresh(d) = {} PROVE FALSE
  OBVIOUS
<1> DEFINE f == [x \in Idx |-> d[x].tail]
<1>0. \A i \in Idx : d[i] \in Cell /\ d[i].tail \in {-1} \cup Idx /\ d[i].seqs \in SUBSET Idx
  <2>1. \A i \in Idx : d[i] \in Cell
    BY DEF Split
  <2> QED BY <2>1, IdxFacts DEF Cell
<1>1. ASSUME NEW i \in Idx PROVE \E x \in Idx : f[x] = i
  <2>1. CASE d[i].seqs # {}
    <3>1. PICK x \in d[i].seqs : TRUE
      BY <2>1
    <3> QED BY <1>0, <3>1 DEF Split
  <2>2. CASE d[i].seqs = {}
    <3>1. ~Unclaimed(d, i)
      BY <2>2 DEF Fresh, is_empty
    <3> QED BY <3>1, IdxFacts DEF Unclaimed
  <2> QED BY <2>1, <2>2
<1>2. /\ \A x \in Idx : f[x] \in Idx
      /\ \A x, y \in Idx : f[x] = f[y] => x = y
  <2> HIDE DEF f
  <2> QED BY <1>1, IdxFacts, Pigeons
<1>3. s \in Idx /\ d[s].tail \in Idx
  BY <1>2, IdxFacts
<1>4. s \in d[d[s].tail].seqs /\ Cardinality(d[d[s].tail].seqs) # 1
  BY <1>3, IdxFacts DEF Split
<1>5. \E y \in d[d[s].tail].seqs : y # s
  <2> SUFFICES ASSUME d[d[s].tail].seqs = {s} PROVE FALSE
    BY <1>4
  <2> QED BY <1>4, FS_Singleton
<1>6. PICK y \in d[d[s].tail].seqs : y # s
  BY <1>5
<1>7. y \in Idx /\ d[y].tail = d[s].tail
  BY <1>0, <1>3 DEF Split
<1>8. f[y] = f[s]
  BY <1>3, <1>7
<1> QED BY <1>2, <1>3, <1>6, <1>7, <1>8

\* d is c after sequence s took the empty cell e, with a copy of its state.
Took(c, d, s, e) ==
  /\ d \in [Idx -> Cell]
  /\ \A i \in Idx : d[i].tail = IF i = s THEN e ELSE c[i].tail
  /\ \A i \in Idx \ {e} : d[i].seqs = c[i].seqs \ {s} /\ d[i].pos = c[i].pos /\ d[i].src = c[i].src
  /\ IF c[s].tail = -1 THEN d[e].seqs = {} /\ d[e].pos = -1 /\ d[e].src = c[e].src
     ELSE d[e].seqs = {s} /\ d[e].pos = c[c[s].tail].pos /\ d[e].src = c[c[s].tail].src

\* The cells and tails of a sequence that is not alone in its cell.
LEMMA SharedFacts ==
  ASSUME NEW c, NEW d, NEW L \in SUBSET Seqs, Split(c, d, L), NEW s \in Seqs \ L
  PROVE  /\ \A i \in Idx : d[i] \in Cell /\ d[i].tail \in {-1} \cup Idx /\ d[i].seqs \in SUBSET Idx
         /\ d[s].tail = -1 => \A i \in Idx : s \notin d[i].seqs
         /\ d[s].tail # -1 => /\ d[s].tail \in Idx /\ s \in d[d[s].tail].seqs
                              /\ \A i \in Idx : i # d[s].tail => s \notin d[i].seqs
<1>1. \A i \in Idx : d[i] \in Cell
  BY DEF Split
<1>2. \A i \in Idx : d[i].tail \in {-1} \cup Idx /\ d[i].seqs \in SUBSET Idx
  BY <1>1, IdxFacts DEF Cell
<1>3. s \in Idx /\ (d[s].tail = -1 \/ s \in d[d[s].tail].seqs)
  BY IdxFacts DEF Split
<1>4. \A i \in Idx : s \in d[i].seqs => d[s].tail = i
  BY DEF Split
<1> QED BY <1>1, <1>2, <1>3, <1>4, IdxFacts

\* What Assign does with a sequence that has no state.
LEMMA TookEmpty ==
  ASSUME NEW c, NEW d, NEW L \in SUBSET Seqs, Split(c, d, L), NEW s \in Seqs \ L,
         d[s].tail = -1, NEW e \in Fresh(d)
  PROVE  Took(d, [d EXCEPT ![s].tail = e], s, e)
<1> DEFINE g == [d EXCEPT ![s].tail = e]
<1>1. /\ e \in Idx /\ d[e].seqs = {} /\ s \in Idx /\ d \in [Idx -> Cell] /\ d[e].pos = -1
      /\ \A i \in Idx : s \notin d[i].seqs
  BY SharedFacts, IdxFacts DEF Fresh, is_empty, Split, Filled
<1>2. /\ g \in [Idx -> Cell] /\ g[s].tail = e /\ \A i \in Idx : i # s => g[i] = d[i]
      /\ g[s].seqs = d[s].seqs /\ g[s].pos = d[s].pos /\ g[s].src = d[s].src
  BY <1>1 DEF Cell
<1> HIDE DEF g
<1>3. \A i \in Idx : /\ g[i].tail = (IF i = s THEN e ELSE d[i].tail)
                     /\ g[i].seqs = d[i].seqs /\ g[i].pos = d[i].pos /\ g[i].src = d[i].src
  BY <1>2
<1> QED BY <1>1, <1>2, <1>3 DEF Took, g

\* And with one that shares its cell.
LEMMA TookCopy ==
  ASSUME NEW c, NEW d, NEW L \in SUBSET Seqs, Split(c, d, L), NEW s \in Seqs \ L,
         d[s].tail # -1, NEW e \in Fresh(d)
  PROVE  Took(d, [d EXCEPT ![e].pos = d[d[s].tail].pos, ![e].src = d[d[s].tail].src, ![e].seqs = {s},
                           ![d[s].tail].seqs = d[d[s].tail].seqs \ {s}, ![s].tail = e], s, e)
<1> DEFINE t == d[s].tail
<1>1. /\ e \in Idx /\ d[e].seqs = {} /\ s \in Idx /\ d \in [Idx -> Cell]
      /\ t \in Idx /\ s \in d[t].seqs /\ \A i \in Idx : i # t => s \notin d[i].seqs
  BY SharedFacts, IdxFacts DEF Fresh, is_empty, Split
<1> HIDE DEF t
<1>2. e # t
  BY <1>1
<1> DEFINE g1 == [d EXCEPT ![e].pos = d[t].pos]
           g2 == [g1 EXCEPT ![e].src = d[t].src]
           g3 == [g2 EXCEPT ![e].seqs = {s}]
           g4 == [g3 EXCEPT ![t].seqs = d[t].seqs \ {s}]
           g  == [g4 EXCEPT ![s].tail = e]
<1>3. [d EXCEPT ![e].pos = d[t].pos, ![e].src = d[t].src, ![e].seqs = {s},
                ![t].seqs = d[t].seqs \ {s}, ![s].tail = e] = g
  OBVIOUS
<1>4. d[t].pos \in -1 .. MaxPos /\ d[t].src \in {-1} \cup Idx /\ d[t].seqs \ {s} \in SUBSET Seqs /\ {s} \in SUBSET Seqs
  BY <1>1 DEF Cell
<1>5. /\ g1 \in [Idx -> Cell] /\ (\A i \in Idx : i # e => g1[i] = d[i])
      /\ g1[e].pos = d[t].pos /\ g1[e].tail = d[e].tail
  BY <1>1, <1>4 DEF Cell
<1> HIDE DEF g1
<1>6. /\ g2 \in [Idx -> Cell] /\ (\A i \in Idx : i # e => g2[i] = d[i])
      /\ g2[e].pos = d[t].pos /\ g2[e].tail = d[e].tail /\ g2[e].src = d[t].src
  BY <1>1, <1>4, <1>5 DEF Cell
<1> HIDE DEF g2
<1>7. /\ g3 \in [Idx -> Cell] /\ (\A i \in Idx : i # e => g3[i] = d[i])
      /\ g3[e].pos = d[t].pos /\ g3[e].tail = d[e].tail /\ g3[e].src = d[t].src /\ g3[e].seqs = {s}
  BY <1>1, <1>4, <1>6 DEF Cell
<1> HIDE DEF g3
<1>8. /\ g4 \in [Idx -> Cell] /\ (\A i \in Idx \ {e, t} : g4[i] = d[i]) /\ g4[e] = g3[e]
      /\ g4[t].seqs = d[t].seqs \ {s} /\ g4[t].pos = d[t].pos /\ g4[t].tail = d[t].tail /\ g4[t].src = d[t].src
  BY <1>1, <1>2, <1>4, <1>7 DEF Cell
<1> HIDE DEF g4
<1>9. /\ g \in [Idx -> Cell] /\ g[s].tail = e
      /\ \A i \in Idx : /\ g[i].seqs = g4[i].seqs /\ g[i].pos = g4[i].pos /\ g[i].src = g4[i].src
                        /\ i # s => g[i].tail = g4[i].tail
  BY <1>1, <1>8 DEF Cell
<1> HIDE DEF g
<1>10. ASSUME NEW i \in Idx PROVE g[i].tail = IF i = s THEN e ELSE d[i].tail
  <2>1. g4[i].tail = d[i].tail
    BY <1>7, <1>8
  <2> QED BY <1>9, <2>1
<1>11. ASSUME NEW i \in Idx \ {e} PROVE g[i].seqs = d[i].seqs \ {s} /\ g[i].pos = d[i].pos /\ g[i].src = d[i].src
  <2>1. CASE i = t
    BY <1>1, <1>8, <1>9, <2>1
  <2>2. CASE i # t
    BY <1>1, <1>8, <1>9, <2>2
  <2> QED BY <2>1, <2>2
<1>12. g[e].seqs = {s} /\ g[e].pos = d[t].pos /\ g[e].src = d[t].src
  BY <1>1, <1>7, <1>8, <1>9
<1>13. Took(d, g, s, e)
  BY <1>9, <1>10, <1>11, <1>12 DEF Took, t
<1> QED BY <1>3, <1>13 DEF t

\* Sequence s takes the empty cell e: g are the cells then.
Settles(c, d, L, s, e, g) ==
  /\ L \in SUBSET Seqs /\ s \in Seqs \ L /\ Split(c, d, L) /\ e \in Fresh(d) /\ Took(d, g, s, e)
  /\ d[s].tail = -1 \/ Cardinality(d[d[s].tail].seqs) # 1

\* It then has a cell of its own.
LEMMA TookSplit ==
  ASSUME NEW c, NEW d, NEW L, NEW s, NEW e, NEW g, Settles(c, d, L, s, e, g)
  PROVE  /\ Split(c, g, L \cup {s})
         /\ Fresh(g) = Fresh(d) \ {e} /\ Reserved(g) \subseteq Reserved(d) \cup {e}
<1>0. /\ L \in SUBSET Seqs /\ s \in Seqs \ L /\ Split(c, d, L) /\ e \in Fresh(d) /\ Took(d, g, s, e)
      /\ d[s].tail = -1 \/ Cardinality(d[d[s].tail].seqs) # 1
  BY DEF Settles
<1> DEFINE t == d[s].tail
<1>1. /\ g \in [Idx -> Cell]
      /\ \A i \in Idx : g[i].tail = IF i = s THEN e ELSE d[i].tail
      /\ \A i \in Idx \ {e} : g[i].seqs = d[i].seqs \ {s} /\ g[i].pos = d[i].pos /\ g[i].src = d[i].src
      /\ IF t = -1 THEN g[e].seqs = {} /\ g[e].pos = -1 /\ g[e].src = d[e].src
         ELSE g[e].seqs = {s} /\ g[e].pos = d[t].pos /\ g[e].src = d[t].src
  BY <1>0 DEF Took
<1>2. /\ \A i \in Idx : d[i].tail \in {-1} \cup Idx /\ d[i].seqs \in SUBSET Idx
      /\ t = -1 => \A i \in Idx : s \notin d[i].seqs
      /\ t # -1 => t \in Idx /\ s \in d[t].seqs /\ \A i \in Idx : i # t => s \notin d[i].seqs
      /\ e \in Idx /\ d[e].seqs = {} /\ s \in Idx /\ L \in SUBSET Idx /\ \A x \in Idx : d[x].tail # e
  BY <1>0, SharedFacts, IdxFacts DEF Fresh, is_empty, Unclaimed
<1>3. t # -1 => d[t].seqs \ {s} # {} /\ t # e
  <2> SUFFICES ASSUME t # -1, d[t].seqs = {s} PROVE FALSE
    BY <1>2
  <2> QED BY <1>0, <1>2, FS_Singleton
<1>4. \A i \in Idx \ {e} : g[i].seqs = {} <=> d[i].seqs = {}
  BY <1>1, <1>2, <1>3
<1>5. Filled(g)
  <2>1. \A i \in Idx : d[i].seqs = {} <=> d[i].pos = -1
    BY <1>0 DEF Split, Filled
  <2>2. \A i \in Idx \ {e} : g[i].seqs = {} <=> g[i].pos = -1
    BY <1>1, <1>4, <2>1
  <2>3. g[e].seqs = {} <=> g[e].pos = -1
    BY <1>1, <1>2, <2>1
  <2> QED BY <2>2, <2>3 DEF Filled
<1>6. \A i \in Idx : \A x \in g[i].seqs : g[x].tail = i
  <2> SUFFICES ASSUME NEW i \in Idx, NEW x \in g[i].seqs PROVE g[x].tail = i
    OBVIOUS
  <2>1. CASE i = e
    BY <1>1, <1>2, <2>1
  <2>2. CASE i # e
    <3>1. x \in d[i].seqs /\ x # s
      BY <1>1, <2>2
    <3>2. d[x].tail = i /\ x \in Idx
      BY <1>0, <1>2, <3>1 DEF Split
    <3> QED BY <1>1, <3>1, <3>2
  <2> QED BY <2>1, <2>2
<1>7. ASSUME NEW x \in Seqs \ (L \cup {s}) PROVE g[x].tail = c[x].tail /\ (g[x].tail = -1 \/ x \in g[g[x].tail].seqs)
  <2>1. x \in Idx /\ g[x].tail = d[x].tail /\ d[x].tail = c[x].tail /\ (d[x].tail = -1 \/ x \in d[d[x].tail].seqs) /\ x # s
    BY <1>0, <1>1, IdxFacts DEF Split
  <2> QED BY <1>1, <1>2, <2>1
<1>8. ASSUME NEW x \in L \cup {s} PROVE g[x].tail \in Idx /\ g[g[x].tail].seqs \subseteq {x}
  <2>1. CASE x = s
    BY <1>1, <1>2, <2>1
  <2>2. CASE x # s
    <3>1. x \in L /\ x \in Idx /\ g[x].tail = d[x].tail /\ d[x].tail \in Idx /\ d[d[x].tail].seqs \subseteq {x}
      BY <1>0, <1>1, <1>2, <2>2 DEF Split
    <3>2. d[x].tail # e
      BY <1>2, <3>1
    <3> QED BY <1>1, <3>1, <3>2
  <2> QED BY <2>1, <2>2
<1>9. ASSUME NEW x \in L \cup {s}, NEW y \in L \cup {s}, g[x].tail = g[y].tail PROVE x = y
  <2>1. x \in Idx /\ y \in Idx /\ \A z \in Idx : z # s => g[z].tail = d[z].tail /\ g[z].tail # e
    BY <1>1, <1>2
  <2>2. g[s].tail = e
    BY <1>1, <1>2
  <2>3. CASE x # s /\ y # s
    <3>1. x \in L /\ y \in L /\ d[x].tail = d[y].tail
      BY <1>9, <2>1, <2>3
    <3> QED BY <1>0, <3>1 DEF Split
  <2> QED BY <1>9, <2>1, <2>2, <2>3
<1>10. ASSUME NEW i \in Idx PROVE g[i].src \in {-1, i} \/ \E x \in L \cup {s} : g[x].tail = i
  <2>1. CASE i = e
    BY <1>1, <1>2, <2>1
  <2>2. CASE i # e
    <3>1. d[i].src \in {-1, i} \/ \E x \in L : d[x].tail = i
      BY <1>0 DEF Split
    <3>2. \A x \in L : x \in Idx /\ x # s
      BY <1>0, <1>2
    <3>3. g[i].src = d[i].src /\ \A x \in L : g[x].tail = d[x].tail
      BY <1>1, <2>2, <3>2
    <3> QED BY <3>1, <3>3
  <2> QED BY <2>1, <2>2
<1>11. Split(c, g, L \cup {s})
  BY <1>0, <1>1, <1>5, <1>6, <1>7, <1>8, <1>9, <1>10 DEF Split
<1>12. ASSUME NEW i \in Idx, i # e, d[i].seqs = {} PROVE (g[i].seqs = {}) /\ (Unclaimed(g, i) <=> Unclaimed(d, i))
  <2>1. g[i].seqs = {}
    BY <1>4, <1>12
  <2>2. d[s].tail # i
    <3>1. s \notin d[i].seqs
      BY <1>12
    <3> QED BY <1>2, <1>12, <3>1, IdxFacts
  <2>3. \A x \in Idx : g[x].tail = i <=> d[x].tail = i
    BY <1>1, <1>2, <1>12, <2>2
  <2> QED BY <2>1, <2>3, IdxFacts DEF Unclaimed
<1>13. ~Unclaimed(g, e)
  BY <1>1, <1>2, IdxFacts DEF Unclaimed
<1>14. \A i \in Idx : i # e /\ g[i].seqs = {} => d[i].seqs = {}
  BY <1>4
<1>15. Fresh(g) = Fresh(d) \ {e}
  BY <1>12, <1>13, <1>14 DEF Fresh, is_empty
<1>16. Reserved(g) \subseteq Reserved(d) \cup {e}
  BY <1>12, <1>14 DEF Reserved, is_empty
<1> QED BY <1>11, <1>15, <1>16

\* The sequences whose states the first k parts go on from.
LeadsOf(ub, k) == {Lead(ub, j) : j \in 1 .. k}

\* Every part finds its cell, or a fresh one.
LEMMA AssignFacts ==
  ASSUME NEW c, Sound(c), NEW ub, IsUb(ub), NEW at \in Idx
  PROVE  Assign(c, at, ub).sound /\ Split(c, Assign(c, at, ub).cells, LeadsOf(ub, Len(ub)))
<1> DEFINE n == Len(ub)
           base == [cells |-> c, next |-> EmptyFrom(c, at), sound |-> TRUE]
           Own(d, s) == d[s].tail >= 0 /\ Cardinality(d[d[s].tail].seqs) = 1
           Part(d, s, e) == [d EXCEPT ![e].pos = d[d[s].tail].pos, ![e].src = d[d[s].tail].src, ![e].seqs = {s},
                                      ![d[s].tail].seqs = d[d[s].tail].seqs \ {s}, ![s].tail = e]
           Next1(d, s, e) == IF d[s].tail >= 0 THEN Part(d, s, e) ELSE [d EXCEPT ![s].tail = e]
           With(a, d) == [a EXCEPT !.cells = d, !.next = EmptyFrom(d, (a.next + 1) % Size)]
           Step1(a, s) ==
             IF ~a.sound \/ (a.cells[s].tail >= 0 /\ s \notin a.cells[a.cells[s].tail].seqs)
                \/ (~Own(a.cells, s) /\ a.next = -1)
             THEN [a EXCEPT !.sound = FALSE]
             ELSE IF Own(a.cells, s) THEN a ELSE With(a, Next1(a.cells, s, a.next))
           Step(k, a) == Step1(a, Lead(ub, k))
           E(m, h) == [k \in 0 .. m |-> IF k = 0 THEN base ELSE Step(k, h[k - 1])]
           w == CHOOSE h : h = E(n, h)
           Kept(k, a) == /\ Split(c, a.cells, LeadsOf(ub, k)) /\ Leads(a.cells, at, a.next)
                         /\ a = [cells |-> a.cells, next |-> a.next, sound |-> TRUE]
<1>2. Assign(c, at, ub) = w[n]
  BY DEF Assign, Lead
<1>1. n \in Nat /\ \A k \in 1 .. n : Lead(ub, k) \in Seqs /\ \A j \in 1 .. n : j # k => Lead(ub, j) # Lead(ub, k)
  BY UbFacts
<1> HIDE DEF n
<1>3. Kept(0, base)
  <2>1. LeadsOf(ub, 0) = {}
    BY DEF LeadsOf
  <2>2. c \in [Idx -> Cell] /\ Linked(c) /\ Filled(c) /\ Home(c)
    BY DEF Sound
  <2>3. Split(c, c, {})
    BY <2>2 DEF Split, Linked, Home
  <2>4. Reserved(c) = {}
    <3> SUFFICES ASSUME NEW i \in Idx, is_empty(c, i), NEW x \in Seqs, c[x].tail = i PROVE FALSE
      BY DEF Reserved, Unclaimed
    <3>1. x \in c[i].seqs
      BY <2>2, IdxFacts DEF Linked
    <3> QED BY <3>1 DEF is_empty
  <2>5. Leads(c, at, EmptyFrom(c, at))
    <3> SUFFICES ASSUME Fresh(c) # {}
                 PROVE  /\ EmptyFrom(c, at) \in Fresh(c)
                        /\ \A i \in Fresh(c) : Turn(at, EmptyFrom(c, at)) <= Turn(at, i)
      BY <2>4 DEF Leads
    <3>1. \A i \in Idx : is_empty(c, i) <=> i \in Fresh(c)
      BY <2>4 DEF Fresh, Reserved
    <3>2. \E i \in Idx : is_empty(c, i)
      BY <3>1 DEF Fresh
    <3>3. /\ EmptyFrom(c, at) \in Idx /\ is_empty(c, EmptyFrom(c, at))
          /\ \A i \in Idx : is_empty(c, i) => Turn(at, EmptyFrom(c, at)) <= Turn(at, i)
      BY <3>2, EmptyFromFacts
    <3> QED BY <3>1, <3>3 DEF Fresh
  <2> QED BY <2>1, <2>3, <2>5
<1>4. ASSUME NEW k \in 1 .. n, NEW a, Kept(k - 1, a) PROVE Kept(k, Step(k, a))
  <2> DEFINE s == Lead(ub, k)
             d == a.cells
             e == a.next
             L == LeadsOf(ub, k - 1)
             t == d[s].tail
  <2>1. LeadsOf(ub, k) = L \cup {s}
    <3>1. \A j \in 1 .. k : j = k \/ j \in 1 .. k - 1
      BY <1>1
    <3>2. k \in 1 .. k /\ \A j \in 1 .. k - 1 : j \in 1 .. k
      BY <1>1
    <3> QED BY <3>1, <3>2 DEF LeadsOf
  <2>2. s \in Seqs \ L /\ L \in SUBSET Seqs
    <3>1. \A j \in 1 .. k - 1 : j \in 1 .. n /\ j # k
      BY <1>1
    <3> QED BY <1>1, <3>1 DEF LeadsOf
  <2>3. Split(c, d, L) /\ Leads(d, at, e) /\ a = [cells |-> d, next |-> e, sound |-> TRUE]
    BY <1>4
  <2> HIDE DEF s, d, e, L
  <2>4. /\ \A i \in Idx : d[i].tail \in {-1} \cup Idx
        /\ t = -1 \/ (t \in Idx /\ s \in d[t].seqs)
    BY <2>2, <2>3, SharedFacts
  <2>5. (t >= 0 <=> t # -1) /\ ~(t >= 0 /\ s \notin d[t].seqs) /\ a.sound
    <3>1. \A i \in Idx : i >= 0 /\ i # -1
      BY IdxFacts
    <3> QED BY <2>3, <2>4, <3>1
  <2>6. CASE Own(d, s)
    <3>1. Step1(a, s) = a
      BY <2>5, <2>6 DEF d
    <3>2. Split(c, d, L \cup {s})
      BY <2>2, <2>3, <2>5, <2>6, OwnCell
    <3> HIDE DEF Step1
    <3>3. Split(c, a.cells, L \cup {s}) /\ Leads(a.cells, at, a.next)
          /\ a = [cells |-> a.cells, next |-> a.next, sound |-> TRUE]
      BY <2>3, <3>2 DEF d, e
    <3> QED BY <2>1, <3>1, <3>3 DEF s
  <2>7. CASE ~Own(d, s)
    <3> DEFINE g == Next1(d, s, e)
    <3>1. t = -1 \/ Cardinality(d[t].seqs) # 1
      BY <2>5, <2>7
    <3>2. e \in Fresh(d)
      <4>1. Fresh(d) # {}
        BY <2>2, <2>3, <3>1, FreshCell
      <4> QED BY <2>3, <4>1 DEF Leads
    <3>3. e # -1
      BY <3>2, IdxFacts DEF Fresh
    <3>4. Step1(a, s) = With(a, g)
      BY <2>5, <2>7, <3>3 DEF d, e
    <3>5. Took(d, g, s, e)
      <4>1. CASE t = -1
        <5>1. g = [d EXCEPT ![s].tail = e]
          BY <2>5, <4>1
        <5> HIDE DEF g
        <5> QED BY <2>2, <2>3, <3>2, <4>1, <5>1, TookEmpty
      <4>2. CASE t # -1
        <5>1. g = Part(d, s, e)
          BY <2>5, <4>2
        <5> HIDE DEF g
        <5> QED BY <2>2, <2>3, <3>2, <4>2, <5>1, TookCopy
      <4> QED BY <4>1, <4>2
    <3> HIDE DEF g, Step1
    <3>6. Split(c, g, L \cup {s}) /\ Fresh(g) = Fresh(d) \ {e} /\ Reserved(g) \subseteq Reserved(d) \cup {e}
      <4>1. d[s].tail = -1 \/ Cardinality(d[d[s].tail].seqs) # 1
        BY <3>1
      <4>2. Settles(c, d, L, s, e, g)
        BY <2>2, <2>3, <3>2, <3>5, <4>1 DEF Settles
      <4> QED BY <4>2, TookSplit
    <3>7. Leads(g, at, EmptyFrom(g, (e + 1) % Size))
      BY <2>3, <3>2, <3>6, LeadsOn
    <3>8. With(a, g) = [cells |-> g, next |-> EmptyFrom(g, (e + 1) % Size), sound |-> TRUE]
      <4>1. a.next = e
        BY DEF e
      <4> DEFINE f == EmptyFrom(g, (e + 1) % Size)
      <4>2. With(a, g) = [a EXCEPT !.cells = g, !.next = f]
        BY <4>1
      <4> HIDE DEF f, With
      <4>3. With(a, g) = [cells |-> g, next |-> f, sound |-> TRUE]
        BY <2>3, <4>2
      <4> QED BY <4>3 DEF f
    <3> DEFINE b == With(a, g)
    <3>9. b.cells = g /\ b.next = EmptyFrom(g, (e + 1) % Size) /\ b = [cells |-> b.cells, next |-> b.next, sound |-> TRUE]
      BY <3>8
    <3>10. Step(k, a) = b
      BY <3>4 DEF s
    <3> HIDE DEF b, Step
    <3> QED BY <2>1, <3>6, <3>7, <3>9, <3>10
  <2> QED BY <2>6, <2>7
<1> HIDE DEF Kept, Step, base
<1>5. w[0] = base /\ \A k \in 1 .. n : w[k] = Step(k, w[k - 1])
  <2> DEFINE T == {m \in Nat : \E h : h = E(m, h)}
  <2>1. 0 \in T
    <3> DEFINE h == [k \in 0 .. 0 |-> base]
    <3>1. h = E(0, h)
      OBVIOUS
    <3> QED BY <3>1
  <2>2. ASSUME NEW m \in Nat, m \in T PROVE m + 1 \in T
    <3>1. PICK h : h = E(m, h)
      BY <2>2
    <3>0. \A k \in 0 .. m : h[k] = IF k = 0 THEN base ELSE Step(k, h[k - 1])
      BY <3>1
    <3> HIDE DEF E
    <3> DEFINE g == [k \in 0 .. m + 1 |-> IF k = m + 1 THEN Step(m + 1, h[m]) ELSE h[k]]
    <3>2. ASSUME NEW k \in 0 .. m + 1 PROVE g[k] = IF k = 0 THEN base ELSE Step(k, g[k - 1])
      <4>1. /\ k # m + 1 => k \in 0 .. m /\ (k # 0 => k - 1 \in 0 .. m + 1 /\ k - 1 # m + 1)
            /\ k = m + 1 => k # 0 /\ k - 1 = m /\ m \in 0 .. m + 1 /\ m # m + 1
        OBVIOUS
      <4>2. CASE k = m + 1
        BY <4>1, <4>2
      <4>3. CASE k # m + 1
        <5>1. g[k] = h[k] /\ (k # 0 => g[k - 1] = h[k - 1])
          BY <4>1, <4>3
        <5> HIDE DEF g
        <5> QED BY <3>0, <4>1, <4>3, <5>1
      <4> QED BY <4>2, <4>3
    <3> HIDE DEF g
    <3>3. g = E(m + 1, g)
      BY <3>2 DEF g, E
    <3> QED BY <3>3
  <2>3. n \in T
    <3> HIDE DEF T
    <3> QED BY <1>1, <2>1, <2>2, SetInduction
  <2>4. \E h : h = E(n, h)
    BY <2>3
  <2> HIDE DEF E
  <2>5. w = E(n, w)
    BY <2>4
  <2> HIDE DEF w
  <2>6. 0 \in 0 .. n /\ \A k \in 1 .. n : k \in 0 .. n /\ k # 0
    BY <1>1
  <2> QED BY <2>5, <2>6 DEF E
<1> HIDE DEF w, E
<1>6. Kept(n, w[n])
  <2> DEFINE S == {k \in 0 .. n : Kept(k, w[k])}
  <2>1. 0 \in S
    BY <1>1, <1>3, <1>5
  <2>2. ASSUME NEW k \in 1 .. n, k - 1 \in S PROVE k \in S
    <3>1. Kept(k - 1, w[k - 1]) /\ k \in 0 .. n
      BY <1>1, <2>2
    <3>2. Kept(k, Step(k, w[k - 1]))
      BY <1>4, <3>1
    <3> QED BY <1>5, <3>1, <3>2
  <2> HIDE DEF S
  <2>3. n \in S
    <3>1. \A k \in 0 .. n : k \in S
      BY <1>1, <2>1, <2>2, FiniteInduction
    <3> QED BY <1>1, <3>1
  <2> QED BY <2>3 DEF S
<1> QED BY <1>2, <1>6 DEF Kept, n

-----------------------------------------------------------------------------
(***************************************************************************)
(* find_slot: the cells are brought together.                              *)
(***************************************************************************)
\* The other one of two cells.
Other(i, j, t) == IF t = i THEN j ELSE IF t = j THEN i ELSE t

\* What was in one cell is in the other.
LEMMA SwapCellsFacts ==
  ASSUME NEW c \in [Idx -> Cell], NEW i \in Idx, NEW j \in Idx
  PROVE  /\ SwapCells(c, i, j) \in [Idx -> Cell]
         /\ \A k \in Idx : LET g == SwapCells(c, i, j)
                               o == Other(i, j, k)
                           IN /\ g[k].seqs = c[o].seqs /\ g[k].pos = c[o].pos /\ g[k].src = c[o].src
                              /\ g[k].tail = Other(i, j, c[k].tail)
<1> DEFINE a == [c[j] EXCEPT !.tail = c[i].tail]
           b == [c[i] EXCEPT !.tail = c[j].tail]
           f == [c EXCEPT ![i] = a, ![j] = b]
           g == SwapCells(c, i, j)
<1>1. g = [k \in Idx |-> [f[k] EXCEPT !.tail = Other(i, j, f[k].tail)]]
  BY DEF SwapCells, Other
<1>2. /\ a \in Cell /\ a.seqs = c[j].seqs /\ a.pos = c[j].pos /\ a.src = c[j].src /\ a.tail = c[i].tail
      /\ b \in Cell /\ b.seqs = c[i].seqs /\ b.pos = c[i].pos /\ b.src = c[i].src /\ b.tail = c[j].tail
  BY DEF Cell
<1> HIDE DEF a, b
<1>3. f \in [Idx -> Cell] /\ \A k \in Idx : f[k] = IF k = j THEN b ELSE IF k = i THEN a ELSE c[k]
  BY <1>2
<1> HIDE DEF f
<1>4. ASSUME NEW k \in Idx
      PROVE  /\ f[k].seqs = c[Other(i, j, k)].seqs /\ f[k].pos = c[Other(i, j, k)].pos
             /\ f[k].src = c[Other(i, j, k)].src /\ f[k].tail = c[k].tail
  <2>1. CASE k = j
    BY <1>2, <1>3, <2>1 DEF Other
  <2>2. CASE k # j
    BY <1>2, <1>3, <2>2 DEF Other
  <2> QED BY <2>1, <2>2
<1>5. ASSUME NEW k \in Idx
      PROVE  /\ g[k] \in Cell /\ g[k].seqs = f[k].seqs /\ g[k].pos = f[k].pos /\ g[k].src = f[k].src
             /\ g[k].tail = Other(i, j, f[k].tail)
  <2> DEFINE r == f[k]
             t == Other(i, j, r.tail)
  <2>1. r \in Cell /\ r.tail \in {-1} \cup Idx
    BY <1>3 DEF Cell
  <2>2. t \in {-1} \cup Idx
    BY <2>1, IdxFacts DEF Other
  <2>3. g[k] = [r EXCEPT !.tail = t]
    BY <1>1
  <2> HIDE DEF g, r, t
  <2>4. g[k] \in Cell /\ g[k].seqs = r.seqs /\ g[k].pos = r.pos /\ g[k].src = r.src /\ g[k].tail = t
    BY <2>1, <2>2, <2>3 DEF Cell
  <2> QED BY <2>4 DEF r, t
<1>6. g \in [Idx -> Cell]
  <2>1. g = [k \in Idx |-> g[k]]
    BY <1>1
  <2> HIDE DEF g
  <2> QED BY <1>5, <2>1
<1> HIDE DEF g
<1>7. \A k \in Idx : /\ g[k].seqs = c[Other(i, j, k)].seqs /\ g[k].pos = c[Other(i, j, k)].pos
                     /\ g[k].src = c[Other(i, j, k)].src /\ g[k].tail = Other(i, j, c[k].tail)
  BY <1>4, <1>5
<1> QED BY <1>6, <1>7 DEF g

\* The cells of the sequences of L are between lo and hi, and only there states are away.
Within(d, L, lo, hi) ==
  /\ d \in [Idx -> Cell] /\ Filled(d)
  /\ \A i \in Idx : \A x \in d[i].seqs : d[x].tail = i
  /\ \A x \in Seqs \ L : d[x].tail = -1 \/ x \in d[d[x].tail].seqs
  /\ \A x \in L : d[x].tail \in lo .. hi /\ d[d[x].tail].seqs \subseteq {x}
  /\ \A x, y \in L : d[x].tail = d[y].tail => x = y
  /\ \A i \in Idx : i \notin lo .. hi => d[i].src \in {-1, i}

\* That stays so when two cells between lo and hi are swapped.
LEMMA SwapWithin ==
  ASSUME NEW L \in SUBSET Seqs, NEW lo \in Idx, NEW hi \in Idx, NEW d, Within(d, L, lo, hi),
         NEW i \in lo .. hi, NEW j \in lo .. hi
  PROVE  /\ Within(SwapCells(d, i, j), L, lo, hi)
         /\ \A x \in Idx : SwapCells(d, i, j)[x].tail = Other(i, j, d[x].tail)
<1> DEFINE g == SwapCells(d, i, j)
<1>0. /\ d \in [Idx -> Cell] /\ Filled(d)
      /\ \A k \in Idx : \A x \in d[k].seqs : d[x].tail = k
      /\ \A x \in Seqs \ L : d[x].tail = -1 \/ x \in d[d[x].tail].seqs
      /\ \A x \in L : d[x].tail \in lo .. hi /\ d[d[x].tail].seqs \subseteq {x}
      /\ \A x, y \in L : d[x].tail = d[y].tail => x = y
      /\ \A k \in Idx : k \notin lo .. hi => d[k].src \in {-1, k}
  BY DEF Within
<1>1. i \in Idx /\ j \in Idx /\ \A k \in lo .. hi : k \in Idx
  BY IdxFacts DEF Idx
<1>2. /\ g \in [Idx -> Cell]
      /\ \A k \in Idx : /\ g[k].seqs = d[Other(i, j, k)].seqs /\ g[k].pos = d[Other(i, j, k)].pos
                        /\ g[k].src = d[Other(i, j, k)].src /\ g[k].tail = Other(i, j, d[k].tail)
  BY <1>0, <1>1, SwapCellsFacts
<1> HIDE DEF g
<1>3. /\ \A k \in Idx : Other(i, j, k) \in Idx /\ Other(i, j, Other(i, j, k)) = k
      /\ Other(i, j, -1) = -1
      /\ \A k \in lo .. hi : Other(i, j, k) \in lo .. hi
      /\ \A k : k \notin lo .. hi => Other(i, j, k) = k
      /\ \A k, m : Other(i, j, k) = Other(i, j, m) => k = m
  BY <1>1, IdxFacts DEF Other
<1>4. \A k \in Idx : d[k].tail \in {-1} \cup Idx /\ d[k].seqs \in SUBSET Idx
  <2>1. \A k \in Idx : d[k] \in Cell
    BY <1>0
  <2> QED BY <2>1, IdxFacts DEF Cell
<1>5. Filled(g)
  BY <1>0, <1>2, <1>3 DEF Filled
<1>6. ASSUME NEW k \in Idx, NEW x \in g[k].seqs PROVE g[x].tail = k
  <2>1. x \in d[Other(i, j, k)].seqs /\ Other(i, j, k) \in Idx
    BY <1>2, <1>3
  <2>2. x \in Idx /\ d[x].tail = Other(i, j, k)
    BY <1>0, <1>4, <2>1
  <2> QED BY <1>2, <1>3, <2>2
<1>7. ASSUME NEW x \in Idx PROVE /\ g[x].tail = -1 <=> d[x].tail = -1
                                 /\ d[x].tail # -1 => g[g[x].tail].seqs = d[d[x].tail].seqs /\ g[x].tail \in Idx
  <2>1. g[x].tail = Other(i, j, d[x].tail)
    BY <1>2
  <2>2. CASE d[x].tail = -1
    BY <1>3, <2>1, <2>2
  <2>3. CASE d[x].tail # -1
    <3>1. d[x].tail \in Idx
      BY <1>4, <2>3
    <3>2. g[x].tail \in Idx /\ Other(i, j, g[x].tail) = d[x].tail
      BY <1>3, <2>1, <3>1
    <3> QED BY <1>2, <2>3, <3>1, <3>2, IdxFacts
  <2> QED BY <2>2, <2>3
<1>8. \A x \in Seqs \ L : g[x].tail = -1 \/ x \in g[g[x].tail].seqs
  BY <1>0, <1>7, IdxFacts
<1>9. ASSUME NEW x \in L PROVE g[x].tail \in lo .. hi /\ g[g[x].tail].seqs \subseteq {x}
  <2>1. x \in Idx /\ d[x].tail \in lo .. hi /\ d[d[x].tail].seqs \subseteq {x}
    BY <1>0, IdxFacts
  <2>2. d[x].tail \in Idx /\ d[x].tail # -1
    BY <1>1, <2>1, IdxFacts
  <2> QED BY <1>2, <1>3, <1>7, <2>1, <2>2
<1>10. \A x, y \in L : g[x].tail = g[y].tail => x = y
  BY <1>0, <1>2, <1>3, IdxFacts
<1>11. \A k \in Idx : k \notin lo .. hi => g[k].src \in {-1, k}
  BY <1>0, <1>2, <1>3
<1>12. Within(g, L, lo, hi)
  BY <1>2, <1>5, <1>6, <1>8, <1>9, <1>10, <1>11 DEF Within
<1> QED BY <1>2, <1>12 DEF g

\* There are as many cells as parts.
LEMMA PartsFit ==
  ASSUME NEW ub, IsUb(ub), NEW lo \in Idx, NEW hi \in Idx, NEW d, Within(d, LeadsOf(ub, Len(ub)), lo, hi)
  PROVE  /\ LeadsOf(ub, Len(ub)) \in SUBSET Seqs
         /\ \A k \in 1 .. Len(ub) : Lead(ub, k) \in LeadsOf(ub, Len(ub))
         /\ Cardinality(lo .. hi) >= Len(ub) /\ lo + Len(ub) - 1 <= hi
<1> DEFINE n == Len(ub)
           L == LeadsOf(ub, n)
           f == [k \in 1 .. n |-> d[Lead(ub, k)].tail]
<1>1. /\ n \in Nat /\ n >= 1 /\ \A k \in 1 .. n : Lead(ub, k) \in Seqs
      /\ \A j, k \in 1 .. n : j # k => Lead(ub, j) # Lead(ub, k)
  BY UbFacts
<1> HIDE DEF n
<1>2. L \in SUBSET Seqs /\ \A k \in 1 .. n : Lead(ub, k) \in L
  BY <1>1 DEF LeadsOf
<1>0. Within(d, L, lo, hi)
  BY DEF n
<1> HIDE DEF L
<1>3. f \in Injection(1 .. n, lo .. hi)
  <2>1. \A x \in L : d[x].tail \in lo .. hi
    BY <1>0 DEF Within
  <2>2. \A x, y \in L : d[x].tail = d[y].tail => x = y
    BY <1>0 DEF Within
  <2>3. f \in [1 .. n -> lo .. hi]
    BY <1>2, <2>1
  <2>4. \A j, k \in 1 .. n : f[j] = f[k] => j = k
    BY <1>1, <1>2, <2>2
  <2> HIDE DEF f
  <2> QED BY <2>3, <2>4 DEF Injection, IsInjective
<1> HIDE DEF f
<1>4. lo \in Int /\ hi \in Int
  BY IdxFacts
<1>5. /\ IsFiniteSet(lo .. hi) /\ Cardinality(lo .. hi) = IF lo > hi THEN 0 ELSE hi - lo + 1
      /\ Cardinality(1 .. n) = n
  <2>1. Cardinality(1 .. n) = IF 1 > n THEN 0 ELSE n - 1 + 1
    BY <1>1, FS_Interval
  <2> QED BY <1>1, <1>4, <2>1, FS_Interval
<1>6. Cardinality(1 .. n) <= Cardinality(lo .. hi)
  BY <1>3, <1>5, FS_Injection
<1> QED BY <1>1, <1>2, <1>4, <1>5, <1>6 DEF n, L

\* Part k goes on from cell lo + k - 1.
LEMMA GatheredFacts ==
  ASSUME NEW ub, IsUb(ub), NEW lo \in Idx, NEW hi \in Idx, NEW c, Within(c, LeadsOf(ub, Len(ub)), lo, hi), Alone(c, ub)
  PROVE  LET g == Gathered(c, lo, ub)
         IN /\ Within(g, LeadsOf(ub, Len(ub)), lo, hi) /\ Alone(g, ub)
            /\ \A j \in 1 .. Len(ub) : g[Lead(ub, j)].tail = lo + j - 1
<1> DEFINE n == Len(ub)
           L == LeadsOf(ub, n)
           base == c
           Step(k, d) == SwapCells(d, lo + k - 1, d[Lead(ub, k)].tail)
           E(m, h) == [k \in 0 .. m |-> IF k = 0 THEN base ELSE Step(k, h[k - 1])]
           w == CHOOSE h : h = E(n, h)
           Kept(k, d) == /\ Within(d, L, lo, hi) /\ Alone(d, ub)
                         /\ \A j \in 1 .. k : d[Lead(ub, j)].tail = lo + j - 1
<1>2. Gathered(c, lo, ub) = w[n]
  BY DEF Gathered, Lead
<1>7. /\ n \in Nat /\ n >= 1 /\ \A k \in 1 .. n : Lead(ub, k) \in Seqs
      /\ \A k \in 1 .. n : ToSet(ub[k].ids) \in SUBSET Seqs
      /\ \A j, k \in 1 .. n : j # k => Lead(ub, j) # Lead(ub, k)
  BY UbFacts
<1>8. L \in SUBSET Seqs /\ (\A k \in 1 .. n : Lead(ub, k) \in L) /\ lo + n - 1 <= hi
  BY PartsFit
<1>1. n \in Nat
  BY <1>7
<1>3. Kept(0, base)
  OBVIOUS
<1>9. \A d : Alone(d, ub) <=> \A k \in 1 .. n : \A x \in ToSet(ub[k].ids) : x = Lead(ub, k) \/ d[x].tail = -1
  BY DEF Alone
<1> HIDE DEF n, L
<1>4. ASSUME NEW k \in 1 .. n, NEW d, Kept(k - 1, d) PROVE Kept(k, Step(k, d))
  <2> DEFINE i == lo + k - 1
             j == d[Lead(ub, k)].tail
             g == SwapCells(d, i, j)
  <2>1. Within(d, L, lo, hi) /\ Alone(d, ub) /\ \A m \in 1 .. k - 1 : d[Lead(ub, m)].tail = lo + m - 1
    BY <1>4
  <2>2. /\ lo \in Nat /\ hi \in Nat /\ i \in lo .. hi
        /\ \A m \in 1 .. k : m = k \/ (m \in 1 .. k - 1 /\ m \in 1 .. n /\ m # k /\ lo + m - 1 # i)
    BY <1>1, <1>8, IdxFacts
  <2>3. j \in lo .. hi
    BY <1>8, <2>1 DEF Within
  <2> HIDE DEF i
  <2>4. /\ Within(g, L, lo, hi)
        /\ \A x \in Idx : g[x].tail = Other(i, j, d[x].tail)
    <3>1. L \in SUBSET Seqs /\ Within(d, L, lo, hi) /\ i \in lo .. hi
      BY <1>8, <2>1, <2>2
    <3> HIDE DEF j, Step
    <3> QED BY <2>3, <3>1, SwapWithin
  <2>5. \A x, y \in L : d[x].tail = d[y].tail => x = y
    BY <2>1 DEF Within
  <2>6. ASSUME NEW m \in 1 .. k PROVE g[Lead(ub, m)].tail = lo + m - 1
    <3>1. CASE m = k
      <4>1. g[Lead(ub, k)].tail = Other(i, j, j)
        BY <1>7, <2>4, IdxFacts
      <4>2. Other(i, j, j) = i
        BY DEF Other
      <4> HIDE DEF g, j
      <4> QED BY <3>1, <4>1, <4>2 DEF i
    <3>2. CASE m # k
      <4>1. m \in 1 .. k - 1 /\ m \in 1 .. n /\ lo + m - 1 # i
        BY <2>2, <3>2
      <4>2. d[Lead(ub, m)].tail = lo + m - 1 /\ Lead(ub, m) \in L /\ Lead(ub, k) \in L /\ Lead(ub, m) # Lead(ub, k)
            /\ Lead(ub, m) \in Idx
        BY <1>7, <1>8, <2>1, <3>2, <4>1, IdxFacts
      <4>3. d[Lead(ub, m)].tail # j
        BY <2>5, <4>2
      <4>4. g[Lead(ub, m)].tail = Other(i, j, d[Lead(ub, m)].tail)
        BY <2>4, <4>2
      <4> HIDE DEF g, j
      <4> QED BY <4>1, <4>2, <4>3, <4>4 DEF Other
    <3> QED BY <3>1, <3>2
  <2>7. Alone(g, ub)
    <3> SUFFICES ASSUME NEW m \in 1 .. n, NEW x \in ToSet(ub[m].ids), x # Lead(ub, m) PROVE g[x].tail = -1
      BY <1>9
    <3>1. d[x].tail = -1 /\ x \in Idx
      BY <1>7, <1>9, <2>1, IdxFacts
    <3>2. g[x].tail = Other(i, j, -1)
      BY <2>4, <3>1
    <3>3. i # -1 /\ j # -1
      BY <2>2, <2>3
    <3> HIDE DEF g, j
    <3> QED BY <3>2, <3>3 DEF Other
  <2>8. Step(k, d) = g
    BY DEF i
  <2> HIDE DEF g, Step
  <2> QED BY <2>4, <2>6, <2>7, <2>8
<1> HIDE DEF Kept, Step, base
<1>5. w[0] = base /\ \A k \in 1 .. n : w[k] = Step(k, w[k - 1])
  <2> DEFINE T == {m \in Nat : \E h : h = E(m, h)}
  <2>1. 0 \in T
    <3> DEFINE h == [k \in 0 .. 0 |-> base]
    <3>1. h = E(0, h)
      OBVIOUS
    <3> QED BY <3>1
  <2>2. ASSUME NEW m \in Nat, m \in T PROVE m + 1 \in T
    <3>1. PICK h : h = E(m, h)
      BY <2>2
    <3>0. \A k \in 0 .. m : h[k] = IF k = 0 THEN base ELSE Step(k, h[k - 1])
      BY <3>1
    <3> HIDE DEF E
    <3> DEFINE g == [k \in 0 .. m + 1 |-> IF k = m + 1 THEN Step(m + 1, h[m]) ELSE h[k]]
    <3>2. ASSUME NEW k \in 0 .. m + 1 PROVE g[k] = IF k = 0 THEN base ELSE Step(k, g[k - 1])
      <4>1. /\ k # m + 1 => k \in 0 .. m /\ (k # 0 => k - 1 \in 0 .. m + 1 /\ k - 1 # m + 1)
            /\ k = m + 1 => k # 0 /\ k - 1 = m /\ m \in 0 .. m + 1 /\ m # m + 1
        OBVIOUS
      <4>2. CASE k = m + 1
        BY <4>1, <4>2
      <4>3. CASE k # m + 1
        <5>1. g[k] = h[k] /\ (k # 0 => g[k - 1] = h[k - 1])
          BY <4>1, <4>3
        <5> HIDE DEF g
        <5> QED BY <3>0, <4>1, <4>3, <5>1
      <4> QED BY <4>2, <4>3
    <3> HIDE DEF g
    <3>3. g = E(m + 1, g)
      BY <3>2 DEF g, E
    <3> QED BY <3>3
  <2>3. n \in T
    <3> HIDE DEF T
    <3> QED BY <1>1, <2>1, <2>2, SetInduction
  <2>4. \E h : h = E(n, h)
    BY <2>3
  <2> HIDE DEF E
  <2>5. w = E(n, w)
    BY <2>4
  <2> HIDE DEF w
  <2>6. 0 \in 0 .. n /\ \A k \in 1 .. n : k \in 0 .. n /\ k # 0
    BY <1>1
  <2> QED BY <2>5, <2>6 DEF E
<1> HIDE DEF w, E
<1>6. Kept(n, w[n])
  <2> DEFINE S == {k \in 0 .. n : Kept(k, w[k])}
  <2>1. 0 \in S
    BY <1>1, <1>3, <1>5
  <2>2. ASSUME NEW k \in 1 .. n, k - 1 \in S PROVE k \in S
    <3>1. Kept(k - 1, w[k - 1]) /\ k \in 0 .. n
      BY <1>1, <2>2
    <3>2. Kept(k, Step(k, w[k - 1]))
      BY <1>4, <3>1
    <3> QED BY <1>5, <3>1, <3>2
  <2> HIDE DEF S
  <2>3. n \in S
    <3>1. \A k \in 0 .. n : k \in S
      BY <1>1, <2>1, <2>2, FiniteInduction
    <3> QED BY <1>1, <3>1
  <2> QED BY <2>3 DEF S
<1> QED BY <1>2, <1>6 DEF Kept, n, L

-----------------------------------------------------------------------------
(***************************************************************************)
(* find_slot: the cells get their sequences.                               *)
(***************************************************************************)
\* Linked and filled, but there may be states to be moved between lo and hi.
Placed(g, lo, hi) == /\ g \in [Idx -> Cell] /\ Linked(g) /\ Filled(g)
                     /\ \A i \in Idx : i \notin lo .. hi => g[i].src \in {-1, i}

\* The cells from lo on get the sequences of the parts.
LEMMA TakenFacts ==
  ASSUME NEW ub, IsUb(ub), NEW lo \in Idx, NEW hi \in Idx, NEW c, Within(c, LeadsOf(ub, Len(ub)), lo, hi),
         Alone(c, ub), \A j \in 1 .. Len(ub) : c[Lead(ub, j)].tail = lo + j - 1
  PROVE  Placed(Taken(c, lo, ub), lo, hi)
<1> DEFINE n == Len(ub)
           L == LeadsOf(ub, n)
           owner(i) == IF i - lo + 1 \in DOMAIN ub THEN ub[i - lo + 1] ELSE [ids |-> <<>>, pos |-> -1]
           tail(s)  == {k \in DOMAIN ub : s \in ToSet(ub[k].ids)}
           new(i) == [c[i] EXCEPT !.pos  = IF owner(i).ids = <<>> THEN @ ELSE owner(i).pos,
                                  !.seqs = IF owner(i).ids = <<>> THEN @ ELSE ToSet(owner(i).ids),
                                  !.tail = IF tail(i) = {} THEN @ ELSE lo + Max(tail(i)) - 1]
           g == [i \in Idx |-> new(i)]
           ids(k) == ToSet(ub[k].ids)
<1>1. Taken(c, lo, ub) = g
  BY DEF Taken
<1>2. /\ n \in Nat /\ n >= 1 /\ DOMAIN ub = 1 .. n
      /\ \A k \in 1 .. n : /\ Lead(ub, k) \in ids(k) /\ ids(k) \in SUBSET Idx /\ ub[k].pos \in 0 .. MaxPos
                           /\ ub[k].ids # <<>>
      /\ \A j, k \in 1 .. n : j # k => ids(j) \cap ids(k) = {}
  BY UbFacts, IdxFacts DEF IsUb, IsPart
<1>3. /\ L \in SUBSET Seqs /\ (\A k \in 1 .. n : Lead(ub, k) \in L) /\ lo + n - 1 <= hi
      /\ \A x \in L : \E k \in 1 .. n : x = Lead(ub, k)
  BY PartsFit DEF LeadsOf
<1>4. /\ c \in [Idx -> Cell] /\ Filled(c)
      /\ \A i \in Idx : \A x \in c[i].seqs : c[x].tail = i
      /\ \A x \in Seqs \ L : c[x].tail = -1 \/ x \in c[c[x].tail].seqs
      /\ \A x \in L : c[c[x].tail].seqs \subseteq {x}
      /\ \A i \in Idx : i \notin lo .. hi => c[i].src \in {-1, i}
  BY DEF Within
<1>5. /\ \A j \in 1 .. n : c[Lead(ub, j)].tail = lo + j - 1
      /\ \A k \in 1 .. n : \A x \in ids(k) : x = Lead(ub, k) \/ c[x].tail = -1
  BY DEF Alone
<1> HIDE DEF n, L
<1>6. lo \in Nat /\ hi \in Nat /\ hi <= Size - 1 /\ Size \in Nat /\ \A k \in 1 .. n : lo + k - 1 \in Idx /\ lo + k - 1 # -1
  BY <1>2, <1>3, IdxFacts DEF Idx
<1>7. \A i \in Idx : /\ c[i] \in Cell /\ c[i].tail \in {-1} \cup Idx /\ c[i].seqs \in SUBSET Idx
                     /\ c[i].pos \in -1 .. MaxPos /\ c[i].src \in {-1} \cup Idx
  <2>1. \A i \in Idx : c[i] \in Cell
    BY <1>4
  <2> QED BY <2>1, IdxFacts DEF Cell
<1> DEFINE Whose(i, k) == k \in 1 .. n /\ i = lo + k - 1
<1>8. /\ \A i \in Idx, k \in 1 .. n : Whose(i, k) <=> i - lo + 1 = k
      /\ \A k \in 1 .. n : Whose(lo + k - 1, k)
  BY <1>2, <1>6, IdxFacts
<1>9. ASSUME NEW i \in Idx, NEW k \in 1 .. n, Whose(i, k) PROVE owner(i) = ub[k] /\ owner(i).ids # <<>>
  <2>1. i - lo + 1 = k
    BY <1>8, <1>9
  <2> QED BY <1>2, <2>1
<1>10. ASSUME NEW i \in Idx, \A k \in 1 .. n : ~Whose(i, k) PROVE owner(i).ids = <<>>
  <2>1. i - lo + 1 \notin 1 .. n
    BY <1>8, <1>10
  <2>2. owner(i) = [ids |-> <<>>, pos |-> -1]
    BY <1>2, <2>1
  <2> HIDE DEF owner
  <2> QED BY <2>2
<1>11. ASSUME NEW s \in Idx, NEW k \in 1 .. n, s \in ids(k) PROVE tail(s) # {} /\ Max(tail(s)) = k
  <2>0. tail(s) = {m \in 1 .. n : s \in ids(m)}
    BY <1>2
  <2> HIDE DEF ids, tail
  <2>1. tail(s) = {k}
    <3>1. \A m \in 1 .. n : m # k => s \notin ids(m)
      BY <1>2, <1>11
    <3> QED BY <1>11, <2>0, <3>1
  <2>2. Max({k}) = k
    BY <1>2 DEF Max
  <2> QED BY <2>1, <2>2
<1>12. ASSUME NEW s \in Idx, \A k \in 1 .. n : s \notin ids(k) PROVE tail(s) = {}
  BY <1>2, <1>12
<1> HIDE DEF owner, tail
<1>13. ASSUME NEW i \in Idx
       PROVE  /\ g[i] \in Cell /\ g[i].src = c[i].src
              /\ g[i].pos = IF owner(i).ids = <<>> THEN c[i].pos ELSE owner(i).pos
              /\ g[i].seqs = IF owner(i).ids = <<>> THEN c[i].seqs ELSE ToSet(owner(i).ids)
              /\ g[i].tail = IF tail(i) = {} THEN c[i].tail ELSE lo + Max(tail(i)) - 1
  <2> DEFINE p == IF owner(i).ids = <<>> THEN c[i].pos ELSE owner(i).pos
             q == IF owner(i).ids = <<>> THEN c[i].seqs ELSE ToSet(owner(i).ids)
             t == IF tail(i) = {} THEN c[i].tail ELSE lo + Max(tail(i)) - 1
  <2>1. p \in -1 .. MaxPos /\ q \in SUBSET Seqs
    <3>1. CASE \E k \in 1 .. n : Whose(i, k)
      <4>1. PICK k \in 1 .. n : owner(i) = ub[k] /\ owner(i).ids # <<>>
        BY <1>9, <3>1
      <4>2. p = ub[k].pos /\ q = ids(k)
        BY <4>1
      <4> HIDE DEF p, q
      <4> QED BY <1>2, <4>2, IdxFacts
    <3>2. CASE \A k \in 1 .. n : ~Whose(i, k)
      <4>1. owner(i).ids = <<>>
        BY <1>10, <3>2
      <4> QED BY <1>7, <4>1, IdxFacts
    <3> QED BY <3>1, <3>2
  <2>2. t \in {-1} \cup Idx
    <3>1. CASE \E k \in 1 .. n : i \in ids(k)
      <4>1. PICK k \in 1 .. n : tail(i) # {} /\ Max(tail(i)) = k
        BY <1>11, <3>1
      <4> QED BY <1>6, <4>1
    <3>2. CASE \A k \in 1 .. n : i \notin ids(k)
      BY <1>7, <1>12, <3>2
    <3> QED BY <3>1, <3>2
  <2>3. g[i] = [c[i] EXCEPT !.pos = p, !.seqs = q, !.tail = t]
    OBVIOUS
  <2> HIDE DEF p, q, t, g
  <2>4. g[i] \in Cell /\ g[i].src = c[i].src /\ g[i].pos = p /\ g[i].seqs = q /\ g[i].tail = t
    BY <1>7, <2>1, <2>2, <2>3 DEF Cell
  <2> QED BY <2>4 DEF p, q, t
<1>14. g \in [Idx -> Cell]
  <2>1. g = [i \in Idx |-> g[i]]
    OBVIOUS
  <2> HIDE DEF g
  <2> QED BY <1>13, <2>1
<1> HIDE DEF g
<1>15. ASSUME NEW i \in Idx, NEW k \in 1 .. n, Whose(i, k) PROVE g[i].pos = ub[k].pos /\ g[i].seqs = ids(k)
  BY <1>9, <1>13, <1>15
<1>16. ASSUME NEW i \in Idx, \A k \in 1 .. n : ~Whose(i, k) PROVE g[i].pos = c[i].pos /\ g[i].seqs = c[i].seqs
  BY <1>10, <1>13, <1>16
<1>17. ASSUME NEW s \in Idx, NEW k \in 1 .. n, s \in ids(k) PROVE g[s].tail = lo + k - 1
  BY <1>11, <1>13, <1>17
<1>18. ASSUME NEW s \in Idx, \A k \in 1 .. n : s \notin ids(k) PROVE g[s].tail = c[s].tail
  BY <1>12, <1>13, <1>18
<1>19. Filled(g)
  <2> SUFFICES ASSUME NEW i \in Idx PROVE g[i].seqs = {} <=> g[i].pos = -1
    BY DEF Filled
  <2>1. CASE \E k \in 1 .. n : Whose(i, k)
    <3>1. PICK k \in 1 .. n : g[i].pos = ub[k].pos /\ g[i].seqs = ids(k)
      BY <1>15, <2>1
    <3>2. ub[k].pos # -1 /\ ids(k) # {}
      BY <1>2
    <3> QED BY <3>1, <3>2
  <2>2. CASE \A k \in 1 .. n : ~Whose(i, k)
    BY <1>4, <1>16, <2>2 DEF Filled
  <2> QED BY <2>1, <2>2
<1>20. ASSUME NEW s \in Seqs, g[s].tail # -1 PROVE s \in g[g[s].tail].seqs
  <2>1. CASE \E k \in 1 .. n : s \in ids(k)
    <3>1. PICK k \in 1 .. n : s \in ids(k)
      BY <2>1
    <3>2. g[s].tail = lo + k - 1 /\ lo + k - 1 \in Idx /\ Whose(lo + k - 1, k)
      BY <1>6, <1>8, <1>17, <3>1, IdxFacts
    <3> QED BY <1>15, <3>1, <3>2
  <2>2. CASE \A k \in 1 .. n : s \notin ids(k)
    <3>1. g[s].tail = c[s].tail /\ s \in Idx
      BY <1>18, <2>2, IdxFacts
    <3>2. s \notin L
      BY <1>2, <1>3, <2>2
    <3>3. s \in c[c[s].tail].seqs /\ c[s].tail \in Idx
      BY <1>4, <1>7, <1>20, <3>1, <3>2
    <3>4. \A k \in 1 .. n : ~Whose(c[s].tail, k)
      <4> SUFFICES ASSUME NEW k \in 1 .. n, c[s].tail = lo + k - 1 PROVE FALSE
        OBVIOUS
      <4>1. c[Lead(ub, k)].tail = c[s].tail /\ Lead(ub, k) \in L
        BY <1>3, <1>5
      <4>2. c[c[Lead(ub, k)].tail].seqs \subseteq {Lead(ub, k)}
        BY <1>4, <4>1
      <4>3. s = Lead(ub, k)
        BY <3>3, <4>1, <4>2
      <4> QED BY <3>2, <4>1, <4>3
    <3> QED BY <1>16, <3>1, <3>3, <3>4
  <2> QED BY <2>1, <2>2
<1>21. ASSUME NEW i \in Idx, NEW s \in g[i].seqs PROVE g[s].tail = i
  <2>1. CASE \E k \in 1 .. n : Whose(i, k)
    <3>1. PICK k \in 1 .. n : Whose(i, k)
      BY <2>1
    <3>2. s \in ids(k) /\ s \in Idx
      BY <1>2, <1>15, <3>1
    <3> QED BY <1>17, <3>1, <3>2
  <2>2. CASE \A k \in 1 .. n : ~Whose(i, k)
    <3>1. s \in c[i].seqs /\ s \in Idx /\ c[s].tail = i
      BY <1>4, <1>7, <1>16, <2>2
    <3>2. \A k \in 1 .. n : s \notin ids(k)
      <4> SUFFICES ASSUME NEW k \in 1 .. n, s \in ids(k) PROVE FALSE
        OBVIOUS
      <4>1. c[s].tail # -1
        BY <3>1, IdxFacts
      <4>2. s = Lead(ub, k)
        BY <1>5, <4>1
      <4>3. i = lo + k - 1
        BY <1>5, <3>1, <4>2
      <4> QED BY <2>2, <4>3
    <3> QED BY <1>18, <3>1, <3>2
  <2> QED BY <2>1, <2>2
<1>22. \A i \in Idx : i \notin lo .. hi => g[i].src \in {-1, i}
  BY <1>4, <1>13
<1>23. Linked(g)
  BY <1>20, <1>21 DEF Linked
<1> QED BY <1>1, <1>14, <1>19, <1>22, <1>23 DEF Placed, g

\* The greatest element of a set that is bounded.
LEMMA MaxOf ==
  ASSUME NEW N \in Int, NEW S \in SUBSET Int, S # {}, \A x \in S : x <= N
  PROVE  Max(S) \in S /\ \A x \in S : x <= Max(S)
<1> DEFINE T == {N - x : x \in S}
<1>1. T \in SUBSET Nat /\ T # {}
  <2>1. ASSUME NEW x \in S PROVE N - x \in Nat
    <3>1. x \in Int /\ x <= N
      OBVIOUS
    <3> QED BY <3>1
  <2> QED BY <2>1
<1>2. PICK m \in T : \A k \in T : m <= k
  <2> HIDE DEF T
  <2> QED BY <1>1, LeastNatural
<1>3. PICK y \in S : m = N - y
  BY <1>2
<1>4. ASSUME NEW x \in S PROVE y >= x
  <2>1. N - x \in T
    OBVIOUS
  <2>2. N - y <= N - x
    BY <1>2, <1>3, <2>1
  <2>3. x \in Int /\ y \in Int
    BY <1>3
  <2> QED BY <2>2, <2>3
<1>5. Max(S) \in S /\ \A x \in S : Max(S) >= x
  BY <1>3, <1>4 DEF Max
<1>6. \A x \in S : x \in Int
  OBVIOUS
<1> QED BY <1>5, <1>6

\* The slot: every state that goes on has a cell, and a cell to be zeroed is there if one
\* has to be.
LEMMA FoundFacts ==
  ASSUME NEW lo \in Idx, NEW hi \in Idx, lo <= hi, NEW c, Placed(c, lo, hi), NEW n \in Nat, Cardinality(lo .. hi) >= n
  PROVE  LET f == FoundIn(c, lo .. hi, n) IN f.ok /\ f.sound /\ Good(f.mem)
<1> DEFINE slot == lo .. hi
           Z == {i \in slot : \A j \in Idx : c[j].src # i}
           z == ZeroCell(c, slot)
           f == FoundIn(c, slot, n)
           g == [i \in Idx |-> IF i \in slot THEN [c[i] EXCEPT !.src = i] ELSE c[i]]
<1>1. /\ f.ok = (Cardinality(slot) >= n)
      /\ f.sound = (z < Size \/ \A i \in slot : c[i].src >= 0)
      /\ f.mem = [cells |-> g, head |-> Min(slot), used |-> CountUsed(c)]
  BY DEF FoundIn, Found
<1>2. /\ c \in [Idx -> Cell] /\ Linked(c) /\ Filled(c)
      /\ \A i \in Idx : i \notin slot => c[i].src \in {-1, i}
  BY DEF Placed
<1>3. slot \subseteq Idx /\ slot \in SUBSET Nat /\ lo \in slot /\ IsFiniteSet(slot)
  <2>1. lo \in Nat /\ hi \in Nat
    BY IdxFacts
  <2>2. slot \subseteq Idx /\ slot \in SUBSET Nat /\ lo \in slot
    BY <2>1, IdxFacts DEF Idx
  <2> QED BY <2>2, IdxFacts, FS_Subset
<1> HIDE DEF slot, f
<1>4. z < Size \/ \A i \in slot : c[i].src >= 0
  <2>1. z = Min({Size} \cup Z)
    BY DEF ZeroCell
  <2>2. CASE Z # {}
    <3>1. {Size} \cup Z \in SUBSET Nat /\ {Size} \cup Z # {}
      BY <1>3, IdxFacts
    <3> HIDE DEF Z
    <3>2. z \in {Size} \cup Z /\ \A x \in {Size} \cup Z : z <= x
      BY <2>1, <3>1, MinOf
    <3>3. PICK i \in Z : TRUE
      BY <2>2
    <3>4. i \in Nat /\ i < Size /\ Size \in Nat
      BY <1>3, <3>3, IdxFacts DEF Z
    <3>5. z <= i /\ z \in Nat
      BY <3>1, <3>2
    <3> QED BY <3>4, <3>5
  <2>3. CASE Z = {}
    <3> DEFINE s == [i \in slot |-> c[i].src]
    <3>1. ASSUME NEW i \in slot PROVE \E x \in slot : s[x] = i
      <4>1. PICK j \in Idx : c[j].src = i
        BY <2>3
      <4>2. j \in slot
        <5> SUFFICES ASSUME j \notin slot PROVE FALSE
          OBVIOUS
        <5>1. c[j].src \in {-1, j}
          BY <1>2
        <5> QED BY <1>3, <4>1, <5>1, IdxFacts
      <4> QED BY <4>1, <4>2
    <3> HIDE DEF s
    <3>2. \A x \in slot : s[x] \in slot
      BY <1>3, <3>1, Pigeons
    <3>3. \A x \in slot : c[x].src \in Nat
      BY <1>3, <3>2 DEF s
    <3> QED BY <3>3
  <2> QED BY <2>2, <2>3
<1>5. ASSUME NEW i \in Idx
      PROVE  /\ g[i] \in Cell /\ g[i].seqs = c[i].seqs /\ g[i].pos = c[i].pos /\ g[i].tail = c[i].tail
             /\ g[i].src \in {-1, i}
  <2>1. CASE i \in slot
    <3>1. g[i] = [c[i] EXCEPT !.src = i] /\ c[i] \in Cell
      BY <1>2, <2>1
    <3> HIDE DEF g
    <3> QED BY <3>1 DEF Cell
  <2>2. CASE i \notin slot
    BY <1>2, <2>2
  <2> QED BY <2>1, <2>2
<1>6. g \in [Idx -> Cell]
  <2>1. g = [i \in Idx |-> g[i]]
    OBVIOUS
  <2> HIDE DEF g
  <2> QED BY <1>5, <2>1
<1> HIDE DEF g
<1>7. \A i \in Idx : c[i].tail \in {-1} \cup Idx /\ c[i].seqs \in SUBSET Idx
  <2>1. \A i \in Idx : c[i] \in Cell
    BY <1>2
  <2> QED BY <2>1, IdxFacts DEF Cell
<1>8. Linked(g)
  <2>1. ASSUME NEW s \in Seqs, g[s].tail # -1 PROVE s \in g[g[s].tail].seqs
    <3>1. s \in Idx /\ g[s].tail = c[s].tail
      BY <1>5, IdxFacts
    <3>2. c[s].tail \in Idx /\ s \in c[c[s].tail].seqs
      BY <1>2, <1>7, <2>1, <3>1 DEF Linked
    <3> QED BY <1>5, <3>1, <3>2
  <2>2. \A i \in Idx : \A s \in g[i].seqs : g[s].tail = i
    BY <1>2, <1>5, <1>7, IdxFacts DEF Linked
  <2> QED BY <2>1, <2>2 DEF Linked
<1>9. Filled(g)
  BY <1>2, <1>5 DEF Filled
<1>10. Home(g)
  BY <1>5 DEF Home
<1>11. CountUsed(g) = CountUsed(c)
  <2>1. {i \in Idx : ~is_empty(g, i)} = {i \in Idx : ~is_empty(c, i)}
    BY <1>5 DEF is_empty
  <2> QED BY <2>1 DEF CountUsed
<1>12. Min(slot) \in Idx
  BY <1>3, MinOf
<1>13. Good(f.mem)
  BY <1>1, <1>6, <1>8, <1>9, <1>10, <1>11, <1>12 DEF Good, Sound
<1> QED BY <1>1, <1>4, <1>13 DEF slot, f

\* "find_slot": for every micro-batch whose parts have sequences of their own there is a
\* slot, whatever is in the memory; its assertions hold, and the memory remains sound.
LEMMA FindSlotFacts ==
  ASSUME NEW m, Good(m), NEW ub, IsUb(ub)
  PROVE  find_slot(m, ub).ok /\ find_slot(m, ub).sound /\ Good(find_slot(m, ub).mem)
<1> DEFINE h == IF m.head > m.used + 2 * Len(ub) THEN 0 ELSE m.head
           c == Unshared(m.cells, ub)
           a == Assign(c, h, ub)
           d == a.cells
           n == Len(ub)
           L == LeadsOf(ub, n)
           at == {d[Lead(ub, k)].tail : k \in DOMAIN ub}
           lo == Min(at)
           hi == Max(at)
<1>1. h \in Idx
  BY IdxFacts DEF Good
<1>2. Sound(c) /\ Alone(c, ub)
  BY UnsharedFacts DEF Good
<1>3. a.sound /\ Split(c, d, L)
  <2> HIDE DEF c, h
  <2> QED BY <1>1, <1>2, AssignFacts
<1>4. find_slot(m, ub) = FoundAt(d, at, ub)
  BY <1>3 DEF find_slot, FoundFor, Lead
<1> HIDE DEF h, c, a
<1>5. /\ n \in Nat /\ n >= 1 /\ DOMAIN ub = 1 .. n /\ \A k \in 1 .. n : Lead(ub, k) \in Seqs /\ ToSet(ub[k].ids) \in SUBSET Seqs
      /\ \A j, k \in 1 .. n : j # k => Lead(ub, j) \notin ToSet(ub[k].ids) /\ Lead(ub, j) # Lead(ub, k)
  BY UbFacts
<1>6. L \in SUBSET Seqs /\ (\A k \in 1 .. n : Lead(ub, k) \in L) /\ \A x \in L : \E k \in 1 .. n : x = Lead(ub, k)
  BY <1>5 DEF LeadsOf
<1> HIDE DEF n, L, d
<1>7. at \subseteq Idx /\ at # {} /\ \A x \in L : d[x].tail \in at
  <2>1. \A x \in L : d[x].tail \in Idx
    BY <1>3 DEF Split
  <2>2. 1 \in 1 .. n
    BY <1>5
  <2> QED BY <1>5, <1>6, <2>1, <2>2
<1> HIDE DEF at
<1>8. /\ lo \in at /\ lo \in Idx /\ \A x \in at : lo <= x
      /\ hi \in at /\ hi \in Idx /\ \A x \in at : x <= hi
  <2>1. at \in SUBSET Nat /\ at \in SUBSET Int /\ Size - 1 \in Int /\ \A x \in at : x <= Size - 1
    BY <1>7, IdxFacts DEF Idx
  <2> QED BY <1>7, <2>1, MinOf, MaxOf
<1> HIDE DEF lo, hi
<1>9. lo <= hi /\ \A x \in at : x \in lo .. hi
  BY <1>7, <1>8, IdxFacts
<1>10. Within(d, L, lo, hi)
  BY <1>3, <1>7, <1>9 DEF Split, Within
<1>11. Alone(d, ub)
  <2> SUFFICES ASSUME NEW k \in 1 .. n, NEW x \in ToSet(ub[k].ids), x # Lead(ub, k) PROVE d[x].tail = -1
    BY DEF Alone, n
  <2>1. x \in Seqs \ L
    BY <1>5, <1>6
  <2>2. c[x].tail = -1
    BY <1>2 DEF Alone, n
  <2> QED BY <1>3, <2>1, <2>2 DEF Split
<1> DEFINE g == Gathered(d, lo, ub)
           t == Taken(g, lo, ub)
<1>12. /\ Within(g, L, lo, hi) /\ Alone(g, ub)
       /\ \A j \in 1 .. n : g[Lead(ub, j)].tail = lo + j - 1
  BY <1>8, <1>10, <1>11, GatheredFacts DEF L, n
<1> HIDE DEF g
<1>13. Placed(t, lo, hi) /\ Cardinality(lo .. hi) >= n
  BY <1>8, <1>12, TakenFacts, PartsFit DEF L, n
<1>14. find_slot(m, ub) = FoundIn(t, lo .. hi, n)
  BY <1>4 DEF FoundAt, lo, hi, g, n
<1> HIDE DEF t
<1> QED BY <1>5, <1>8, <1>9, <1>13, <1>14, FoundFacts

\* prepare: there is a slot for each micro-batch in turn.
LEMMA PrepareFacts ==
  ASSUME NEW m, Good(m), NEW ubs, Len(ubs) \in Nat, \A k \in 1 .. Len(ubs) : IsUb(ubs[k])
  PROVE  prepare(m, ubs).ok /\ prepare(m, ubs).sound
<1> DEFINE n == Len(ubs)
           base == [ok |-> TRUE, sound |-> TRUE, mem |-> m]
           Step(k, d) == IF d.ok /\ d.sound THEN find_slot(d.mem, ubs[k]) ELSE d
           E(j, h) == [k \in 0 .. j |-> IF k = 0 THEN base ELSE Step(k, h[k - 1])]
           w == CHOOSE h : h = E(n, h)
           Kept(k, d) == d.ok /\ d.sound /\ Good(d.mem)
<1>2. prepare(m, ubs) = w[n]
  BY DEF prepare
<1>1. n \in Nat /\ \A k \in 1 .. n : IsUb(ubs[k])
  OBVIOUS
<1> HIDE DEF n
<1>3. Kept(0, base)
  OBVIOUS
<1>4. ASSUME NEW k \in 1 .. n, NEW d, Kept(k - 1, d) PROVE Kept(k, Step(k, d))
  BY <1>1, <1>4, FindSlotFacts
<1> HIDE DEF Kept, Step, base
<1>5. w[0] = base /\ \A k \in 1 .. n : w[k] = Step(k, w[k - 1])
  <2> DEFINE T == {l \in Nat : \E h : h = E(l, h)}
  <2>1. 0 \in T
    <3> DEFINE h == [k \in 0 .. 0 |-> base]
    <3>1. h = E(0, h)
      OBVIOUS
    <3> QED BY <3>1
  <2>2. ASSUME NEW l \in Nat, l \in T PROVE l + 1 \in T
    <3>1. PICK h : h = E(l, h)
      BY <2>2
    <3>0. \A k \in 0 .. l : h[k] = IF k = 0 THEN base ELSE Step(k, h[k - 1])
      BY <3>1
    <3> HIDE DEF E
    <3> DEFINE g == [k \in 0 .. l + 1 |-> IF k = l + 1 THEN Step(l + 1, h[l]) ELSE h[k]]
    <3>2. ASSUME NEW k \in 0 .. l + 1 PROVE g[k] = IF k = 0 THEN base ELSE Step(k, g[k - 1])
      <4>1. /\ k # l + 1 => k \in 0 .. l /\ (k # 0 => k - 1 \in 0 .. l + 1 /\ k - 1 # l + 1)
            /\ k = l + 1 => k # 0 /\ k - 1 = l /\ l \in 0 .. l + 1 /\ l # l + 1
        OBVIOUS
      <4>2. CASE k = l + 1
        BY <4>1, <4>2
      <4>3. CASE k # l + 1
        <5>1. g[k] = h[k] /\ (k # 0 => g[k - 1] = h[k - 1])
          BY <4>1, <4>3
        <5> HIDE DEF g
        <5> QED BY <3>0, <4>1, <4>3, <5>1
      <4> QED BY <4>2, <4>3
    <3> HIDE DEF g
    <3>3. g = E(l + 1, g)
      BY <3>2 DEF g, E
    <3> QED BY <3>3
  <2>3. n \in T
    <3> HIDE DEF T
    <3> QED BY <1>1, <2>1, <2>2, SetInduction
  <2>4. \E h : h = E(n, h)
    BY <2>3
  <2> HIDE DEF E
  <2>5. w = E(n, w)
    BY <2>4
  <2> HIDE DEF w
  <2>6. 0 \in 0 .. n /\ \A k \in 1 .. n : k \in 0 .. n /\ k # 0
    BY <1>1
  <2> QED BY <2>5, <2>6 DEF E
<1> HIDE DEF w, E
<1>6. Kept(n, w[n])
  <2> DEFINE S == {k \in 0 .. n : Kept(k, w[k])}
  <2>1. 0 \in S
    BY <1>1, <1>3, <1>5
  <2>2. ASSUME NEW k \in 1 .. n, k - 1 \in S PROVE k \in S
    <3>1. Kept(k - 1, w[k - 1]) /\ k \in 0 .. n
      BY <1>1, <2>2
    <3>2. Kept(k, Step(k, w[k - 1]))
      BY <1>4, <3>1
    <3> QED BY <1>5, <3>1, <3>2
  <2> HIDE DEF S
  <2>3. n \in S
    <3>1. \A k \in 0 .. n : k \in S
      BY <1>1, <2>1, <2>2, FiniteInduction
    <3> QED BY <1>1, <3>1
  <2> QED BY <2>3 DEF S
<1> QED BY <1>2, <1>6 DEF Kept

\* The tokens of a micro-batch are removed.
LEMMA RemovedGood ==
  ASSUME NEW m, Good(m), NEW ub, IsUb(ub), \A k \in 1 .. Len(ub) : ub[k].first \in Nat
  PROVE  Good(Removed(m, ub))
<1> DEFINE n == Len(ub)
           base == m
           Step(k, d) == seq_rm(d, Lead(ub, k), <<ub[k].first, -1>>)
           E(j, h) == [k \in 0 .. j |-> IF k = 0 THEN base ELSE Step(k, h[k - 1])]
           w == CHOOSE h : h = E(n, h)
           Kept(k, d) == Good(d)
<1>2. Removed(m, ub) = w[n]
  BY DEF Removed, Lead
<1>1. n \in Nat /\ \A k \in 1 .. n : Lead(ub, k) \in Seqs /\ ub[k].first \in Nat
  BY UbFacts
<1> HIDE DEF n
<1>3. Kept(0, base)
  OBVIOUS
<1>4. ASSUME NEW k \in 1 .. n, NEW d, Kept(k - 1, d) PROVE Kept(k, Step(k, d))
  <2> DEFINE r == <<ub[k].first, -1>>
  <2>1. r[1] \in Nat
    BY <1>1
  <2> HIDE DEF r
  <2>2. Good(seq_rm(d, Lead(ub, k), r))
    BY <1>1, <1>4, <2>1, RmGood
  <2> QED BY <2>2 DEF r
<1> HIDE DEF Kept, Step, base
<1>5. w[0] = base /\ \A k \in 1 .. n : w[k] = Step(k, w[k - 1])
  <2> DEFINE T == {l \in Nat : \E h : h = E(l, h)}
  <2>1. 0 \in T
    <3> DEFINE h == [k \in 0 .. 0 |-> base]
    <3>1. h = E(0, h)
      OBVIOUS
    <3> QED BY <3>1
  <2>2. ASSUME NEW l \in Nat, l \in T PROVE l + 1 \in T
    <3>1. PICK h : h = E(l, h)
      BY <2>2
    <3>0. \A k \in 0 .. l : h[k] = IF k = 0 THEN base ELSE Step(k, h[k - 1])
      BY <3>1
    <3> HIDE DEF E
    <3> DEFINE g == [k \in 0 .. l + 1 |-> IF k = l + 1 THEN Step(l + 1, h[l]) ELSE h[k]]
    <3>2. ASSUME NEW k \in 0 .. l + 1 PROVE g[k] = IF k = 0 THEN base ELSE Step(k, g[k - 1])
      <4>1. /\ k # l + 1 => k \in 0 .. l /\ (k # 0 => k - 1 \in 0 .. l + 1 /\ k - 1 # l + 1)
            /\ k = l + 1 => k # 0 /\ k - 1 = l /\ l \in 0 .. l + 1 /\ l # l + 1
        OBVIOUS
      <4>2. CASE k = l + 1
        BY <4>1, <4>2
      <4>3. CASE k # l + 1
        <5>1. g[k] = h[k] /\ (k # 0 => g[k - 1] = h[k - 1])
          BY <4>1, <4>3
        <5> HIDE DEF g
        <5> QED BY <3>0, <4>1, <4>3, <5>1
      <4> QED BY <4>2, <4>3
    <3> HIDE DEF g
    <3>3. g = E(l + 1, g)
      BY <3>2 DEF g, E
    <3> QED BY <3>3
  <2>3. n \in T
    <3> HIDE DEF T
    <3> QED BY <1>1, <2>1, <2>2, SetInduction
  <2>4. \E h : h = E(n, h)
    BY <2>3
  <2> HIDE DEF E
  <2>5. w = E(n, w)
    BY <2>4
  <2> HIDE DEF w
  <2>6. 0 \in 0 .. n /\ \A k \in 1 .. n : k \in 0 .. n /\ k # 0
    BY <1>1
  <2> QED BY <2>5, <2>6 DEF E
<1> HIDE DEF w, E
<1>6. Kept(n, w[n])
  <2> DEFINE S == {k \in 0 .. n : Kept(k, w[k])}
  <2>1. 0 \in S
    BY <1>1, <1>3, <1>5
  <2>2. ASSUME NEW k \in 1 .. n, k - 1 \in S PROVE k \in S
    <3>1. Kept(k - 1, w[k - 1]) /\ k \in 0 .. n
      BY <1>1, <2>2
    <3>2. Kept(k, Step(k, w[k - 1]))
      BY <1>4, <3>1
    <3> QED BY <1>5, <3>1, <3>2
  <2> HIDE DEF S
  <2>3. n \in S
    <3>1. \A k \in 0 .. n : k \in S
      BY <1>1, <2>1, <2>2, FiniteInduction
    <3> QED BY <1>1, <3>1
  <2> QED BY <2>3 DEF S
<1> QED BY <1>2, <1>6 DEF Kept

-----------------------------------------------------------------------------
(***************************************************************************)
(* The calls keep the memory sound.                                        *)
(***************************************************************************)
\* The memory becomes m.
LEMMA BecomeGood == ASSUME NEW m, Good(m), Become(m) PROVE Good(Mem)'
BY DEF Become, Good, Mem

\* Nothing is in the memory.
LEMMA EmptyGood ==
  ASSUME NEW c, c = [i \in Idx |-> NoCell]
  PROVE  Good([cells |-> c, head |-> 0, used |-> 0])
<1>1. NoCell \in Cell /\ NoCell.seqs = {} /\ NoCell.pos = -1 /\ NoCell.src = -1 /\ NoCell.tail = -1
  BY IdxFacts DEF NoCell, Cell
<1>2. c \in [Idx -> Cell] /\ \A i \in Idx : c[i] = NoCell
  BY <1>1
<1>3. Sound(c)
  BY <1>1, <1>2, IdxFacts DEF Sound, Linked, Filled, Home
<1>4. {i \in Idx : ~is_empty(c, i)} = {}
  BY <1>1, <1>2 DEF is_empty
<1>5. CountUsed(c) = 0
  BY <1>4, FS_EmptySet DEF CountUsed
<1> QED BY <1>3, <1>5, IdxFacts DEF Good

\* clear.
LEMMA ClearGood == ASSUME Clear PROVE Good(Mem)'
<1>1. Become([cells |-> cells', head |-> 0, used |-> 0]) /\ cells' = [i \in Idx |-> NoCell]
  BY DEF Clear, Become
<1> QED BY <1>1, BecomeGood, EmptyGood

\* seq_rm(-1), as long as a program does not remove everything with it.
LEMMA RmAllGood == ASSUME ~AnyRmAll, Good(Mem), NEW r, SeqRmAll(r) PROVE Good(Mem)'
<1> DEFINE full == {i \in Idx : Store!Everything(r) /\ cells[i].pos >= 0}
<1>1. /\ ~Store!Everything(r) \/ used = 0
      /\ cells' = [i \in Idx |-> IF i \in full THEN Emptied([cells[i] EXCEPT !.seqs = {}]) ELSE cells[i]]
      /\ head' = IF full # {} /\ Min(full) < head THEN Min(full) ELSE head
      /\ used' = used - Cardinality(full)
  BY DEF SeqRmAll
<1>2. Sound(cells) /\ head \in Idx /\ used = CountUsed(cells) /\ cells \in [Idx -> Cell] /\ Filled(cells)
  BY DEF Good, Mem, Sound
<1>3. full = {}
  <2>1. CASE ~Store!Everything(r)
    BY <2>1
  <2>2. CASE used = 0
    <3> DEFINE S == {i \in Idx : ~is_empty(cells, i)}
    <3>1. IsFiniteSet(S) /\ Cardinality(S) = 0
      BY <1>2, <2>2, IdxFacts, FS_Subset DEF CountUsed
    <3>2. S = {}
      BY <3>1, FS_EmptySet
    <3>3. \A i \in Idx : cells[i].pos = -1
      BY <1>2, <3>2 DEF is_empty, Filled
    <3> QED BY <3>3
  <2> QED BY <1>1, <2>1, <2>2
<1> HIDE DEF full
<1>4. cells' = cells /\ head' = head /\ used' = used
  <2>1. cells' = [i \in Idx |-> cells[i]]
    BY <1>1, <1>3
  <2>2. [i \in Idx |-> cells[i]] = cells
    BY <1>2
  <2>3. CountUsed(cells) \in Nat
    <3>1. IsFiniteSet({i \in Idx : ~is_empty(cells, i)})
      BY IdxFacts, FS_Subset
    <3> QED BY <3>1, FS_CardinalityType DEF CountUsed
  <2>4. Cardinality({}) = 0
    BY FS_EmptySet
  <2> QED BY <1>1, <1>2, <1>3, <2>1, <2>2, <2>3, <2>4
<1> QED BY <1>2, <1>4 DEF Good, Mem

\* What remains of the count when cells of N become empty.
LEMMA CountSame == ASSUME NEW c, NEW d, \A i \in Idx : d[i].seqs = {} <=> c[i].seqs = {} PROVE CountUsed(d) = CountUsed(c)
<1>1. {i \in Idx : ~is_empty(d, i)} = {i \in Idx : ~is_empty(c, i)}
  BY DEF is_empty
<1> QED BY <1>1 DEF CountUsed

\* Sequence dst joins the cell t.
Joins(c, t, dst) == [c EXCEPT ![t].seqs = @ \cup {dst}, ![dst].tail = t]

\* Sequence dst joins the cell that sequence src has.
LEMMA JoinSound ==
  ASSUME NEW c, Sound(c), NEW src \in Seqs, NEW dst \in Seqs, c[dst].tail = -1, NEW t, t = c[src].tail, t # -1
  PROVE  Sound(Joins(c, t, dst)) /\ \A i \in Idx : Joins(c, t, dst)[i].seqs = {} <=> c[i].seqs = {}
<1> DEFINE g == Joins(c, t, dst)
<1>1. c \in [Idx -> Cell] /\ Linked(c) /\ Filled(c) /\ Home(c) /\ src \in Idx /\ dst \in Idx
  BY IdxFacts DEF Sound
<1>2. \A i \in Idx : c[i] \in Cell /\ c[i].tail \in {-1} \cup Idx /\ c[i].seqs \in SUBSET Idx
  <2>1. \A i \in Idx : c[i] \in Cell
    BY <1>1
  <2> QED BY <2>1, IdxFacts DEF Cell
<1>3. t \in Idx /\ src \in c[t].seqs /\ \A i \in Idx : dst \notin c[i].seqs
  BY <1>1, <1>2, IdxFacts DEF Linked
<1> DEFINE f == [c EXCEPT ![t] = [c[t] EXCEPT !.seqs = c[t].seqs \cup {dst}]]
<1>4. g = [f EXCEPT ![dst].tail = t]
  BY DEF Joins
<1> HIDE DEF g
<1>5. /\ f \in [Idx -> Cell] /\ (\A i \in Idx : i # t => f[i] = c[i])
      /\ f[t].seqs = c[t].seqs \cup {dst} /\ f[t].pos = c[t].pos /\ f[t].src = c[t].src /\ f[t].tail = c[t].tail
  <2>1. c[t] \in Cell /\ c[t].seqs \cup {dst} \in SUBSET Seqs
    BY <1>1, <1>2, <1>3, IdxFacts
  <2> QED BY <1>1, <1>3, <2>1 DEF Cell
<1> HIDE DEF f
<1>6. /\ g \in [Idx -> Cell]
      /\ \A i \in Idx : g[i].seqs = f[i].seqs /\ g[i].pos = f[i].pos /\ g[i].src = f[i].src
      /\ \A i \in Idx : g[i].tail = IF i = dst THEN t ELSE f[i].tail
  BY <1>1, <1>3, <1>4, <1>5 DEF Cell
<1>7. \A i \in Idx : /\ g[i].seqs = (IF i = t THEN c[i].seqs \cup {dst} ELSE c[i].seqs)
                     /\ g[i].pos = c[i].pos /\ g[i].src = c[i].src
                     /\ g[i].tail = IF i = dst THEN t ELSE c[i].tail
  <2> TAKE i \in Idx
  <2>1. /\ f[i].seqs = (IF i = t THEN c[i].seqs \cup {dst} ELSE c[i].seqs)
        /\ f[i].pos = c[i].pos /\ f[i].src = c[i].src /\ f[i].tail = c[i].tail
    BY <1>5
  <2>2. /\ g[i].seqs = f[i].seqs /\ g[i].pos = f[i].pos /\ g[i].src = f[i].src
        /\ g[i].tail = IF i = dst THEN t ELSE f[i].tail
    BY <1>6
  <2> HIDE DEF g
  <2> QED BY <2>1, <2>2
<1>8. \A i \in Idx : g[i].seqs = {} <=> c[i].seqs = {}
  BY <1>3, <1>7
<1>9. Filled(g) /\ Home(g)
  BY <1>1, <1>7, <1>8 DEF Filled, Home
<1>10. ASSUME NEW s \in Seqs, g[s].tail # -1 PROVE s \in g[g[s].tail].seqs
  <2>1. CASE s = dst
    BY <1>3, <1>7, <2>1, IdxFacts
  <2>2. CASE s # dst
    <3>1. s \in Idx /\ g[s].tail = c[s].tail /\ c[s].tail \in Idx /\ s \in c[c[s].tail].seqs
      BY <1>1, <1>2, <1>7, <1>10, <2>2, IdxFacts DEF Linked
    <3> QED BY <1>7, <3>1
  <2> QED BY <2>1, <2>2
<1>11. ASSUME NEW i \in Idx, NEW s \in g[i].seqs PROVE g[s].tail = i
  <2>1. CASE s = dst
    BY <1>1, <1>3, <1>7, <2>1
  <2>2. CASE s # dst
    <3>0. s \in c[i].seqs
      <4>1. g[i].seqs = c[i].seqs \cup {dst} \/ g[i].seqs = c[i].seqs
        BY <1>7
      <4> QED BY <2>2, <4>1
    <3>1. s \in c[i].seqs /\ s \in Idx /\ c[s].tail = i
      BY <1>1, <1>2, <3>0 DEF Linked
    <3> QED BY <1>7, <2>2, <3>1
  <2> QED BY <2>1, <2>2
<1>12. Linked(g)
  BY <1>10, <1>11 DEF Linked
<1> QED BY <1>6, <1>8, <1>9, <1>12 DEF Sound, g

\* seq_cp.
LEMMA CpGood == ASSUME Good(Mem), NEW src \in Seqs, NEW dst \in Seqs, SeqCp(src, dst) PROVE Good(Mem)'
<1> DEFINE old  == cells[dst].tail
           free == Freed(cells, dst)
           t    == free[src].tail
<1>1. /\ cells' = IF t >= 0 THEN [free EXCEPT ![t].seqs = @ \cup {dst}, ![dst].tail = t] ELSE free
      /\ used' = IF old >= 0 /\ is_empty(free, old) THEN used - 1 ELSE used
      /\ head' = head
  BY DEF SeqCp
<1>2. Sound(cells) /\ head \in Idx /\ used = CountUsed(cells) /\ cells \in [Idx -> Cell] /\ Linked(cells)
  BY DEF Good, Mem, Sound
<1>3. Sound(free) /\ Dropped(cells, free, {dst}) /\ free[dst].tail = -1
  BY <1>2, FreedFacts
<1>4. \A i \in Idx : cells[i].tail \in {-1} \cup Idx /\ free[i].tail \in {-1} \cup Idx /\ i >= 0 /\ i # -1
  <2>1. \A i \in Idx : cells[i] \in Cell /\ free[i] \in Cell
    BY <1>2, <1>3 DEF Sound
  <2> QED BY <2>1, IdxFacts DEF Cell
<1>5. src \in Idx /\ dst \in Idx
  BY IdxFacts
<1> HIDE DEF free
<1>6. Sound(cells') /\ \A i \in Idx : cells'[i].seqs = {} <=> free[i].seqs = {}
  <2>1. CASE t >= 0
    <3>1. cells' = Joins(free, t, dst) /\ t # -1
      BY <1>1, <2>1 DEF Joins
    <3> HIDE DEF t
    <3>2. t = free[src].tail
      BY DEF t
    <3> QED BY <1>3, <3>1, <3>2, JoinSound
  <2>2. CASE ~(t >= 0)
    BY <1>1, <1>3, <2>2
  <2> QED BY <2>1, <2>2
<1>7. CountUsed(cells') = CountUsed(free)
  BY <1>6, CountSame
<1>8. \A i \in Idx : free[i].seqs = cells[i].seqs \ {dst}
  BY <1>3 DEF Dropped
<1>9. used' = CountUsed(free)
  <2>1. CASE old >= 0 /\ is_empty(free, old)
    <3>1. old \in Idx /\ dst \in cells[old].seqs /\ \A i \in Idx : i # old => dst \notin cells[i].seqs
      BY <1>2, <1>4, <1>5, <2>1, IdxFacts DEF Linked
    <3>2. \A i \in {old} : ~is_empty(cells, i)
      BY <3>1 DEF is_empty
    <3>3. \A i \in Idx : is_empty(free, i) <=> i \in {old} \/ is_empty(cells, i)
      BY <1>8, <2>1, <3>1 DEF is_empty
    <3>4. {old} \in SUBSET Idx
      BY <3>1
    <3> HIDE DEF old
    <3>5. CountUsed(free) = CountUsed(cells) - Cardinality({old})
      BY <3>2, <3>3, <3>4, CountLess
    <3> QED BY <1>1, <1>2, <2>1, <3>5, FS_Singleton DEF old
  <2>2. CASE ~(old >= 0 /\ is_empty(free, old))
    <3>1. \A i \in Idx : free[i].seqs = {} <=> cells[i].seqs = {}
      <4> TAKE i \in Idx
      <4>1. CASE dst \in cells[i].seqs
        <5>1. old = i
          BY <1>2, <4>1 DEF Linked
        <5> QED BY <1>4, <2>2, <4>1, <5>1 DEF is_empty
      <4>2. CASE dst \notin cells[i].seqs
        BY <1>8, <4>2
      <4> QED BY <4>1, <4>2
    <3>2. CountUsed(free) = CountUsed(cells)
      BY <3>1, CountSame
    <3> QED BY <1>1, <1>2, <2>2, <3>2
  <2> QED BY <2>1, <2>2
<1> QED BY <1>1, <1>2, <1>6, <1>7, <1>9 DEF Good, Mem

\* seq_keep.
LEMMA KeepGood == ASSUME Good(Mem), NEW s \in Seqs, SeqKeep(s) PROVE Good(Mem)'
<1> DEFINE c == cells
           gone == {i \in Idx : s \notin c[i].seqs}
           kept(i) == IF i \in gone THEN Emptied([c[i] EXCEPT !.seqs = {}]) ELSE [c[i] EXCEPT !.seqs = {s}]
           g == [i \in Idx |-> [kept(i) EXCEPT !.tail = IF i = s THEN @ ELSE -1]]
           N == {i \in gone : c[i].pos >= 0}
<1>1. /\ cells' = g
      /\ head' = IF gone # {} /\ Min(gone) < head THEN Min(gone) ELSE head
      /\ used' = used - Cardinality(N)
  BY DEF SeqKeep
<1>2. Sound(c) /\ head \in Idx /\ used = CountUsed(c) /\ c \in [Idx -> Cell] /\ Linked(c) /\ Filled(c)
  BY DEF Good, Mem, Sound
<1> HIDE DEF c
<1>3. \A i \in Idx : c[i] \in Cell /\ c[i].seqs \in SUBSET Seqs /\ c[i].pos \in -1 .. MaxPos
  BY <1>2 DEF Cell
<1>4. ASSUME NEW i \in Idx
      PROVE  LET k == kept(i)
             IN /\ k \in Cell /\ k.tail = c[i].tail /\ k.seqs = c[i].seqs \ (Seqs \ {s})
                /\ k.pos = (IF k.seqs = {} THEN -1 ELSE c[i].pos) /\ k.src \in {-1, c[i].src}
  <2> DEFINE k == kept(i)
  <2>1. CASE i \in gone
    <3> DEFINE e == [c[i] EXCEPT !.seqs = @ \ c[i].seqs]
               f == Emptied(e)
    <3>1. /\ f \in Cell /\ f.seqs = c[i].seqs \ c[i].seqs /\ f.tail = c[i].tail
          /\ f.pos = (IF f.seqs = {} THEN -1 ELSE c[i].pos) /\ f.src = (IF f.seqs = {} THEN -1 ELSE c[i].src)
      BY <1>3, EmptiedFacts
    <3>2. e = [c[i] EXCEPT !.seqs = {}]
      OBVIOUS
    <3>3. k = f
      BY <2>1, <3>2
    <3> HIDE DEF f, k
    <3>4. c[i].seqs \ (Seqs \ {s}) = {} /\ k.seqs = {}
      BY <1>3, <2>1, <3>1, <3>3
    <3>5. k \in Cell /\ k.tail = c[i].tail /\ k.pos = -1 /\ k.src = -1
      BY <3>1, <3>3, <3>4
    <3> QED BY <3>4, <3>5 DEF k
  <2>2. CASE i \notin gone
    <3> DEFINE f == [c[i] EXCEPT !.seqs = {s}]
    <3>1. f \in Cell /\ f.seqs = {s} /\ f.tail = c[i].tail /\ f.pos = c[i].pos /\ f.src = c[i].src
      BY <1>3 DEF Cell
    <3>2. k = f
      BY <2>2
    <3> HIDE DEF f, k
    <3>3. c[i].seqs \ (Seqs \ {s}) = {s}
      BY <1>3, <2>2
    <3> QED BY <3>1, <3>2, <3>3 DEF k
  <2> QED BY <2>1, <2>2
<1> HIDE DEF kept
<1>5. ASSUME NEW i \in Idx
      PROVE  /\ g[i] \in Cell /\ g[i].tail = (IF i \in Seqs \ {s} THEN -1 ELSE c[i].tail)
             /\ g[i].seqs = c[i].seqs \ (Seqs \ {s})
             /\ g[i].pos = (IF g[i].seqs = {} THEN -1 ELSE c[i].pos) /\ g[i].src \in {-1, c[i].src}
  <2> DEFINE k == kept(i)
             f == [k EXCEPT !.tail = IF i = s THEN @ ELSE -1]
  <2>1. /\ k \in Cell /\ k.tail = c[i].tail /\ k.seqs = c[i].seqs \ (Seqs \ {s})
        /\ k.pos = (IF k.seqs = {} THEN -1 ELSE c[i].pos) /\ k.src \in {-1, c[i].src}
    BY <1>4
  <2>2. g[i] = f
    OBVIOUS
  <2> HIDE DEF g, k
  <2>3. f \in Cell /\ f.seqs = k.seqs /\ f.pos = k.pos /\ f.src = k.src /\ f.tail = IF i = s THEN k.tail ELSE -1
    BY <2>1 DEF Cell
  <2> HIDE DEF f
  <2>4. i = s <=> i \notin Seqs \ {s}
    BY IdxFacts
  <2> QED BY <2>1, <2>2, <2>3, <2>4
<1>6. g \in [Idx -> Cell]
  <2>1. g = [i \in Idx |-> g[i]]
    OBVIOUS
  <2> HIDE DEF g
  <2> QED BY <1>5, <2>1
<1> HIDE DEF g
<1>7. Sound(g)
  <2>1. Dropped(c, g, Seqs \ {s})
    BY <1>5, <1>6 DEF Dropped
  <2> QED BY <1>2, <2>1, DroppedSound
<1>8. CountUsed(g) = CountUsed(c) - Cardinality(N)
  <2>1. \A i \in Idx : c[i].pos >= 0 <=> c[i].seqs # {}
    BY <1>2, <1>3, IdxFacts DEF Filled
  <2>2. \A i \in N : ~is_empty(c, i)
    BY <2>1 DEF is_empty
  <2>3. \A i \in Idx : is_empty(g, i) <=> i \in N \/ is_empty(c, i)
    <3> TAKE i \in Idx
    <3>1. g[i].seqs = c[i].seqs \ (Seqs \ {s}) /\ c[i].seqs \in SUBSET Seqs
      BY <1>3, <1>5
    <3>2. g[i].seqs = {} <=> s \notin c[i].seqs
      BY <3>1
    <3> QED BY <2>1, <3>2 DEF is_empty
  <2>4. N \in SUBSET Idx
    OBVIOUS
  <2> HIDE DEF N
  <2> QED BY <2>2, <2>3, <2>4, CountLess
<1>9. gone # {} => Min(gone) \in Idx
  <2>1. gone \in SUBSET Nat /\ gone \subseteq Idx
    BY IdxFacts
  <2> HIDE DEF gone
  <2> QED BY <2>1, MinOf
<1> HIDE DEF gone, N
<1> QED BY <1>1, <1>2, <1>7, <1>8, <1>9 DEF Good, Mem

\* seq_add and seq_div.
LEMMA MoveGood == ASSUME Good(Mem), NEW s \in Seqs, NEW r, NEW to, Move(s, r, to) PROVE Good(Mem)'
<1> DEFINE t == cells[s].tail
           g == [cells EXCEPT ![t].pos = to]
<1>1. /\ cells' = IF t >= 0 /\ s \in cells[t].seqs /\ Store!In(cells[t].pos, r) THEN g ELSE cells
      /\ head' = head /\ used' = used /\ to \in 0 .. MaxPos
  BY DEF Move
<1>2. /\ Sound(cells) /\ head \in Idx /\ used = CountUsed(cells)
      /\ cells \in [Idx -> Cell] /\ Linked(cells) /\ Filled(cells) /\ Home(cells)
  BY DEF Good, Mem, Sound
<1>3. CASE t >= 0 /\ s \in cells[t].seqs /\ Store!In(cells[t].pos, r)
  <2>1. t \in Idx
    <3>1. cells[s] \in Cell
      BY <1>2, IdxFacts
    <3>2. t \in {-1} \cup Idx
      BY <3>1 DEF Cell
    <3> QED BY <1>3, <3>2
  <2>2. cells' = g
    BY <1>1, <1>3
  <2> HIDE DEF t
  <2>3. to \in -1 .. MaxPos /\ to # -1
    BY <1>1, IdxFacts
  <2>4. /\ g \in [Idx -> Cell]
        /\ \A i \in Idx : /\ g[i].seqs = cells[i].seqs /\ g[i].src = cells[i].src /\ g[i].tail = cells[i].tail
                          /\ g[i].pos = IF i = t THEN to ELSE cells[i].pos
    BY <1>2, <2>1, <2>3 DEF Cell
  <2> HIDE DEF g
  <2>5. Filled(g) /\ Home(g)
    BY <1>2, <1>3, <2>3, <2>4 DEF Filled, Home
  <2>6. \A i \in Idx : cells[i].tail \in {-1} \cup Idx /\ cells[i].seqs \in SUBSET Idx
    <3>1. \A i \in Idx : cells[i] \in Cell
      BY <1>2
    <3> QED BY <3>1, IdxFacts DEF Cell
  <2>7. ASSUME NEW x \in Seqs, g[x].tail # -1 PROVE x \in g[g[x].tail].seqs
    <3>1. x \in Idx /\ g[x].tail = cells[x].tail /\ cells[x].tail \in Idx /\ x \in cells[cells[x].tail].seqs
      BY <1>2, <2>4, <2>6, <2>7, IdxFacts DEF Linked
    <3> QED BY <2>4, <3>1
  <2>8. ASSUME NEW i \in Idx, NEW x \in g[i].seqs PROVE g[x].tail = i
    BY <1>2, <2>4, <2>6 DEF Linked
  <2>9. Linked(g)
    BY <2>7, <2>8 DEF Linked
  <2>10. CountUsed(g) = CountUsed(cells)
    BY <2>4, CountSame
  <2> QED BY <1>1, <1>2, <2>2, <2>4, <2>5, <2>9, <2>10 DEF Good, Mem, Sound
<1>4. CASE ~(t >= 0 /\ s \in cells[t].seqs /\ Store!In(cells[t].pos, r))
  BY <1>1, <1>2, <1>4 DEF Good, Mem
<1> QED BY <1>3, <1>4

-----------------------------------------------------------------------------
(***************************************************************************)
(* decode: the micro-batches are what find_slot takes.                     *)
(***************************************************************************)
\* Positions go on from those in the memory.
LEMMA AutoFacts ==
  ASSUME NEW hi \in [Seqs -> Int], \A s \in Seqs : hi[s] >= -1,
         NEW lists \in Seq(Seq(Seqs)), \A i \in DOMAIN lists : lists[i] # <<>>
  PROVE  LET b == AutoPos(lists, hi)
         IN /\ Len(b) \in Nat /\ DOMAIN b = 1 .. Len(b) /\ \E S : b \in Seq(S)
            /\ \A i \in 1 .. Len(b) : b[i].ids \in Seq(Seqs) /\ b[i].ids # <<>> /\ b[i].pos \in Nat
<1> DEFINE n == Len(lists)
           base == [s \in DOMAIN hi |-> hi[s] + 1]
           Step(k, d) == [s \in DOMAIN hi |-> IF s \in ToSet(lists[k]) THEN d[lists[k][1]] + 1 ELSE d[s]]
           E(m, h) == [k \in 0 .. m |-> IF k = 0 THEN base ELSE Step(k, h[k - 1])]
           w == CHOOSE h : h = E(n, h)
           Kept(k, d) == d \in [Seqs -> Nat]
           b == AutoPos(lists, hi)
<1>1. n \in Nat
  BY LenProperties
<1>2. b = [i \in DOMAIN lists |-> [ids |-> lists[i], pos |-> w[i - 1][lists[i][1]]]]
  BY DEF AutoPos
<1>0. DOMAIN lists = 1 .. n /\ \A i \in 1 .. n : lists[i] \in Seq(Seqs) /\ lists[i] # <<>> /\ lists[i][1] \in Seqs
  <2>1. DOMAIN lists = 1 .. n /\ \A i \in 1 .. n : lists[i] \in Seq(Seqs) /\ lists[i] # <<>>
    BY LenProperties, ElementOfSeq
  <2>2. ASSUME NEW i \in 1 .. n PROVE lists[i][1] \in Seqs
    <3> DEFINE q == lists[i]
    <3>1. q \in Seq(Seqs) /\ q # <<>>
      BY <2>1
    <3> HIDE DEF q
    <3>2. 1 \in 1 .. Len(q)
      BY <3>1, EmptySeq, LenProperties
    <3>3. q[1] \in Seqs
      BY <3>1, <3>2, ElementOfSeq
    <3> QED BY <3>3 DEF q
  <2> QED BY <2>1, <2>2
<1>3. Kept(0, base)
  <2>1. \A s \in Seqs : hi[s] + 1 \in Nat
    OBVIOUS
  <2> QED BY <2>1
<1>4. ASSUME NEW k \in 1 .. n, NEW d, Kept(k - 1, d) PROVE Kept(k, Step(k, d))
  <2>1. d[lists[k][1]] + 1 \in Nat /\ DOMAIN hi = Seqs /\ \A s \in Seqs : d[s] \in Nat
    BY <1>0, <1>4
  <2> QED BY <2>1
<1> HIDE DEF Kept, Step, base, b, n
<1>5. w[0] = base /\ \A k \in 1 .. n : w[k] = Step(k, w[k - 1])
  <2> DEFINE T == {m \in Nat : \E h : h = E(m, h)}
  <2>1. 0 \in T
    <3> DEFINE h == [k \in 0 .. 0 |-> base]
    <3>1. h = E(0, h)
      OBVIOUS
    <3> QED BY <3>1
  <2>2. ASSUME NEW m \in Nat, m \in T PROVE m + 1 \in T
    <3>1. PICK h : h = E(m, h)
      BY <2>2
    <3>0. \A k \in 0 .. m : h[k] = IF k = 0 THEN base ELSE Step(k, h[k - 1])
      BY <3>1
    <3> HIDE DEF E
    <3> DEFINE g == [k \in 0 .. m + 1 |-> IF k = m + 1 THEN Step(m + 1, h[m]) ELSE h[k]]
    <3>2. ASSUME NEW k \in 0 .. m + 1 PROVE g[k] = IF k = 0 THEN base ELSE Step(k, g[k - 1])
      <4>1. /\ k # m + 1 => k \in 0 .. m /\ (k # 0 => k - 1 \in 0 .. m + 1 /\ k - 1 # m + 1)
            /\ k = m + 1 => k # 0 /\ k - 1 = m /\ m \in 0 .. m + 1 /\ m # m + 1
        OBVIOUS
      <4>2. CASE k = m + 1
        BY <4>1, <4>2
      <4>3. CASE k # m + 1
        <5>1. g[k] = h[k] /\ (k # 0 => g[k - 1] = h[k - 1])
          BY <4>1, <4>3
        <5> HIDE DEF g
        <5> QED BY <3>0, <4>1, <4>3, <5>1
      <4> QED BY <4>2, <4>3
    <3> HIDE DEF g
    <3>3. g = E(m + 1, g)
      BY <3>2 DEF g, E
    <3> QED BY <3>3
  <2>3. n \in T
    <3> HIDE DEF T
    <3> QED BY <1>1, <2>1, <2>2, SetInduction
  <2>4. \E h : h = E(n, h)
    BY <2>3
  <2> HIDE DEF E
  <2>5. w = E(n, w)
    BY <2>4
  <2> HIDE DEF w
  <2>6. 0 \in 0 .. n /\ \A k \in 1 .. n : k \in 0 .. n /\ k # 0
    BY <1>1
  <2> QED BY <2>5, <2>6 DEF E
<1> HIDE DEF w, E
<1>6. \A j \in 0 .. n : Kept(j, w[j])
  <2> DEFINE S == {k \in 0 .. n : Kept(k, w[k])}
  <2>1. 0 \in S
    BY <1>1, <1>3, <1>5
  <2>2. ASSUME NEW k \in 1 .. n, k - 1 \in S PROVE k \in S
    <3>1. Kept(k - 1, w[k - 1]) /\ k \in 0 .. n
      BY <1>1, <2>2
    <3>2. Kept(k, Step(k, w[k - 1]))
      BY <1>4, <3>1
    <3> QED BY <1>5, <3>1, <3>2
  <2> HIDE DEF S
  <2>3. \A k \in 0 .. n : k \in S
    BY <1>1, <2>1, <2>2, FiniteInduction
  <2> QED BY <2>3 DEF S
<1>7. b = [i \in 1 .. n |-> b[i]] /\ \A i \in 1 .. n : b[i] = [ids |-> lists[i], pos |-> w[i - 1][lists[i][1]]]
  BY <1>0, <1>2
<1>8. ASSUME NEW i \in 1 .. n PROVE b[i].ids \in Seq(Seqs) /\ b[i].ids # <<>> /\ b[i].pos \in Nat
  <2>1. i - 1 \in 0 .. n
    BY <1>1
  <2>2. w[i - 1] \in [Seqs -> Nat]
    BY <1>6, <2>1 DEF Kept
  <2>3. w[i - 1][lists[i][1]] \in Nat
    BY <1>0, <2>2
  <2> QED BY <1>0, <1>7, <2>3
<1>9. Len(b) = n /\ \E S : b \in Seq(S)
  <2> DEFINE S == {b[i] : i \in 1 .. n}
  <2>1. b \in [1 .. n -> S]
    BY <1>7
  <2> HIDE DEF S
  <2> QED BY <1>1, <2>1, FunctionSeq
<1>10. DOMAIN b = 1 .. n
  BY <1>7
<1> QED BY <1>1, <1>8, <1>9, <1>10 DEF b

\* A batch that is accepted has sequences and positions.
IsGiven(b) == /\ IsBatch(b) /\ \E S : b \in Seq(S)
              /\ \A i \in 1 .. Len(b) : b[i].ids \in Seq(Seqs) /\ b[i].ids # <<>> /\ b[i].pos \in 0 .. MaxPos

\* The positions in the memory are those of its cells.
LEMMA PosMaxFacts == ASSUME Good(Mem), NEW s \in Seqs PROVE PosMax(s) \in Int /\ PosMax(s) >= -1
<1> DEFINE S == {-1} \union {cells[i].pos : i \in {i \in Idx : s \in cells[i].seqs}}
<1>1. \A i \in Idx : cells[i].pos \in -1 .. MaxPos
  <2>1. \A i \in Idx : cells[i] \in Cell
    BY DEF Good, Mem, Sound
  <2> QED BY <2>1 DEF Cell
<1>2. S \in SUBSET Int /\ S # {} /\ -1 \in S /\ \A x \in S : x <= MaxPos
  <2>1. -1 <= MaxPos /\ -1 \in Int /\ \A p \in -1 .. MaxPos : p \in Int /\ p <= MaxPos
    BY IdxFacts
  <2>2. \A x \in S : x = -1 \/ x \in -1 .. MaxPos
    BY <1>1
  <2>3. -1 \in S
    OBVIOUS
  <2> HIDE DEF S
  <2> QED BY <2>1, <2>2, <2>3
<1>3. PosMax(s) = Max(S)
  BY DEF PosMax
<1> HIDE DEF S
<1>4. MaxPos \in Int
  BY IdxFacts
<1>5. Max(S) \in S /\ \A x \in S : x <= Max(S)
  BY <1>2, <1>4, MaxOf
<1> QED BY <1>2, <1>3, <1>5

\* The batches that come.
LEMMA BatchesGiven == ASSUME Good(Mem), NEW b \in Batches PROVE IsGiven(b)
<1> DEFINE hi == [s \in Seqs |-> PosMax(s)]
<1>1. PICK lists \in Shapes : b = AutoPos(lists, hi) /\ \A i \in DOMAIN b : b[i].pos <= MaxPos
  BY DEF Batches
<1>2. hi \in [Seqs -> Int] /\ \A s \in Seqs : hi[s] >= -1
  BY PosMaxFacts
<1>3. lists \in Seq(Seq(Seqs)) /\ \A i \in DOMAIN lists : lists[i] # <<>>
  BY ShapesAssumption
<1> HIDE DEF hi
<1>4. /\ Len(b) \in Nat /\ DOMAIN b = 1 .. Len(b) /\ \E S : b \in Seq(S)
      /\ \A i \in 1 .. Len(b) : b[i].ids \in Seq(Seqs) /\ b[i].ids # <<>> /\ b[i].pos \in Nat
  BY <1>1, <1>2, <1>3, AutoFacts
<1>5. \A i \in 1 .. Len(b) : b[i].pos \in 0 .. MaxPos
  BY <1>1, <1>4, IdxFacts
<1> QED BY <1>4, <1>5, BatchFacts DEF IsGiven

\* Of a micro-batch each part has the sequences and the position of some of its tokens.
LEMMA UbatchFacts ==
  ASSUME NEW b, IsGiven(b), NEW u \in MicroBatches(Len(b)), Parted(b, u)
  PROVE  IsUb(Ubatch(b, u)) /\ \A k \in 1 .. Len(Ubatch(b, u)) : Ubatch(b, u)[k].first \in Nat
<1> DEFINE K == u.n_seqs
           m == Len(u.idxs) \div K
           q == u.idxs
           ub == Ubatch(b, u)
<1>1. /\ K \in Nat \ {0} /\ m \in Nat \ {0} /\ K * m = Len(q)
      /\ \A j, k \in 1 .. K : j # k => SeqSet(b[q[(j - 1) * m + 1]]) \cap SeqSet(b[q[(k - 1) * m + 1]]) = {}
  BY DEF Parted
<1>2. q \in Seq(1 .. Len(b)) /\ DOMAIN q = 1 .. Len(q)
  BY LenProperties DEF MicroBatches
<1>3. /\ DOMAIN ub = 1 .. K
      /\ \A s \in 1 .. K : /\ ub[s].ids = b[q[(s - 1) * m + 1]].ids /\ ub[s].first = b[q[(s - 1) * m + 1]].pos
                            /\ ub[s].pos = b[q[s * m]].pos
  BY DEF Ubatch
<1>4. ub = [k \in 1 .. K |-> ub[k]]
  BY DEF Ubatch
<1> HIDE DEF K, q, m, ub
<1>5. \A k \in 1 .. K, j \in 1 .. m : (k - 1) * m + j \in 1 .. K * m
  BY <1>1, Places
<1>6. ASSUME NEW k \in 1 .. K PROVE q[(k - 1) * m + 1] \in 1 .. Len(b) /\ q[k * m] \in 1 .. Len(b)
  <2>1. 1 \in 1 .. m /\ m \in 1 .. m
    BY <1>1
  <2>2. (k - 1) * m + m = k * m
    BY <1>1
  <2>3. (k - 1) * m + 1 \in 1 .. Len(q) /\ k * m \in 1 .. Len(q)
    BY <1>1, <1>5, <2>1, <2>2
  <2> QED BY <1>2, <2>3, ElementOfSeq
<1>7. \A i \in 1 .. Len(b) : b[i].ids \in Seq(Seqs) /\ b[i].ids # <<>> /\ b[i].pos \in 0 .. MaxPos
  BY DEF IsGiven
<1>8. \A k \in 1 .. K : IsPart(ub[k]) /\ ub[k].first \in Nat
  <2> TAKE k \in 1 .. K
  <2> DEFINE i == q[(k - 1) * m + 1]
             l == q[k * m]
  <2>1. i \in 1 .. Len(b) /\ l \in 1 .. Len(b)
    BY <1>6
  <2>2. ub[k].ids = b[i].ids /\ ub[k].first = b[i].pos /\ ub[k].pos = b[l].pos
    BY <1>3
  <2> HIDE DEF i, l
  <2>3. b[i].pos \in Nat
    BY <1>7, <2>1, IdxFacts
  <2> QED BY <1>7, <2>1, <2>2, <2>3 DEF IsPart
<1>9. \A j, k \in 1 .. K : j # k => ToSet(ub[j].ids) \cap ToSet(ub[k].ids) = {}
  BY <1>1, <1>3 DEF SeqSet
<1>10. Len(ub) = K
  <2> DEFINE S == {ub[k] : k \in 1 .. K}
  <2>1. ub \in [1 .. K -> S]
    BY <1>4
  <2> HIDE DEF S
  <2> QED BY <1>1, <2>1, FunctionSeq
<1> QED BY <1>1, <1>3, <1>8, <1>9, <1>10 DEF IsUb, ub

\* llama_state_seq_set_data.
LEMMA LoadGood == ASSUME Good(Mem), NEW src \in Seqs, NEW dst \in Seqs, LoadSeq(src, dst) PROVE Good(Mem)'
<1> DEFINE from == cells[src].tail
           one  == [ids |-> <<dst>>, toks |-> <<>>, first |-> -1, pos |-> cells[from].pos]
           ub   == <<one>>
           r    == <<0, -1>>
           m    == seq_rm(Mem, dst, r)
           f    == find_slot(m, ub)
<1>1. cells[src].tail >= 0 /\ Become(f.mem)
  BY DEF LoadSeq
<1>2. Good(m)
  <2>1. r[1] \in Nat
    OBVIOUS
  <2> HIDE DEF r
  <2> QED BY <2>1, RmGood
<1> HIDE DEF m
<1>3. cells[from].pos \in 0 .. MaxPos
  <2>1. cells \in [Idx -> Cell] /\ Linked(cells) /\ Filled(cells)
    BY DEF Good, Mem, Sound
  <2>2. src \in Idx /\ \A i \in Idx : cells[i].tail \in {-1} \cup Idx /\ cells[i].pos \in -1 .. MaxPos
    <3>1. \A i \in Idx : cells[i] \in Cell
      BY <2>1
    <3> QED BY <3>1, IdxFacts DEF Cell
  <2>3. from \in Idx /\ from # -1
    BY <1>1, <2>2
  <2>4. src \in cells[from].seqs
    BY <2>1, <2>3 DEF Linked
  <2>5. cells[from].pos # -1
    BY <2>1, <2>3, <2>4 DEF Filled
  <2> HIDE DEF from
  <2>6. cells[from].pos \in -1 .. MaxPos
    BY <2>2, <2>3
  <2> QED BY <2>5, <2>6, IdxFacts
<1>4. IsPart(one)
  <2>1. <<dst>> \in Seq(Seqs) /\ <<dst>> # <<>>
    OBVIOUS
  <2> HIDE DEF from
  <2>2. one.ids = <<dst>> /\ one.pos = cells[from].pos
    OBVIOUS
  <2> QED BY <1>3, <2>1, <2>2 DEF IsPart
<1> HIDE DEF one
<1>5. IsUb(ub)
  <2>1. Len(ub) = 1 /\ DOMAIN ub = 1 .. 1 /\ ub[1] = one /\ \A k \in 1 .. 1 : k = 1
    OBVIOUS
  <2> QED BY <1>4, <2>1 DEF IsUb
<1> HIDE DEF ub
<1>6. Good(f.mem)
  BY <1>2, <1>5, FindSlotFacts
<1> HIDE DEF f
<1> QED BY <1>1, <1>6, BecomeGood

\* The cells in use are numbered in order.
Numbers(c, q) ==
  /\ Len(q) \in 0 .. Size
  /\ \A i \in 0 .. Len(q) - 1 : q[i + 1] \in Int /\ q[i + 1] - 1 \in Idx /\ ~is_empty(c, q[i + 1] - 1)
  /\ \A i, j \in 0 .. Len(q) - 1 : q[i + 1] = q[j + 1] => i = j

\* The cells that are saved.
LEMMA SavedFacts ==
  ASSUME NEW c
  PROVE  Numbers(c, InOrder({i \in 1 .. Size : ~is_empty(c, i - 1)}, Size))
<1> DEFINE I == {i \in 1 .. Size : ~is_empty(c, i - 1)}
           q == InOrder(I, Size)
           n == Len(q)
<1>1. q \in Seq(1 .. Size) /\ Ascending(q) /\ ToSet(q) = I
  <2>1. I \cap (1 .. Size) = I
    OBVIOUS
  <2> HIDE DEF I
  <2> QED BY <2>1, IdxFacts, InOrderFacts
<1> HIDE DEF q
<1>2. n \in Nat /\ DOMAIN q = 1 .. n /\ \A k \in 1 .. n : q[k] \in 1 .. Size /\ q[k] \in I
  BY <1>1, LenProperties, ElementOfSeq DEF ToSet
<1>3. n <= Size
  <2> DEFINE T == {k \in 0 .. n : k # 0 => q[k] >= k}
  <2>1. 0 \in T
    BY <1>2
  <2>2. ASSUME NEW k \in 1 .. n, k - 1 \in T PROVE k \in T
    <3>1. CASE k = 1
      BY <1>2, <3>1
    <3>2. CASE k # 1
      <4>1. k - 1 \in 1 .. n /\ k - 1 < k
        BY <1>2, <3>2
      <4>2. q[k - 1] < q[k] /\ q[k - 1] \in Int /\ q[k] \in Int
        <5>1. k - 1 \in DOMAIN q /\ k \in DOMAIN q /\ q[k - 1] \in 1 .. Size /\ q[k] \in 1 .. Size
          BY <1>2, <4>1
        <5>2. \A i, j \in DOMAIN q : i < j => q[i] < q[j]
          BY <1>1 DEF Ascending
        <5>3. q[k - 1] < q[k]
          BY <4>1, <5>1, <5>2
        <5> QED BY <5>1, <5>3
      <4>3. q[k - 1] >= k - 1
        BY <2>2, <3>2
      <4> QED BY <1>2, <4>2, <4>3
    <3> QED BY <3>1, <3>2
  <2> HIDE DEF T
  <2>3. \A k \in 0 .. n : k \in T
    BY <1>2, <2>1, <2>2, FiniteInduction
  <2>4. CASE n = 0
    BY <2>4, IdxFacts
  <2>5. CASE n # 0
    <3>1. n \in 1 .. n /\ n \in 0 .. n
      BY <1>2, <2>5
    <3>2. q[n] >= n /\ q[n] \in 1 .. Size
      BY <1>2, <2>3, <2>5, <3>1 DEF T
    <3> QED BY <1>2, <3>2, IdxFacts
  <2> QED BY <2>4, <2>5
<1>4. \A i \in 0 .. n - 1 : i + 1 \in 1 .. n
  BY <1>2
<1>5. ASSUME NEW i \in 0 .. n - 1 PROVE q[i + 1] \in Int /\ q[i + 1] - 1 \in Idx /\ ~is_empty(c, q[i + 1] - 1)
  <2> DEFINE x == q[i + 1]
  <2>1. x \in 1 .. Size /\ x \in I
    BY <1>2, <1>4
  <2> HIDE DEF x
  <2>2. x \in Int /\ x - 1 \in Idx /\ ~is_empty(c, x - 1)
    BY <2>1, IdxFacts
  <2> QED BY <2>2 DEF x
<1>6. ASSUME NEW i \in 0 .. n - 1, NEW j \in 0 .. n - 1, q[i + 1] = q[j + 1] PROVE i = j
  <2>1. ~(q[i + 1] < q[j + 1]) /\ ~(q[j + 1] < q[i + 1])
    <3>1. q[i + 1] \in Int /\ q[j + 1] \in Int
      BY <1>2, <1>4
    <3> QED BY <1>6, <3>1
  <2>2. i + 1 \in DOMAIN q /\ j + 1 \in DOMAIN q /\ i \in Int /\ j \in Int
    BY <1>2, <1>4
  <2>3. ~(i + 1 < j + 1) /\ ~(j + 1 < i + 1)
    BY <1>1, <2>1, <2>2 DEF Ascending
  <2> QED BY <2>2, <2>3
<1>7. Numbers(c, q)
  BY <1>2, <1>3, <1>5, <1>6, IdxFacts DEF Numbers
<1> QED BY <1>7 DEF q

\* The cells are filled from the first one on.
LEMMA FilledFacts ==
  ASSUME NEW c, Sound(c), NEW q, Numbers(c, q)
  PROVE  LET tail(s) == {i \in 0 .. Len(q) - 1 : s \in c[q[i + 1] - 1].seqs}
             d == [i \in Idx |-> [pos  |-> IF i < Len(q) THEN c[q[i + 1] - 1].pos ELSE -1,
                                  seqs |-> IF i < Len(q) THEN c[q[i + 1] - 1].seqs ELSE {},
                                  src  |-> IF i < Len(q) THEN i ELSE -1,
                                  tail |-> IF tail(i) = {} THEN -1 ELSE Min(tail(i))]]
         IN Sound(d) /\ CountUsed(d) = Len(q)
<1> DEFINE n == Len(q)
           saved(i) == q[i + 1] - 1
           tail(s) == {i \in 0 .. n - 1 : s \in c[saved(i)].seqs}
           d == [i \in Idx |-> [pos  |-> IF i < n THEN c[saved(i)].pos ELSE -1,
                                seqs |-> IF i < n THEN c[saved(i)].seqs ELSE {},
                                src  |-> IF i < n THEN i ELSE -1,
                                tail |-> IF tail(i) = {} THEN -1 ELSE Min(tail(i))]]
<1>1. /\ n \in Nat /\ n <= Size
      /\ \A i \in 0 .. n - 1 : saved(i) \in Idx /\ c[saved(i)].seqs # {}
  BY DEF Numbers, is_empty
<1>2. ASSUME NEW i \in 0 .. n - 1, NEW j \in 0 .. n - 1, saved(i) = saved(j) PROVE i = j
  <2>1. \A k \in 0 .. Len(q) - 1 : q[k + 1] \in Int
    BY DEF Numbers
  <2>2. q[i + 1] \in Int /\ q[j + 1] \in Int /\ q[i + 1] - 1 = q[j + 1] - 1
    BY <1>2, <2>1
  <2>3. q[i + 1] = q[j + 1]
    BY <2>2
  <2> QED BY <2>3 DEF Numbers
<1> HIDE DEF n, saved
<1>3. c \in [Idx -> Cell] /\ Linked(c) /\ Filled(c)
  BY DEF Sound
<1>4. \A i \in Idx : c[i].pos \in -1 .. MaxPos /\ c[i].seqs \in SUBSET Seqs
  <2>1. \A i \in Idx : c[i] \in Cell
    BY <1>3
  <2> QED BY <2>1 DEF Cell
<1>5. \A i \in Idx : i < n => i \in 0 .. n - 1
  BY <1>1, IdxFacts
<1>6. \A i \in 0 .. n - 1 : i \in Idx /\ i < n
  BY <1>1, IdxFacts
<1>7. ASSUME NEW s \in Seqs, NEW i \in tail(s), NEW j \in tail(s) PROVE i = j
  <2>1. c[s].tail = saved(i) /\ c[s].tail = saved(j)
    BY <1>1, <1>3 DEF Linked
  <2> QED BY <1>2, <2>1
<1>8. \A s \in Seqs : tail(s) # {} => Min(tail(s)) \in tail(s) /\ Min(tail(s)) \in Idx
  <2> TAKE s \in Seqs
  <2> DEFINE T == tail(s)
  <2>1. T \in SUBSET Nat /\ \A i \in T : i \in Idx
    BY <1>6, IdxFacts
  <2> HIDE DEF T
  <2>2. T # {} => Min(T) \in T
    BY <2>1, MinOf
  <2>3. T # {} => Min(T) \in T /\ Min(T) \in Idx
    BY <2>1, <2>2
  <2> QED BY <2>3 DEF T
<1>9. \A s \in Seqs, i \in 0 .. n - 1 : i \in tail(s) <=> s \in c[saved(i)].seqs
  OBVIOUS
<1> HIDE DEF tail
<1>10. \A i \in Idx : /\ d[i].pos = (IF i < n THEN c[saved(i)].pos ELSE -1)
                      /\ d[i].seqs = (IF i < n THEN c[saved(i)].seqs ELSE {})
                      /\ d[i].src = (IF i < n THEN i ELSE -1)
                      /\ d[i].tail = (IF tail(i) = {} THEN -1 ELSE Min(tail(i)))
                      /\ d[i] = [pos |-> d[i].pos, seqs |-> d[i].seqs, src |-> d[i].src, tail |-> d[i].tail]
  OBVIOUS
<1>11. ASSUME NEW i \in Idx PROVE d[i] \in Cell
  <2>1. d[i].pos \in -1 .. MaxPos /\ d[i].seqs \in SUBSET Seqs
    <3>1. -1 \in -1 .. MaxPos
      BY IdxFacts
    <3>2. i < n => saved(i) \in Idx
      BY <1>1, <1>5
    <3> HIDE DEF d
    <3> QED BY <1>4, <1>10, <3>1, <3>2
  <2>2. d[i].src \in {-1} \cup Idx /\ d[i].tail \in {-1} \cup Idx
    <3> HIDE DEF d
    <3> QED BY <1>8, <1>10, IdxFacts
  <2>3. d[i] = [pos |-> d[i].pos, seqs |-> d[i].seqs, src |-> d[i].src, tail |-> d[i].tail]
    BY <1>10
  <2> HIDE DEF d
  <2> DEFINE p == d[i].pos
             x == d[i].src
             y == d[i].tail
             z == d[i].seqs
  <2>4. d[i] = [pos |-> p, seqs |-> z, src |-> x, tail |-> y] /\ p \in -1 .. MaxPos /\ z \in SUBSET Seqs
        /\ x \in {-1} \cup Idx /\ y \in {-1} \cup Idx
    BY <2>1, <2>2, <2>3
  <2> HIDE DEF p, x, y, z
  <2> QED BY <2>4 DEF Cell
<1>12. d \in [Idx -> Cell]
  <2>1. d = [i \in Idx |-> d[i]]
    OBVIOUS
  <2> HIDE DEF d
  <2> QED BY <1>11, <2>1
<1> HIDE DEF d
<1>13. Linked(d)
  <2>1. ASSUME NEW s \in Seqs, d[s].tail # -1 PROVE s \in d[d[s].tail].seqs
    <3> DEFINE t == Min(tail(s))
    <3>1. d[s].tail = t /\ t \in tail(s) /\ t \in Idx
      BY <1>8, <1>10, <2>1, IdxFacts
    <3>2. t \in 0 .. n - 1 /\ s \in c[saved(t)].seqs
      BY <3>1 DEF tail
    <3> HIDE DEF t
    <3> QED BY <1>6, <1>10, <3>1, <3>2
  <2>2. ASSUME NEW i \in Idx, NEW s \in d[i].seqs PROVE d[s].tail = i
    <3>1. i < n
      BY <1>10, <2>2
    <3>2. i \in 0 .. n - 1 /\ s \in c[saved(i)].seqs
      BY <1>5, <1>10, <2>2, <3>1
    <3>3. s \in Seqs
      BY <1>1, <1>4, <3>2
    <3>4. i \in tail(s)
      BY <1>9, <3>2, <3>3
    <3>5. Min(tail(s)) \in tail(s)
      BY <1>8, <3>3, <3>4
    <3>6. Min(tail(s)) = i
      BY <1>7, <3>3, <3>4, <3>5
    <3> QED BY <1>10, <3>3, <3>4, <3>6, IdxFacts
  <2> QED BY <2>1, <2>2 DEF Linked
<1>14. \A i \in Idx : i < n => d[i].seqs # {} /\ d[i].pos # -1
  <2> TAKE i \in Idx
  <2> SUFFICES ASSUME i < n PROVE d[i].seqs # {} /\ d[i].pos # -1
    OBVIOUS
  <2>1. saved(i) \in Idx /\ c[saved(i)].seqs # {}
    BY <1>1, <1>5
  <2>2. c[saved(i)].pos # -1
    BY <1>3, <2>1 DEF Filled
  <2>3. d[i].seqs = c[saved(i)].seqs /\ d[i].pos = c[saved(i)].pos
    BY <1>10
  <2> QED BY <2>1, <2>2, <2>3
<1>15. \A i \in Idx : ~(i < n) => d[i].seqs = {} /\ d[i].pos = -1
  BY <1>10
<1>16. Filled(d) /\ Home(d)
  BY <1>10, <1>14, <1>15 DEF Filled, Home
<1>17. CountUsed(d) = n
  <2>1. {i \in Idx : ~is_empty(d, i)} = 0 .. n - 1
    BY <1>5, <1>6, <1>14, <1>15 DEF is_empty
  <2>2. Cardinality(0 .. n - 1) = n
    <3>1. n - 1 \in Int /\ 0 \in Int
      BY <1>1
    <3>2. Cardinality(0 .. n - 1) = IF 0 > n - 1 THEN 0 ELSE (n - 1) - 0 + 1
      BY <3>1, FS_Interval
    <3> QED BY <1>1, <3>2
  <2> QED BY <2>1, <2>2 DEF CountUsed
<1>18. Sound(d) /\ CountUsed(d) = n
  BY <1>12, <1>13, <1>16, <1>17 DEF Sound
<1> QED BY <1>18 DEF d, n, saved, tail

\* llama_state_set_data.
LEMMA ReloadGood == ASSUME Good(Mem), Reload PROVE Good(Mem)'
<1> DEFINE q == InOrder({i \in 1 .. Size : ~is_empty(cells, i - 1)}, Size)
           tail(s) == {i \in 0 .. Len(q) - 1 : s \in cells[q[i + 1] - 1].seqs}
           d == [i \in Idx |-> [pos  |-> IF i < Len(q) THEN cells[q[i + 1] - 1].pos ELSE -1,
                                seqs |-> IF i < Len(q) THEN cells[q[i + 1] - 1].seqs ELSE {},
                                src  |-> IF i < Len(q) THEN i ELSE -1,
                                tail |-> IF tail(i) = {} THEN -1 ELSE Min(tail(i))]]
<1>1. cells' = d /\ head' = 0 /\ used' = Len(q)
  BY DEF Reload
<1>2. Sound(cells)
  BY DEF Good, Mem
<1>3. Numbers(cells, q)
  BY SavedFacts
<1> HIDE DEF q
<1>4. Sound(d) /\ CountUsed(d) = Len(q)
  BY <1>2, <1>3, FilledFacts
<1> HIDE DEF d
<1> QED BY <1>1, <1>4, IdxFacts DEF Good, Mem

-----------------------------------------------------------------------------
(***************************************************************************)
(* The invariant: the memory is sound, and what is to be computed are      *)
(* micro-batches that find_slot takes, of the batch at hand.               *)
(***************************************************************************)
Ready(q) == /\ Len(q) \in Nat /\ \E S : q \in Seq(S)
            /\ \A k \in 1 .. Len(q) : IsUb(q[k]) /\ \A j \in 1 .. Len(q[k]) : q[k][j].first \in Nat
MemoryGood == Good(Mem) /\ Ready(todo) /\ (todo = <<>> => batch = NoBatch)

\* Nothing is to be computed.
LEMMA NothingReady == Ready(<<>>)
<1>1. <<>> \in Seq({}) /\ Len(<<>>) = 0 /\ 1 .. 0 = {}
  OBVIOUS
<1> QED BY <1>1 DEF Ready

\* The micro-batches that remain.
LEMMA TailReady == ASSUME NEW q, Ready(q), q # <<>> PROVE Ready(Tail(q)) /\ (Tail(q) = <<>> <=> Len(q) = 1) /\ Len(q) >= 1
<1>1. PICK S : q \in Seq(S)
  BY DEF Ready
<1> DEFINE t == Tail(q)
<1>2. t \in Seq(S) /\ Len(t) = Len(q) - 1 /\ \A i \in 1 .. Len(t) : t[i] = q[i + 1]
  BY <1>1, HeadTailProperties
<1>3. Len(q) \in Nat /\ Len(q) >= 1 /\ Len(t) \in Nat
  BY <1>1, <1>2, LenProperties, EmptySeq
<1> HIDE DEF t
<1>4. t = <<>> <=> Len(t) = 0
  BY <1>2, EmptySeq
<1>5. \A k \in 1 .. Len(t) : k + 1 \in 1 .. Len(q) /\ t[k] = q[k + 1]
  BY <1>2, <1>3
<1>6. \A k \in 1 .. Len(t) : IsUb(t[k]) /\ \A j \in 1 .. Len(t[k]) : t[k][j].first \in Nat
  BY <1>5 DEF Ready
<1>7. Ready(t)
  BY <1>2, <1>3, <1>6 DEF Ready
<1> QED BY <1>2, <1>3, <1>4, <1>7 DEF t

\* The micro-batches of a batch.
LEMMA BatchReady ==
  ASSUME NEW b, IsGiven(b), NEW embd_all, NEW ubs,
         ubs = [k \in DOMAIN SplitOf(b, embd_all) |-> Ubatch(b, SplitOf(b, embd_all)[k])]
  PROVE  /\ Ready(ubs)
         /\ ubs = <<>> => b = <<>> /\ SplitOf(b, embd_all) = <<>>
<1> DEFINE us == SplitOf(b, embd_all)
           n == Len(us)
<1>1. IsBatch(b) /\ Len(b) \in Nat /\ DOMAIN b = 1 .. Len(b)
  BY DEF IsGiven, IsBatch
<1>2. /\ us \in Seq(MicroBatches(Len(b))) /\ (\A k \in DOMAIN us : Parted(b, us[k]))
      /\ Len(b) = 0 => us = <<>>
      /\ Len(b) # 0 => us # <<>>
  <2>1. PICK mode \in {"seq", "equal"} : us = Splits(b, NUbatch, mode)
    BY DEF SplitOf
  <2> HIDE DEF us
  <2>2. NUbatch \in Nat \ {0}
    BY SizeAssumption
  <2> QED BY <1>1, <2>1, <2>2, SplitsParted
<1> HIDE DEF us
<1>3. n \in Nat /\ DOMAIN us = 1 .. n /\ (n = 0 <=> us = <<>>) /\ \A k \in 1 .. n : us[k] \in MicroBatches(Len(b))
  BY <1>2, LenProperties, ElementOfSeq, EmptySeq
<1> HIDE DEF n
<1>4. ubs = [k \in 1 .. n |-> Ubatch(b, us[k])]
  BY <1>3 DEF us
<1>5. \A k \in 1 .. n : IsUb(ubs[k]) /\ \A j \in 1 .. Len(ubs[k]) : ubs[k][j].first \in Nat
  <2> TAKE k \in 1 .. n
  <2> DEFINE u == us[k]
  <2>1. u \in MicroBatches(Len(b)) /\ Parted(b, u) /\ ubs[k] = Ubatch(b, u)
    BY <1>2, <1>3, <1>4
  <2> HIDE DEF u
  <2> QED BY <2>1, UbatchFacts
<1> DEFINE S == {ubs[k] : k \in 1 .. n}
<1>6. ubs \in [1 .. n -> S]
  BY <1>4
<1> HIDE DEF S
<1>7. ubs \in Seq(S) /\ Len(ubs) = n
  BY <1>3, <1>6, FunctionSeq
<1>8. Ready(ubs)
  BY <1>3, <1>5, <1>7 DEF Ready
<1>9. ASSUME ubs = <<>> PROVE b = <<>> /\ us = <<>>
  <2>1. n = 0
    BY <1>7, <1>9
  <2>2. us = <<>> /\ Len(b) = 0
    BY <1>2, <1>3, <2>1
  <2>3. PICK B : b \in Seq(B)
    BY DEF IsGiven
  <2> QED BY <2>2, <2>3, EmptySeq
<1> QED BY <1>8, <1>9 DEF us

\* Begin: prepare finds a slot for each micro-batch.
LEMMA BeginReady ==
  ASSUME MemoryGood, NEW b \in Batches, NEW embd_all, Begin(b, embd_all)
  PROVE  Ready(todo)' /\ (todo = <<>> => batch = NoBatch)'
<1> DEFINE us == SplitOf(b, embd_all)
           ubs == [k \in DOMAIN us |-> Ubatch(b, us[k])]
           p == prepare(Mem, ubs)
<1>1. IsGiven(b)
  BY BatchesGiven DEF MemoryGood
<1>2. Ready(ubs) /\ (ubs = <<>> => b = <<>> /\ us = <<>>)
  BY <1>1, BatchReady
<1>3. /\ todo' = IF p.ok /\ p.sound THEN ubs ELSE <<>>
      /\ batch' = IF ~p.sound THEN [tokens |-> b, splits |-> <<>>]
                  ELSE IF p.ok THEN [tokens |-> b, splits |-> us] ELSE NoBatch
  BY DEF Begin
<1> HIDE DEF us, ubs
<1>4. p.ok /\ p.sound
  <2>1. Len(ubs) \in Nat /\ \A k \in 1 .. Len(ubs) : IsUb(ubs[k])
    BY <1>2 DEF Ready
  <2> QED BY <2>1, PrepareFacts DEF MemoryGood
<1> HIDE DEF p
<1>5. todo' = ubs /\ batch' = [tokens |-> b, splits |-> us]
  BY <1>3, <1>4
<1>6. Ready(todo')
  BY <1>2, <1>5
<1>7. todo' = <<>> => batch' = NoBatch
  BY <1>2, <1>5 DEF NoBatch
<1> QED BY <1>6, <1>7 DEF Ready

\* The next micro-batch is computed, in the slot that is found for it.
LEMMA ComputeReady == ASSUME MemoryGood, Compute PROVE MemoryGood'
<1>1. /\ todo # <<>> /\ todo' = Tail(todo) /\ batch' = IF Len(todo) = 1 THEN NoBatch ELSE batch
      /\ Become(find_slot(Mem, todo[1]).mem)
  BY DEF Compute
<1>2. Ready(Tail(todo)) /\ (Tail(todo) = <<>> <=> Len(todo) = 1) /\ Len(todo) >= 1 /\ Ready(todo)
  BY <1>1, TailReady DEF MemoryGood
<1>3. IsUb(todo[1])
  <2>1. 1 \in 1 .. Len(todo)
    BY <1>2 DEF Ready
  <2> QED BY <1>2, <2>1 DEF Ready
<1>4. Good(find_slot(Mem, todo[1]).mem)
  BY <1>3, FindSlotFacts DEF MemoryGood
<1>5. Good(Mem)'
  BY <1>1, <1>4, BecomeGood
<1>6. Ready(todo') /\ (todo' = <<>> => batch' = NoBatch)
  BY <1>1, <1>2
<1>7. Ready(todo)' /\ (todo = <<>> => batch = NoBatch)'
  BY <1>6 DEF Ready
<1> QED BY <1>5, <1>7 DEF MemoryGood

\* A micro-batch fails, and its tokens are removed.
LEMMA FailsReady == ASSUME MemoryGood, ComputeFails PROVE MemoryGood'
<1>1. /\ todo # <<>> /\ todo' = <<>> /\ batch' = NoBatch
      /\ Become(Removed(find_slot(Mem, todo[1]).mem, todo[1]))
  BY DEF ComputeFails
<1>2. Len(todo) >= 1 /\ Ready(todo)
  BY <1>1, TailReady DEF MemoryGood
<1>3. IsUb(todo[1]) /\ \A j \in 1 .. Len(todo[1]) : todo[1][j].first \in Nat
  <2>1. 1 \in 1 .. Len(todo)
    BY <1>2 DEF Ready
  <2> QED BY <1>2, <2>1 DEF Ready
<1> DEFINE m == find_slot(Mem, todo[1]).mem
           ub == todo[1]
<1>4. Good(m)
  BY <1>3, FindSlotFacts DEF MemoryGood
<1>5. Good(Removed(m, ub))
  <2> HIDE DEF m, ub
  <2>1. IsUb(ub) /\ \A j \in 1 .. Len(ub) : ub[j].first \in Nat
    BY <1>3 DEF ub
  <2> QED BY <1>4, <2>1, RemovedGood
<1>6. Good(Mem)'
  BY <1>1, <1>5, BecomeGood
<1>7. Ready(todo')
  BY <1>1, NothingReady
<1>8. Ready(todo)' /\ (todo = <<>> => batch = NoBatch)'
  BY <1>1, <1>7 DEF Ready
<1> QED BY <1>6, <1>8 DEF MemoryGood

\* Every step keeps the invariant, as long as a program does not remove everything with
\* seq_rm(-1).
LEMMA MemoryStep == ASSUME ~AnyRmAll, MemoryGood, [Next]_vars PROVE MemoryGood'
<1>1. ASSUME UNCHANGED <<todo, batch>>, Good(Mem)' PROVE MemoryGood'
  <2>1. Ready(todo)' /\ (todo = <<>> => batch = NoBatch)'
    BY <1>1 DEF MemoryGood, Ready
  <2> QED BY <1>1, <2>1 DEF MemoryGood
<1>2. ASSUME Call, Good(Mem)' PROVE MemoryGood'
  BY <1>1, <1>2 DEF Call
<1>0. Good(Mem)
  BY DEF MemoryGood
<1>3. CASE Clear
  BY <1>2, <1>3, ClearGood DEF Clear
<1>4. ASSUME NEW r \in Ranges, SeqRmAll(r) PROVE MemoryGood'
  <2>1. Good(Mem)'
    BY <1>0, <1>4, RmAllGood
  <2> QED BY <1>2, <1>4, <2>1 DEF SeqRmAll
<1>5. ASSUME NEW r \in Ranges, NEW s \in Seqs, SeqRm(s, r) PROVE MemoryGood'
  <2>1. Become(seq_rm(Mem, s, r)) /\ Call
    BY <1>5 DEF SeqRm
  <2>2. r[1] \in Nat
    BY DEF Ranges, Store!Ranges
  <2>3. Good(Mem)'
    BY <1>0, <2>1, <2>2, RmGood, BecomeGood
  <2> QED BY <1>2, <2>1, <2>3
<1>6. ASSUME NEW s \in Seqs, NEW r, NEW to, Move(s, r, to) PROVE MemoryGood'
  <2>1. Good(Mem)'
    BY <1>0, <1>6, MoveGood
  <2> QED BY <1>2, <1>6, <2>1 DEF Move
<1>7. ASSUME NEW r \in Ranges, NEW s \in Seqs, NEW d \in Shifts, SeqAdd(s, r, d) PROVE MemoryGood'
  BY <1>6, <1>7 DEF SeqAdd
<1>8. ASSUME NEW r \in Ranges, NEW s \in Seqs, NEW d \in Divs, SeqDiv(s, r, d) PROVE MemoryGood'
  BY <1>6, <1>8 DEF SeqDiv
<1>9. ASSUME NEW s \in Seqs, SeqKeep(s) PROVE MemoryGood'
  <2>1. Good(Mem)'
    BY <1>0, <1>9, KeepGood
  <2> QED BY <1>2, <1>9, <2>1 DEF SeqKeep
<1>10. ASSUME NEW s \in Seqs, NEW t \in Seqs \ {s}, SeqCp(s, t) PROVE MemoryGood'
  <2>1. Good(Mem)'
    BY <1>0, <1>10, CpGood
  <2> QED BY <1>2, <1>10, <2>1 DEF SeqCp
<1>11. ASSUME NEW s \in Seqs, NEW t \in Seqs \ {s}, LoadSeq(s, t) PROVE MemoryGood'
  <2>1. Good(Mem)'
    BY <1>0, <1>11, LoadGood
  <2> QED BY <1>2, <1>11, <2>1 DEF LoadSeq
<1>12. ASSUME NEW b \in Batches, NEW embd_all \in EmbdModes, Begin(b, embd_all) PROVE MemoryGood'
  <2>1. Ready(todo)' /\ (todo = <<>> => batch = NoBatch)'
    BY <1>12, BeginReady
  <2>2. UNCHANGED <<cells, head, used>>
    BY <1>12 DEF Begin
  <2>3. Good(Mem)'
    BY <1>0, <2>2 DEF Good, Mem
  <2> QED BY <2>1, <2>3 DEF MemoryGood
<1>13. CASE Compute
  BY <1>13, ComputeReady
<1>14. CASE ComputeFails
  BY <1>14, FailsReady
<1>15. CASE Reload
  <2>1. Good(Mem)'
    BY <1>0, <1>15, ReloadGood
  <2> QED BY <1>2, <1>15, <2>1 DEF Reload
<1>16. CASE UNCHANGED vars
  <2>1. UNCHANGED <<cells, head, used>> /\ UNCHANGED <<todo, batch>>
    BY <1>16 DEF vars
  <2>2. Good(Mem)'
    BY <1>0, <2>1 DEF Good, Mem
  <2> QED BY <1>1, <2>1, <2>2
<1> QED
  BY <1>3, <1>4, <1>5, <1>7, <1>8, <1>9, <1>10, <1>11, <1>12, <1>13, <1>14, <1>15, <1>16 DEF Next

\* It always holds.
LEMMA MemoryAlways == ASSUME ~AnyRmAll PROVE Spec => []MemoryGood
<1>1. Init => MemoryGood
  <2> SUFFICES ASSUME Init PROVE MemoryGood
    OBVIOUS
  <2>1. Mem = [cells |-> cells, head |-> 0, used |-> 0] /\ cells = [i \in Idx |-> NoCell]
    BY DEF Init, Mem
  <2>2. todo = <<>> /\ batch = NoBatch
    BY DEF Init
  <2> QED BY <2>1, <2>2, EmptyGood, NothingReady DEF MemoryGood
<1>2. MemoryGood /\ [Next]_vars => MemoryGood'
  BY MemoryStep
<1> QED BY <1>1, <1>2, PTL DEF Spec

\* What find_slot's debug code takes for granted ("wrong tail for seq_id", "duplicate tail
\* for seq_id") always holds, and used is the number of cells with sequences, whatever
\* calls are made and wherever micro-batches fail, as long as a program does not remove
\* everything with seq_rm(-1), which leaves the tails behind.
THEOREM CellsConsistent == ASSUME ~AnyRmAll PROVE Spec => []TypeOK
<1>1. MemoryGood => TypeOK
  <2> SUFFICES ASSUME MemoryGood PROVE TypeOK
    OBVIOUS
  <2>1. /\ cells \in [Idx -> Cell] /\ Linked(cells) /\ Home(cells)
        /\ head \in Idx /\ used = CountUsed(cells)
    BY DEF MemoryGood, Good, Mem, Sound
  <2>2. \A i \in Idx : cells[i].pos \in -1 .. MaxPos /\ cells[i].seqs \in SUBSET Seqs
    <3>1. \A i \in Idx : cells[i] \in Cell
      BY <2>1
    <3> QED BY <3>1 DEF Cell
  <2>3. \A i \in Idx : cells[i].tail = -1 \/ i \in cells[cells[i].tail].seqs
    BY <2>1, IdxFacts DEF Linked
  <2> QED BY <2>1, <2>2, <2>3 DEF TypeOK, Home, Linked
<1> QED BY <1>1, MemoryAlways, PTL

\* prepare and find_slot find a slot for every micro-batch of every batch that is accepted,
\* the assertions of find_slot hold, and a micro-batch that prepare has found a slot for
\* finds one again when its turn comes, which apply takes for granted.
THEOREM SlotsAlwaysFound == ASSUME ~AnyRmAll PROVE Spec => []SlotsSound
<1>1. MemoryGood => SlotsSound
  <2> SUFFICES ASSUME MemoryGood, ~Resting PROVE todo # <<>> /\ find_slot(Mem, todo[1]).ok /\ find_slot(Mem, todo[1]).sound
    BY DEF SlotsSound
  <2>1. todo # <<>>
    BY DEF MemoryGood, Resting
  <2>2. Len(todo) >= 1 /\ Ready(todo)
    BY <2>1, TailReady DEF MemoryGood
  <2>3. IsUb(todo[1])
    <3>1. 1 \in 1 .. Len(todo)
      BY <2>2 DEF Ready
    <3> QED BY <2>2, <3>1 DEF Ready
  <2> QED BY <2>1, <2>3, FindSlotFacts DEF MemoryGood
<1> QED BY <1>1, MemoryAlways, PTL
=============================================================================
