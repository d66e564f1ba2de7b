------------------------------ MODULE Recursion -------------------------------
(***************************************************************************)
(* Induction and recursion over the naturals without an operator           *)
(* parameter: a predicate is given by the set of numbers that satisfy it,  *)
(* a step by a function.  The proofs about rings that double and about     *)
(* walks over the cells of a cache rest on these facts.                    *)
(***************************************************************************)
EXTENDS Integers, FiniteSetTheorems, WellFoundedInduction, TLAPS

\* Every set of naturals that is not empty has a least element.
LEMMA LeastNatural == ASSUME NEW S \in SUBSET Nat, S # {} PROVE \E m \in S : \A n \in S : m <= n
<1>1. PICK m \in S : \A n \in S : ~ (<<n, m>> \in OpToRel(<, Nat))
  BY NatLessThanWellFounded, WFMin, Zenon
<1>2. \A n \in S : ~ (n < m)
  BY <1>1 DEF OpToRel
<1> QED BY <1>2

\* Induction: a set that has 0, and n + 1 with every n, has all naturals.
LEMMA SetInduction ==
  ASSUME NEW S, 0 \in S, \A n \in Nat : n \in S => n + 1 \in S
  PROVE  Nat \subseteq S
<1> SUFFICES ASSUME Nat \ S # {} PROVE FALSE
  OBVIOUS
<1>1. PICK m \in Nat \ S : \A n \in Nat \ S : m <= n
  BY LeastNatural
<1>2. m # 0 /\ m - 1 \in Nat /\ ~(m <= m - 1)
  OBVIOUS
<1>3. m - 1 \in S
  BY <1>1, <1>2
<1> QED BY <1>2, <1>3

\* Induction up to n.
LEMMA FiniteInduction ==
  ASSUME NEW n \in Nat, NEW S, 0 \in S, \A k \in 1 .. n : k - 1 \in S => k \in S
  PROVE  \A k \in 0 .. n : k \in S
<1> DEFINE T == {k \in Nat : k <= n => k \in S}
<1>1. 0 \in T
  OBVIOUS
<1>2. ASSUME NEW k \in Nat, k \in T PROVE k + 1 \in T
  <2>1. k + 1 <= n => k + 1 \in 1 .. n /\ (k + 1) - 1 = k /\ k \in S
    BY <1>2
  <2> QED BY <2>1
<1> HIDE DEF T
<1>3. Nat \subseteq T
  BY <1>1, <1>2, SetInduction
<1>4. \A k \in 0 .. n : k \in Nat /\ k <= n
  OBVIOUS
<1> QED BY <1>3, <1>4 DEF T

\* f starts at a and goes on with the step G, within S.
Iterates(f, S, a, G) ==
  /\ f \in [Nat -> S]
  /\ f[0] = a
  /\ \A n \in Nat : f[n + 1] = G[<<n, f[n]>>]

\* Recursion: a start and a step determine a sequence of values.
LEMMA Iteration ==
  ASSUME NEW S, NEW a \in S, NEW G \in [Nat \X S -> S]
  PROVE  \E f : Iterates(f, S, a, G)
<1> DEFINE Upto(n) == {h \in [0 .. n -> S] : h[0] = a /\ \A i \in 0 .. n - 1 : h[i + 1] = G[<<i, h[i]>>]}
<1>0. \A n \in Nat : \A h : h \in Upto(n) <=>
        /\ h \in [0 .. n -> S]
        /\ h[0] = a
        /\ \A i \in 0 .. n - 1 : h[i + 1] = G[<<i, h[i]>>]
  OBVIOUS
<1> HIDE DEF Upto
<1>1. \A n \in Nat : Upto(n) # {}
  <2> DEFINE T == {n \in Nat : Upto(n) # {}}
  <2>1. 0 \in T
    <3> DEFINE h == [i \in 0 .. 0 |-> a]
    <3>a. h \in [0 .. 0 -> S] /\ h[0] = a
      OBVIOUS
    <3>b. 0 .. 0 - 1 = {}
      OBVIOUS
    <3> HIDE DEF h
    <3>1. h \in Upto(0)
      BY <1>0, <3>a, <3>b
    <3> QED BY <3>1
  <2>2. ASSUME NEW n \in Nat, n \in T PROVE n + 1 \in T
    <3>1. PICK h \in Upto(n) : TRUE
      BY <2>2
    <3> DEFINE g == [i \in 0 .. n + 1 |-> IF i = n + 1 THEN G[<<n, h[n]>>] ELSE h[i]]
    <3>2. h \in [0 .. n -> S] /\ h[0] = a /\ \A i \in 0 .. n - 1 : h[i + 1] = G[<<i, h[i]>>]
      BY <1>0, <3>1
    <3>3. g \in [0 .. n + 1 -> S] /\ g[n + 1] = G[<<n, h[n]>>] /\ \A i \in 0 .. n : g[i] = h[i]
      BY <3>2
    <3> HIDE DEF g
    <3>4. \A i \in 0 .. n : g[i + 1] = G[<<i, g[i]>>]
      BY <3>2, <3>3
    <3>5. g \in Upto(n + 1)
      BY <1>0, <3>2, <3>3, <3>4
    <3> QED BY <3>5
  <2> HIDE DEF T
  <2>3. Nat \subseteq T
    BY <2>1, <2>2, SetInduction
  <2> QED BY <2>3 DEF T
<1>2. ASSUME NEW n \in Nat, NEW g \in Upto(n), NEW h \in Upto(n + 1) PROVE g[n] = h[n]
  <2> DEFINE T == {i \in Nat : i <= n => g[i] = h[i]}
  <2>0. /\ g[0] = a /\ \A i \in 0 .. n - 1 : g[i + 1] = G[<<i, g[i]>>]
        /\ h[0] = a /\ \A i \in 0 .. n : h[i + 1] = G[<<i, h[i]>>]
    BY <1>0, <1>2
  <2>1. 0 \in T
    BY <2>0
  <2>2. ASSUME NEW i \in Nat, i \in T PROVE i + 1 \in T
    <3>1. i + 1 <= n => g[i] = h[i] /\ i \in 0 .. n - 1 /\ i \in 0 .. n
      BY <2>2
    <3>2. i + 1 <= n => g[i + 1] = h[i + 1]
      BY <2>0, <3>1
    <3> QED BY <3>2
  <2> HIDE DEF T
  <2>3. Nat \subseteq T
    BY <2>1, <2>2, SetInduction
  <2> QED BY <2>3 DEF T
<1> DEFINE C(n) == CHOOSE h \in Upto(n) : TRUE
           f == [n \in Nat |-> C(n)[n]]
<1>3. \A n \in Nat : C(n) \in Upto(n)
  BY <1>1
<1> HIDE DEF C
<1>4. f \in [Nat -> S]
  BY <1>0, <1>3
<1>5. f[0] = a
  BY <1>0, <1>3
<1>6. ASSUME NEW n \in Nat PROVE f[n + 1] = G[<<n, f[n]>>]
  <2>1. C(n) \in Upto(n) /\ C(n + 1) \in Upto(n + 1)
    BY <1>3
  <2>2. C(n + 1)[n + 1] = G[<<n, C(n + 1)[n]>>]
    BY <1>0, <2>1
  <2>3. C(n)[n] = C(n + 1)[n]
    BY <1>2, <2>1
  <2> QED BY <2>2, <2>3
<1>7. Iterates(f, S, a, G)
  BY <1>4, <1>5, <1>6 DEF Iterates
<1> QED BY <1>7

\* The element that a fold over a set takes last.
Chosen(s) == CHOOSE x \in s : TRUE

\* Induction over the subsets of a finite set, in the order of the folds.
LEMMA SubsetInduction ==
  ASSUME NEW S, IsFiniteSet(S), NEW T, {} \in T,
         \A s \in SUBSET S : s # {} /\ s \ {Chosen(s)} \in T => s \in T
  PROVE  SUBSET S \subseteq T
<1> DEFINE N == {k \in Nat : \A s \in SUBSET S : Cardinality(s) = k => s \in T}
<1>1. \A s \in SUBSET S : IsFiniteSet(s) /\ Cardinality(s) \in Nat /\ (Cardinality(s) = 0 <=> s = {})
  BY FS_Subset, FS_CardinalityType, FS_EmptySet
<1>2. 0 \in N
  BY <1>1
<1>3. ASSUME NEW k \in Nat, k \in N PROVE k + 1 \in N
  <2> SUFFICES ASSUME NEW s \in SUBSET S, Cardinality(s) = k + 1 PROVE s \in T
    OBVIOUS
  <2>1. s # {} /\ Chosen(s) \in s
    BY <1>1 DEF Chosen
  <2>2. Cardinality(s \ {Chosen(s)}) = k
    BY <1>1, <2>1, FS_RemoveElement
  <2>3. s \ {Chosen(s)} \in T
    BY <1>3, <2>2
  <2> QED BY <2>1, <2>3
<1> HIDE DEF N
<1>4. Nat \subseteq N
  BY <1>2, <1>3, SetInduction
<1>5. \A s \in SUBSET S : s \in T
  BY <1>1, <1>4 DEF N
<1> QED BY <1>5

\* g folds the subsets of S: it starts at base and goes on with the step F.
Folds(g, S, D, base, F) ==
  /\ g \in [SUBSET S -> D]
  /\ g[{}] = base
  /\ \A s \in SUBSET S : s # {} => g[s] = F[<<Chosen(s), g[s \ {Chosen(s)}]>>]

\* There is a fold for every step.
LEMMA Folding ==
  ASSUME NEW S, IsFiniteSet(S), NEW D, NEW base \in D, NEW F \in [S \X D -> D]
  PROVE  \E g : Folds(g, S, D, base, F)
<1> DEFINE V == [SUBSET S -> D]
           a == [s \in SUBSET S |-> base]
           Next(v) == [s \in SUBSET S |-> IF s = {} THEN base ELSE F[<<Chosen(s), v[s \ {Chosen(s)}]>>]]
           G == [x \in Nat \X V |-> Next(x[2])]
<1>1. \A s \in SUBSET S : s # {} => Chosen(s) \in s /\ s \ {Chosen(s)} \in SUBSET S
  BY DEF Chosen
<1>2. a \in V
  OBVIOUS
<1>3. ASSUME NEW v \in V PROVE Next(v) \in V
  <2>1. \A s \in SUBSET S : (IF s = {} THEN base ELSE F[<<Chosen(s), v[s \ {Chosen(s)}]>>]) \in D
    BY <1>1
  <2> QED BY <2>1
<1>4. G \in [Nat \X V -> V]
  <2> HIDE DEF Next, V
  <2> QED BY <1>3
<1>5. \A k \in Nat, v \in V : G[<<k, v>>] = Next(v)
  <2> HIDE DEF Next, V
  <2> QED OBVIOUS
<1>6. PICK f : Iterates(f, V, a, G)
  <2> HIDE DEF V, a, G, Next
  <2> QED BY <1>2, <1>4, Iteration
<1> HIDE DEF G
<1>7. f \in [Nat -> V] /\ f[0] = a /\ \A k \in Nat : f[k + 1] = Next(f[k])
  <2> HIDE DEF V, a, Next
  <2> QED BY <1>5, <1>6 DEF Iterates
<1> DEFINE g == [s \in SUBSET S |-> f[Cardinality(s)][s]]
<1>8. \A s \in SUBSET S : IsFiniteSet(s) /\ Cardinality(s) \in Nat /\ (Cardinality(s) = 0 <=> s = {})
  BY FS_Subset, FS_CardinalityType, FS_EmptySet
<1>9. g \in [SUBSET S -> D]
  <2>1. \A k \in Nat : f[k] \in [SUBSET S -> D]
    BY <1>7
  <2>2. \A s \in SUBSET S : f[Cardinality(s)][s] \in D
    BY <1>8, <2>1
  <2> QED BY <2>2
<1>10. g[{}] = base
  <2>1. Cardinality({}) = 0
    BY FS_EmptySet
  <2> QED BY <1>7, <2>1
<1>11. ASSUME NEW s \in SUBSET S, s # {} PROVE g[s] = F[<<Chosen(s), g[s \ {Chosen(s)}]>>]
  <2> DEFINE r == s \ {Chosen(s)}
  <2>1. r \in SUBSET S /\ Cardinality(s) = Cardinality(r) + 1 /\ Cardinality(r) \in Nat
    <3>1. Cardinality(r) = Cardinality(s) - 1
      BY <1>1, <1>8, <1>11, FS_RemoveElement
    <3>2. r \in SUBSET S
      BY <1>1, <1>11
    <3>3. Cardinality(r) \in Nat /\ Cardinality(s) \in Nat
      BY <1>8, <3>2
    <3> QED BY <3>1, <3>2, <3>3
  <2>2. f[Cardinality(s)] = Next(f[Cardinality(r)])
    <3> HIDE DEF Next, r, V, a
    <3> QED BY <1>7, <2>1
  <2>3. f[Cardinality(s)][s] = F[<<Chosen(s), f[Cardinality(r)][r]>>]
    BY <1>11, <2>2
  <2>4. g[s] = f[Cardinality(s)][s] /\ g[r] = f[Cardinality(r)][r]
    <3> HIDE DEF r
    <3> QED BY <2>1
  <2> QED BY <2>3, <2>4
<1> HIDE DEF g
<1>12. Folds(g, S, D, base, F)
  BY <1>9, <1>10, <1>11 DEF Folds
<1> QED BY <1>12

\* P is about what was visited and the result so far: it holds of the base, and each step
\* keeps it.
Preserves(P, S, D, base, F) ==
  /\ IsFiniteSet(S) /\ base \in D /\ F \in [S \X D -> D]
  /\ <<{}, base>> \in P
  /\ \A s \in SUBSET S : \A x \in S \ s : \A d \in D : <<s, d>> \in P => <<s \cup {x}, F[<<x, d>>]>> \in P

\* It then holds of the fold of every subset.
LEMMA FoldKeeps ==
  ASSUME NEW S, NEW D, NEW base, NEW F, NEW P, Preserves(P, S, D, base, F)
  PROVE  \E g : Folds(g, S, D, base, F) /\ \A s \in SUBSET S : <<s, g[s]>> \in P
<1>0. IsFiniteSet(S) /\ base \in D /\ F \in [S \X D -> D] /\ <<{}, base>> \in P
  BY DEF Preserves
<1>1. PICK g : Folds(g, S, D, base, F)
  BY <1>0, Folding
<1> DEFINE T == {s \in SUBSET S : <<s, g[s]>> \in P}
<1>2. {} \in T
  BY <1>0, <1>1 DEF Folds
<1>3. ASSUME NEW s \in SUBSET S, s # {}, s \ {Chosen(s)} \in T PROVE s \in T
  <2>1. Chosen(s) \in s
    BY <1>3 DEF Chosen
  <2>2. /\ (s \ {Chosen(s)}) \cup {Chosen(s)} = s /\ s \ {Chosen(s)} \in SUBSET S
        /\ Chosen(s) \in S \ (s \ {Chosen(s)})
    BY <2>1
  <2>3. g[s \ {Chosen(s)}] \in D /\ g[s] = F[<<Chosen(s), g[s \ {Chosen(s)}]>>]
    BY <1>0, <1>1, <1>3, <2>2 DEF Folds
  <2>4. <<s \ {Chosen(s)}, g[s \ {Chosen(s)}]>> \in P
    BY <1>3
  <2>5. <<(s \ {Chosen(s)}) \cup {Chosen(s)}, F[<<Chosen(s), g[s \ {Chosen(s)}]>>]>> \in P
    BY <2>2, <2>3, <2>4 DEF Preserves
  <2> QED BY <2>2, <2>3, <2>5
<1> HIDE DEF T
<1>4. SUBSET S \subseteq T
  BY <1>0, <1>2, <1>3, SubsetInduction
<1>5. \A s \in SUBSET S : <<s, g[s]>> \in P
  BY <1>4 DEF T
<1> QED BY <1>1, <1>5

\* g goes from a through n steps; the k-th one is G[<<k, _>>].
Walks(g, n, D, a, G) ==
  /\ g \in [0 .. n -> D]
  /\ g[0] = a
  /\ \A k \in 1 .. n : g[k] = G[<<k, g[k - 1]>>]

\* P is about the number of steps and what they led to.
Advances(P, n, D, a, G) ==
  /\ n \in Nat /\ a \in D /\ G \in [(1 .. n) \X D -> D]
  /\ <<0, a>> \in P
  /\ \A k \in 1 .. n : \A d \in D : <<k - 1, d>> \in P => <<k, G[<<k, d>>]>> \in P

\* There is such a walk, and P holds all along.
LEMMA WalkKeeps ==
  ASSUME NEW n, NEW D, NEW a, NEW G, NEW P, Advances(P, n, D, a, G)
  PROVE  \E g : Walks(g, n, D, a, G) /\ \A k \in 0 .. n : <<k, g[k]>> \in P
<1>1. n \in Nat /\ a \in D /\ G \in [(1 .. n) \X D -> D] /\ <<0, a>> \in P
  BY DEF Advances
<1> DEFINE H == [y \in Nat \X D |-> IF y[1] + 1 \in 1 .. n THEN G[<<y[1] + 1, y[2]>>] ELSE y[2]]
<1>2. H \in [Nat \X D -> D]
  BY <1>1
<1>3. \A k \in Nat, d \in D : k + 1 \in 1 .. n => H[<<k, d>>] = G[<<k + 1, d>>]
  OBVIOUS
<1> HIDE DEF H
<1>4. PICK f : Iterates(f, D, a, H)
  BY <1>1, <1>2, Iteration
<1>5. f \in [Nat -> D] /\ f[0] = a /\ \A k \in Nat : f[k + 1] = H[<<k, f[k]>>]
  BY <1>4 DEF Iterates
<1> DEFINE g == [k \in 0 .. n |-> f[k]]
           T == {k \in Nat : k <= n => <<k, f[k]>> \in P}
<1>6. ASSUME NEW k \in 1 .. n PROVE f[k] = G[<<k, f[k - 1]>>]
  <2>1. k - 1 \in Nat /\ (k - 1) + 1 = k /\ f[k - 1] \in D
    BY <1>1, <1>5
  <2>2. f[(k - 1) + 1] = H[<<k - 1, f[k - 1]>>]
    BY <1>5, <2>1
  <2>3. H[<<k - 1, f[k - 1]>>] = G[<<(k - 1) + 1, f[k - 1]>>]
    BY <1>3, <2>1
  <2> QED BY <2>1, <2>2, <2>3
<1>7. 0 \in T
  BY <1>1, <1>5
<1>8. ASSUME NEW k \in Nat, k \in T PROVE k + 1 \in T
  <2> SUFFICES ASSUME k + 1 <= n PROVE <<k + 1, f[k + 1]>> \in P
    OBVIOUS
  <2>1. k + 1 \in 1 .. n /\ (k + 1) - 1 = k /\ k <= n
    BY <1>1
  <2>2. <<k, f[k]>> \in P /\ f[k] \in D
    BY <1>5, <1>8, <2>1
  <2>3. f[k + 1] = G[<<k + 1, f[k]>>]
    BY <1>6, <2>1
  <2> QED BY <2>1, <2>2, <2>3 DEF Advances
<1> HIDE DEF T
<1>9. Nat \subseteq T
  BY <1>7, <1>8, SetInduction
<1>10. \A k \in 0 .. n : g[k] = f[k] /\ k \in Nat /\ k <= n
  BY <1>1
<1>11. \A k \in 0 .. n : <<k, g[k]>> \in P
  BY <1>9, <1>10 DEF T
<1>12. Walks(g, n, D, a, G)
  <2>1. g \in [0 .. n -> D]
    BY <1>5
  <2>2. 0 \in 0 .. n /\ \A k \in 1 .. n : k \in 0 .. n /\ k - 1 \in 0 .. n
    BY <1>1
  <2> HIDE DEF g
  <2> QED BY <1>5, <1>6, <1>10, <2>1, <2>2 DEF Walks
<1> HIDE DEF g
<1> QED BY <1>11, <1>12
=============================================================================
