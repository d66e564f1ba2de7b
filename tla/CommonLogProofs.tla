--------------------------- MODULE CommonLogProofs ----------------------------
(***************************************************************************)
(* Proofs about CommonLog: the types, with a ring that only doubles, and   *)
(* that every step of the ring and its worker is a step of the sink        *)
(* LogSink or leaves it alone.                                             *)
(***************************************************************************)
EXTENDS CommonLog, Recursion, SequenceTheorems

(***************************************************************************)
(* Arithmetic of a ring of n entries, with head h and tail t.              *)
(***************************************************************************)
\* The next index.
LEMMA Successor ==
  ASSUME NEW n \in Nat \ {0}, NEW t \in 0 .. n - 1
  PROVE  (t + 1) % n = IF t + 1 = n THEN 0 ELSE t + 1
<1>1. CASE t + 1 = n
  BY <1>1
<1>2. CASE t + 1 < n
  BY <1>2
<1> QED BY <1>1, <1>2

\* How many entries wait.
LEMMA Distance ==
  ASSUME NEW n \in Nat \ {0}, NEW h \in 0 .. n - 1, NEW t \in 0 .. n - 1
  PROVE  (t - h) % n = IF t < h THEN t - h + n ELSE t - h
<1>1. CASE t < h
  BY <1>1
<1>2. CASE h <= t
  BY <1>2
<1> QED BY <1>1, <1>2

\* Where the i-th of them is.
LEMMA Place ==
  ASSUME NEW n \in Nat \ {0}, NEW h \in 0 .. n - 1, NEW i \in 1 .. n
  PROVE  (h + i - 1) % n = IF h + i - 1 < n THEN h + i - 1 ELSE h + i - 1 - n
<1>1. CASE h + i - 1 < n
  BY <1>1
<1>2. CASE n <= h + i - 1
  BY <1>2
<1> QED BY <1>1, <1>2

\* Places that go around the ring are in it.
LEMMA PlaceInside ==
  ASSUME NEW n \in Nat \ {0}, NEW h \in 0 .. n - 1
  PROVE  \A i \in 1 .. n : (h + i - 1) % n \in 0 .. n - 1
OBVIOUS

\* With d entries waiting, s follows the tail t, which is the place of the next.
Pushed(n, h, t, s, d) ==
  /\ d \in Nat /\ d + 1 < n
  /\ (s - h) % n = d + 1
  /\ (h + (d + 1) - 1) % n = t
  /\ \A i \in 1 .. d : (h + i - 1) % n # t /\ (h + i - 1) % n \in 0 .. n - 1

\* With d entries waiting, s follows the head and is where the second one is.
Popped(n, h, t, s, d) ==
  /\ d \in 1 .. n - 1
  /\ (t - s) % n = d - 1
  /\ \A i \in 1 .. d - 1 : (s + i - 1) % n = (h + (i + 1) - 1) % n

\* An entry goes behind those that wait, when the ring stays short of full ...
LEMMA PushIndices ==
  ASSUME NEW n \in Nat \ {0}, NEW h \in 0 .. n - 1, NEW t \in 0 .. n - 1,
         (t + 1) % n # h
  PROVE  Pushed(n, h, t, (t + 1) % n, (t - h) % n)
<1> DEFINE s == (t + 1) % n
           d == (t - h) % n
<1>0. s # h
  OBVIOUS
<1>1. s = IF t + 1 = n THEN 0 ELSE t + 1
  BY Successor
<1>2. d = IF t < h THEN t - h + n ELSE t - h
  BY Distance
<1> HIDE DEF s, d
<1>3. s \in 0 .. n - 1 /\ d \in Nat /\ d + 1 < n
  BY <1>0, <1>1, <1>2
<1>4. (s - h) % n = IF s < h THEN s - h + n ELSE s - h
  BY <1>3, Distance
<1>5. \A i \in 1 .. n : (h + i - 1) % n = IF h + i - 1 < n THEN h + i - 1 ELSE h + i - 1 - n
  BY Place
<1>6. (s - h) % n = d + 1
  BY <1>0, <1>1, <1>2, <1>4
<1>7. (h + (d + 1) - 1) % n = t
  <2>1. d + 1 \in 1 .. n
    BY <1>3
  <2> QED BY <1>2, <1>5, <2>1
<1>8. \A i \in 1 .. d : (h + i - 1) % n # t /\ (h + i - 1) % n \in 0 .. n - 1
  BY <1>2, <1>3, <1>5
<1>9. Pushed(n, h, t, s, d)
  BY <1>3, <1>6, <1>7, <1>8 DEF Pushed
<1> QED BY <1>9 DEF s, d

\* ... and when it fills the ring.
LEMMA FillIndices ==
  ASSUME NEW n \in Nat \ {0}, NEW h \in 0 .. n - 1, NEW t \in 0 .. n - 1, (t + 1) % n = h
  PROVE  /\ (t - h) % n = n - 1
         /\ (h + n - 1) % n = t
         /\ \A i \in 1 .. n - 1 : (h + i - 1) % n # t /\ (h + i - 1) % n \in 0 .. n - 1
<1>1. h = IF t + 1 = n THEN 0 ELSE t + 1
  BY Successor
<1>2. (t - h) % n = n - 1
  <2>1. (t - h) % n = IF t < h THEN t - h + n ELSE t - h
    BY Distance
  <2> QED BY <1>1, <2>1
<1>3. \A i \in 1 .. n : (h + i - 1) % n = IF h + i - 1 < n THEN h + i - 1 ELSE h + i - 1 - n
  BY Place
<1>4. (h + n - 1) % n = t
  BY <1>1, <1>3
<1>5. \A i \in 1 .. n - 1 : (h + i - 1) % n # t /\ (h + i - 1) % n \in 0 .. n - 1
  BY <1>1, <1>3
<1> QED BY <1>2, <1>4, <1>5

\* The oldest entry goes.
LEMMA PopIndices ==
  ASSUME NEW n \in Nat \ {0}, NEW h \in 0 .. n - 1, NEW t \in 0 .. n - 1, h # t
  PROVE  Popped(n, h, t, (h + 1) % n, (t - h) % n)
<1> DEFINE s == (h + 1) % n
           d == (t - h) % n
<1>1. s = IF h + 1 = n THEN 0 ELSE h + 1
  BY Successor
<1>2. d = IF t < h THEN t - h + n ELSE t - h
  BY Distance
<1> HIDE DEF s, d
<1>3. s \in 0 .. n - 1 /\ d \in 1 .. n - 1
  BY <1>1, <1>2
<1>4. (t - s) % n = IF t < s THEN t - s + n ELSE t - s
  BY <1>3, Distance
<1>5. (t - s) % n = d - 1
  BY <1>1, <1>2, <1>4
<1>6. \A i \in 1 .. d - 1 : (s + i - 1) % n = (h + (i + 1) - 1) % n
  <2> TAKE i \in 1 .. d - 1
  <2>1. i \in 1 .. n /\ i + 1 \in 1 .. n
    BY <1>3
  <2>2. (s + i - 1) % n = IF s + i - 1 < n THEN s + i - 1 ELSE s + i - 1 - n
    BY <1>3, <2>1, Place
  <2>3. (h + (i + 1) - 1) % n = IF h + (i + 1) - 1 < n THEN h + (i + 1) - 1 ELSE h + (i + 1) - 1 - n
    BY <2>1, Place
  <2> QED BY <1>1, <1>3, <2>1, <2>2, <2>3
<1>7. Popped(n, h, t, s, d)
  BY <1>3, <1>5, <1>6 DEF Popped
<1> QED BY <1>7 DEF s, d
-----------------------------------------------------------------------------
\* The recursion of Doubled is well founded.
LEMMA DoubledFacts ==
  /\ Doubled \in [Nat -> Nat \ {0}]
  /\ Doubled[0] = Capacity
  /\ \A n \in Nat : Doubled[n + 1] = 2 * Doubled[n]
<1> DEFINE Sizes == Nat \ {0}
           G == [p \in Nat \X Sizes |-> 2 * p[2]]
<1>1. G \in [Nat \X Sizes -> Sizes]
  OBVIOUS
<1>2. PICK f : Iterates(f, Sizes, Capacity, G)
  <2> HIDE DEF G, Sizes
  <2>1. Capacity \in Sizes
    BY CapacityAssumption DEF Sizes
  <2> QED BY <1>1, <2>1, Iteration
<1>3. f \in [Nat -> Sizes] /\ f[0] = Capacity /\ \A n \in Nat : f[n + 1] = 2 * f[n]
  BY <1>2 DEF Iterates
<1> HIDE DEF G
<1>4. f = [n \in Nat |-> IF n = 0 THEN Capacity ELSE 2 * f[n - 1]]
  <2>1. \A n \in Nat : f[n] = IF n = 0 THEN Capacity ELSE 2 * f[n - 1]
    BY <1>3
  <2> QED BY <1>3, <2>1
<1>5. Doubled = [n \in Nat |-> IF n = 0 THEN Capacity ELSE 2 * Doubled[n - 1]]
  BY <1>4 DEF Doubled
<1>6. \A n \in Nat : Doubled[n] = IF n = 0 THEN Capacity ELSE 2 * Doubled[n - 1]
  BY <1>5
<1>7. Doubled[0] = Capacity /\ \A n \in Nat : Doubled[n + 1] = 2 * Doubled[n]
  BY <1>6
<1>8. \A n \in Nat : Doubled[n] \in Sizes
  <2> DEFINE T == {n \in Nat : Doubled[n] \in Sizes}
  <2>1. 0 \in T
    BY <1>7, CapacityAssumption
  <2>2. \A n \in Nat : n \in T => n + 1 \in T
    BY <1>7
  <2> HIDE DEF T
  <2>3. Nat \subseteq T
    BY <2>1, <2>2, SetInduction
  <2> QED BY <2>3 DEF T
<1>9. Doubled \in [Nat -> Sizes]
  BY <1>5, <1>8
<1> QED BY <1>7, <1>9

\* What the types say of the ring.
LEMMA RingFacts ==
  ASSUME TypeOK
  PROVE  /\ Size \in Nat \ {0}
         /\ entries \in [1 .. Size -> EntryType]
         /\ Count \in 0 .. Size
         /\ ~Full => Count \in 0 .. Size - 1 /\ (Count = 0 <=> head = tail)
         /\ \A i \in 1 .. Count : Waiting[i] \in EntryType
         /\ NoEntry \in EntryType
<1>1. Size \in Nat \ {0}
  BY DoubledFacts DEF TypeOK
<1>2. entries \in [1 .. Size -> EntryType]
  BY DEF TypeOK, Size
<1>a. head \in 0 .. Size - 1 /\ tail \in 0 .. Size - 1
  BY DEF TypeOK
<1>3. ~Full => Count = IF tail < head THEN tail - head + Size ELSE tail - head
  BY <1>1, <1>a, Distance DEF Count
<1>b. Full => Count = Size
  BY DEF Count
<1>4. /\ Count \in 0 .. Size
      /\ ~Full => Count \in 0 .. Size - 1 /\ (Count = 0 <=> head = tail)
  BY <1>1, <1>3, <1>a, <1>b
<1>5. \A i \in 1 .. Count : (head + i - 1) % Size \in 0 .. Size - 1
  BY <1>1, <1>4, <1>a, PlaceInside
<1>6. \A i \in 1 .. Count : Waiting[i] \in EntryType
  BY <1>1, <1>2, <1>5 DEF Waiting, Entry
<1>7. NoEntry \in EntryType
  BY BoundAssumption DEF TypeOK, NoEntry, EntryType
<1> QED BY <1>1, <1>2, <1>4, <1>6, <1>7

\* The message common_log::add stores.
Logged == [msg |-> sent + 1, dest |-> file, is_end |-> FALSE]

\* What adding a message does to the memory of the ring.
LEMMA AddRing ==
  ASSUME TypeOK, Add
  PROVE  LET ring == [entries EXCEPT ![tail + 1] = Logged]
         IN  /\ ring \in [1 .. Size -> EntryType]
             /\ \/ /\ Succ(tail) # head
                   /\ entries' = ring /\ Size' = Size
                   /\ head' = head /\ tail' = Succ(tail)
                \/ /\ Succ(tail) = head
                   /\ entries' \in Seq(EntryType) /\ Size' = Size + Size
                   /\ \A i \in 1 .. Size : entries'[i] = ring[1 + ((head + i - 1) % Size)]
                   /\ head' = 0 /\ tail' = Size
<1> DEFINE ring == [entries EXCEPT ![tail + 1] = Logged]
           more == [i \in 1 .. Size |-> NoEntry]
<1>1. Size \in Nat \ {0} /\ entries \in [1 .. Size -> EntryType] /\ NoEntry \in EntryType
  BY RingFacts
<1>2. Logged \in EntryType
  BY BoundAssumption DEF Add, TypeOK, EntryType, Logged
<1>3. ring \in [1 .. Size -> EntryType]
  BY <1>1, <1>2 DEF TypeOK
<1>4. CASE Succ(tail) # head
  <2>1. entries' = ring /\ tail' = Succ(tail) /\ head' = head
    BY <1>4 DEF Add, Logged
  <2>2. Size' = Size
    BY <1>3, <2>1 DEF Size, TypeOK
  <2> QED BY <1>3, <1>4, <2>1, <2>2
<1>5. CASE Succ(tail) = head
  <2>1. entries' = Unrolled(ring) \o more /\ tail' = Size /\ head' = 0
    BY <1>5 DEF Add, Logged
  <2>2. more \in Seq(EntryType) /\ Len(more) = Size
    BY <1>1
  <2>3. Len(ring) = Size
    BY <1>1, <1>3
  <2>4. \A i \in 1 .. Size : (head + i - 1) % Size \in 0 .. Size - 1
    BY <1>1, PlaceInside DEF TypeOK
  <2>5. \A i \in 1 .. Size : ring[1 + ((head + i - 1) % Size)] \in EntryType
    BY <1>1, <1>3, <2>4
  <2> HIDE DEF more, ring
  <2>6. /\ Unrolled(ring) \in [1 .. Size -> EntryType]
        /\ \A i \in 1 .. Size : Unrolled(ring)[i] = ring[1 + ((head + i - 1) % Size)]
    BY <2>3, <2>5 DEF Unrolled
  <2>7. Unrolled(ring) \in Seq(EntryType) /\ Len(Unrolled(ring)) = Size
    BY <1>1, <2>6
  <2>8. /\ entries' \in Seq(EntryType)
        /\ Len(entries') = Len(Unrolled(ring)) + Len(more)
        /\ \A i \in 1 .. Len(Unrolled(ring)) + Len(more) : entries'[i] =
             IF i <= Len(Unrolled(ring)) THEN Unrolled(ring)[i] ELSE more[i - Len(Unrolled(ring))]
    BY <2>1, <2>2, <2>7, ConcatProperties
  <2>9. /\ Len(entries') = Size + Size
        /\ \A i \in 1 .. Size : entries'[i] = Unrolled(ring)[i]
    BY <1>1, <2>2, <2>7, <2>8
  <2>10. Size' = Size + Size
    BY <2>9 DEF Size
  <2>11. \A i \in 1 .. Size : entries'[i] = ring[1 + ((head + i - 1) % Size)]
    BY <2>6, <2>9
  <2>12. ring = [entries EXCEPT ![tail + 1] = Logged]
    BY DEF ring
  <2> QED BY <1>3, <1>5, <2>1, <2>8, <2>10, <2>11, <2>12
<1> QED BY <1>4, <1>5

\* Adding a message keeps the types.
LEMMA AddTypes == ASSUME TypeOK, Add PROVE TypeOK'
<1>1. Size \in Nat \ {0}
  BY RingFacts
<1>2. PICK n \in 0 .. sent : Size = Doubled[n]
  BY DEF TypeOK
<1>3. sent' = sent + 1 /\ sent' \in 0 .. MaxMsgs
  BY BoundAssumption DEF Add, TypeOK
<1>4. /\ worker' \in {"none", "check", "sleep", "print", "exit"}
      /\ UNCHANGED <<running, file, cur, control, printed>>
  BY DEF Add, Notified, TypeOK
<1>5. entries' \in Seq(EntryType)
  BY <1>1, AddRing
<1>6. CASE Succ(tail) # head
  <2>1. Size' = Size /\ tail' = Succ(tail) /\ head' = head
    BY <1>6, AddRing
  <2>2. tail' \in 0 .. Size' - 1
    BY <1>1, <2>1, Successor DEF Succ, TypeOK
  <2>3. n \in 0 .. sent'
    BY <1>3 DEF TypeOK
  <2> QED BY <1>2, <1>3, <1>4, <1>5, <2>1, <2>2, <2>3 DEF TypeOK
<1>7. CASE Succ(tail) = head
  <2>1. Size' = Size + Size /\ tail' = Size /\ head' = 0
    BY <1>7, AddRing
  <2>2. n + 1 \in 0 .. sent' /\ Size' = Doubled[n + 1]
    BY <1>1, <1>2, <1>3, <2>1, DoubledFacts DEF TypeOK
  <2>3. head' \in 0 .. Size' - 1 /\ tail' \in 0 .. Size' - 1
    BY <1>1, <2>1
  <2> QED BY <1>3, <1>4, <1>5, <2>2, <2>3 DEF TypeOK
<1> QED BY <1>6, <1>7

\* A ring with one free entry, which is at its tail.
LEMMA FillFacts ==
  ASSUME TypeOK, ~Full, Succ(tail) = head
  PROVE  /\ Count = Size - 1 /\ (head + Size - 1) % Size = tail
         /\ \A i \in 1 .. Size - 1 : (head + i - 1) % Size # tail /\ (head + i - 1) % Size \in 0 .. Size - 1
<1>1. Size \in Nat \ {0} /\ head \in 0 .. Size - 1 /\ tail \in 0 .. Size - 1
  BY RingFacts DEF TypeOK
<1>2. (tail + 1) % Size = head /\ Count = (tail - head) % Size
  BY DEF Succ, Count
<1> QED BY <1>1, <1>2, FillIndices, ZenonT(60)

\* The message goes behind those that wait, in their order, also when the ring
\* is expanded.
LEMMA AddView ==
  ASSUME TypeOK, Add, ~Full
  PROVE  /\ Count' = Count + 1
         /\ Waiting'[Count + 1] = Logged
         /\ \A i \in 1 .. Count : Waiting'[i] = Waiting[i]
<1> DEFINE ring  == [entries EXCEPT ![tail + 1] = Logged]
           at(i) == (head + i - 1) % Size
<1>1. /\ Size \in Nat \ {0} /\ entries \in [1 .. Size -> EntryType]
      /\ head \in 0 .. Size - 1 /\ tail \in 0 .. Size - 1
      /\ Count \in 0 .. Size - 1
  BY RingFacts DEF TypeOK
<1>2. /\ ring[tail + 1] = Logged
      /\ \A j \in 0 .. Size - 1 : j # tail => ring[j + 1] = entries[j + 1]
  BY <1>1
<1>3. \A i \in 1 .. Count : Waiting[i] = entries[at(i) + 1]
  BY DEF Waiting, Entry
<1>4. CASE Succ(tail) # head
  <2>1. entries' = ring /\ Size' = Size /\ head' = head /\ tail' = Succ(tail)
    BY <1>4, AddRing
  <2>2. /\ (Succ(tail) - head) % Size = Count + 1
        /\ at(Count + 1) = tail
        /\ \A i \in 1 .. Count : at(i) # tail /\ at(i) \in 0 .. Size - 1
    <3>1. Succ(tail) = (tail + 1) % Size /\ Count = (tail - head) % Size
      BY DEF Succ, Count
    <3>2. (tail + 1) % Size # head
      BY <1>4, <3>1
    <3>3. Pushed(Size, head, tail, (tail + 1) % Size, (tail - head) % Size)
      BY <1>1, <3>2, PushIndices
    <3>4. Pushed(Size, head, tail, Succ(tail), Count)
      BY <3>1, <3>3
    <3> QED BY <3>4 DEF Pushed
  <2>3. Count' = Count + 1
    <3>1. head' # tail'
      BY <1>4, <2>1
    <3> QED BY <2>1, <2>2, <3>1 DEF Count, Full
  <2>4. \A i \in 1 .. Count + 1 : Waiting'[i] = ring[at(i) + 1]
    BY <2>1, <2>3 DEF Waiting, Entry
  <2> HIDE DEF ring, at
  <2>5. Waiting'[Count + 1] = Logged
    BY <1>1, <1>2, <2>2, <2>4, SMTT(40)
  <2>6. ASSUME NEW i \in 1 .. Count PROVE Waiting'[i] = Waiting[i]
    <3>1. at(i) \in 0 .. Size - 1 /\ at(i) # tail
      BY <1>1, <2>2
    <3>2. ring[at(i) + 1] = entries[at(i) + 1]
      BY <1>2, <3>1
    <3>3. Waiting'[i] = ring[at(i) + 1]
      BY <1>1, <2>4, <3>1
    <3> QED BY <1>3, <3>2, <3>3
  <2> QED BY <2>3, <2>5, <2>6
<1>5. CASE Succ(tail) = head
  <2>1. /\ Size' = Size + Size /\ head' = 0 /\ tail' = Size
        /\ \A i \in 1 .. Size : entries'[i] = ring[1 + at(i)]
    BY <1>5, AddRing
  <2>2. Count = Size - 1 /\ at(Size) = tail
        /\ \A i \in 1 .. Size - 1 : at(i) # tail /\ at(i) \in 0 .. Size - 1
    BY <1>1, <1>5, FillFacts
  <2>3. Count' = Size
    <3>1. /\ Size + Size \in Nat \ {0}
          /\ 0 \in 0 .. (Size + Size) - 1
          /\ Size \in 0 .. (Size + Size) - 1
      BY <1>1
    <3>2. (Size - 0) % (Size + Size) = Size
      BY <1>1, <3>1, Distance
    <3>3. head' # tail'
      BY <1>1, <2>1
    <3> QED BY <2>1, <3>2, <3>3 DEF Count, Full
  <2>4. \A i \in 1 .. Size : (0 + i - 1) % (Size + Size) = i - 1
    BY <1>1
  <2> HIDE DEF ring, at
  <2>5. \A i \in 1 .. Size : Waiting'[i] = ring[1 + at(i)]
    <3>1. \A i \in 1 .. Size : Waiting'[i] = entries'[((0 + i - 1) % (Size + Size)) + 1]
      BY <2>1, <2>3 DEF Waiting, Entry
    <3>2. \A i \in 1 .. Size : Waiting'[i] = entries'[i]
      BY <1>1, <2>4, <3>1
    <3> QED BY <2>1, <3>2
  <2>6. Waiting'[Count + 1] = Logged
    BY <1>1, <1>2, <2>2, <2>5
  <2>7. ASSUME NEW i \in 1 .. Count PROVE Waiting'[i] = Waiting[i]
    <3>1. at(i) \in 0 .. Size - 1 /\ at(i) # tail
      BY <1>1, <2>2
    <3>2. ring[at(i) + 1] = entries[at(i) + 1]
      BY <1>2, <3>1
    <3>3. Waiting'[i] = ring[at(i) + 1]
      BY <1>1, <2>5, <3>1
    <3> QED BY <1>3, <3>2, <3>3
  <2> QED BY <1>1, <2>2, <2>3, <2>6, <2>7
<1> QED BY <1>4, <1>5

\* Taking an entry keeps the types.
LEMMA TakeTypes == ASSUME TypeOK, Take, head # tail PROVE TypeOK'
<1>1. /\ Size \in Nat \ {0} /\ entries \in [1 .. Size -> EntryType]
      /\ head \in 0 .. Size - 1
  BY RingFacts DEF TypeOK
<1>2. /\ cur' = Entry(head) /\ head' = Succ(head)
      /\ UNCHANGED <<entries, tail>> /\ Size' = Size
      /\ worker' \in {"print", "exit"}
      /\ UNCHANGED <<running, file, control, sent, printed>>
  BY DEF Take, Size
<1>3. cur' \in EntryType
  BY <1>1, <1>2 DEF Entry
<1>4. Succ(head) \in 0 .. Size - 1
  BY <1>1, Successor DEF Succ
<1> QED BY <1>2, <1>3, <1>4 DEF TypeOK

\* The worker takes the oldest entry.
LEMMA TakeView ==
  ASSUME TypeOK, Take, head # tail, ~Full'
  PROVE  /\ Count # 0 /\ cur' = Waiting[1] /\ cur' \in EntryType
         /\ TypeOK'
         /\ Count' = Count - 1
         /\ \A i \in 1 .. Count' : Waiting'[i] = Waiting[i + 1]
<1>1. /\ Size \in Nat \ {0} /\ entries \in [1 .. Size -> EntryType]
      /\ head \in 0 .. Size - 1 /\ tail \in 0 .. Size - 1
      /\ Count \in 1 .. Size - 1
      /\ \A i \in 1 .. Count : Waiting[i] \in EntryType
  BY RingFacts DEF TypeOK, Full
<1>2. /\ cur' = Entry(head) /\ head' = Succ(head)
      /\ UNCHANGED <<entries, tail>> /\ Size' = Size
      /\ worker = "check" /\ worker' \in {"print", "exit"}
      /\ UNCHANGED <<running, file, control, sent, printed>>
  BY DEF Take, Size
<1>3. Popped(Size, head, tail, Succ(head), Count)
  BY <1>1, PopIndices DEF Succ, Count, Full
<1>4. Count' = Count - 1
  BY <1>2, <1>3 DEF Popped, Count
<1>5. ASSUME NEW i \in 1 .. Count' PROVE Waiting'[i] = Waiting[i + 1]
  <2>1. i \in 1 .. Count - 1 /\ i + 1 \in 1 .. Count
    BY <1>1, <1>4
  <2>2. Waiting'[i] = entries[((Succ(head) + i - 1) % Size) + 1]
    BY <1>2 DEF Waiting, Entry
  <2>3. Waiting[i + 1] = entries[((head + (i + 1) - 1) % Size) + 1]
    BY <2>1 DEF Waiting, Entry
  <2>4. (Succ(head) + i - 1) % Size = (head + (i + 1) - 1) % Size
    BY <1>3, <2>1 DEF Popped
  <2> QED BY <2>2, <2>3, <2>4
<1>6. cur' = Waiting[1]
  <2>1. (head + 1 - 1) % Size = head
    BY <1>1, Place
  <2>2. 1 \in 1 .. Count
    BY <1>1
  <2> QED BY <1>2, <2>1, <2>2 DEF Waiting, Entry
<1>7. TypeOK' /\ cur' \in EntryType
  BY TakeTypes DEF TypeOK
<1> QED BY <1>1, <1>4, <1>5, <1>6, <1>7

\* common_log::pause keeps the types, also on a ring with one free entry left.
LEMMA PauseTypes ==
  ASSUME TypeOK, NEW next \in {"join", "join_file"}, PauseRunning(next)
  PROVE  TypeOK' /\ Size' = Size
<1>1. /\ Size \in Nat \ {0} /\ entries \in [1 .. Size -> EntryType]
      /\ head \in 0 .. Size - 1 /\ tail \in 0 .. Size - 1
  BY RingFacts DEF TypeOK
<1>2. /\ entries' = [entries EXCEPT ![tail + 1].is_end = TRUE]
      /\ tail' = Succ(tail) /\ worker' = Notified /\ control' = next /\ running' = FALSE
      /\ UNCHANGED <<head, file, cur, sent, printed>>
  BY DEF PauseRunning
<1>3. [entries[tail + 1] EXCEPT !.is_end = TRUE] \in EntryType
  <2>1. entries[tail + 1] \in EntryType
    BY <1>1
  <2> QED BY <2>1 DEF EntryType
<1>4. entries' \in [1 .. Size -> EntryType]
  BY <1>1, <1>2, <1>3
<1>5. entries' \in Seq(EntryType) /\ Size' = Size
  <2>1. Len(entries') = Len(entries)
    BY <1>2 DEF TypeOK
  <2> QED BY <1>1, <1>4, <2>1 DEF Size
<1>6. Succ(tail) \in 0 .. Size - 1
  BY <1>1, Successor DEF Succ
<1>7. worker' \in {"none", "check", "sleep", "print", "exit"}
  BY <1>2 DEF Notified, TypeOK
<1> QED BY <1>2, <1>5, <1>6, <1>7 DEF TypeOK

\* The entry that ends the worker goes behind those that wait, also when it fills
\* the ring.
LEMMA PauseView ==
  ASSUME TypeOK, NEW next \in {"join", "join_file"}, PauseRunning(next), worker # "exit"
  PROVE  /\ Count' = Count + 1
         /\ Waiting'[Count + 1].is_end
         /\ \A i \in 1 .. Count : Waiting'[i] = Waiting[i]
<1> DEFINE at(i) == (head + i - 1) % Size
<1>1. /\ Size \in Nat \ {0} /\ entries \in [1 .. Size -> EntryType]
      /\ head \in 0 .. Size - 1 /\ tail \in 0 .. Size - 1
      /\ Count \in 0 .. Size
  BY RingFacts DEF TypeOK
<1>2. /\ entries' = [entries EXCEPT ![tail + 1].is_end = TRUE]
      /\ tail' = Succ(tail) /\ head' = head /\ Size' = Size
  BY PauseTypes DEF PauseRunning
<1>3. /\ entries'[tail + 1].is_end
      /\ \A j \in 0 .. Size - 1 : j # tail => entries'[j + 1] = entries[j + 1]
  <2>1. entries[tail + 1] \in EntryType /\ tail + 1 \in 1 .. Size
    BY <1>1
  <2>0. entries' = [entries EXCEPT ![tail + 1] = [entries[tail + 1] EXCEPT !.is_end = TRUE]]
    BY <1>2
  <2>2. entries'[tail + 1] = [entries[tail + 1] EXCEPT !.is_end = TRUE]
    BY <1>1, <2>0, <2>1
  <2>3. entries'[tail + 1].is_end
    BY <2>1, <2>2 DEF EntryType
  <2> QED BY <1>1, <1>2, <2>3
<1>0. ~Full /\ control' \in {"join", "join_file"} /\ worker' # "exit"
  BY DEF PauseRunning, Notified, Full, Joining
<1>4. Count' = Count + 1
  <2>1. CASE Succ(tail) # head
    <3>1. Pushed(Size, head, tail, Succ(tail), Count)
      BY <1>0, <1>1, <2>1, PushIndices DEF Succ, Count
    <3> QED BY <1>2, <2>1, <3>1 DEF Pushed, Count, Full
  <2>2. CASE Succ(tail) = head
    <3>1. Count = Size - 1
      BY <1>0, <2>2, FillFacts
    <3>2. Full'
      BY <1>0, <1>2, <2>2 DEF Full, Joining
    <3> QED BY <1>1, <1>2, <3>1, <3>2 DEF Count
  <2> QED BY <2>1, <2>2
<1>5. at(Count + 1) = tail /\ \A i \in 1 .. Count : at(i) # tail /\ at(i) \in 0 .. Size - 1
  <2>1. CASE Succ(tail) # head
    <3>1. Pushed(Size, head, tail, Succ(tail), Count)
      BY <1>0, <1>1, <2>1, PushIndices DEF Succ, Count
    <3> QED BY <3>1 DEF Pushed
  <2>2. CASE Succ(tail) = head
    <3>1. Count = Size - 1
      BY <1>0, <2>2, FillFacts
    <3>2. Count + 1 = Size
      BY <1>1, <3>1
    <3> QED BY <1>0, <2>2, <3>1, <3>2, FillFacts
  <2> QED BY <2>1, <2>2
<1>6. \A i \in 1 .. Count : Waiting[i] = entries[at(i) + 1]
  BY DEF Waiting, Entry
<1>7. \A i \in 1 .. Count + 1 : Waiting'[i] = entries'[at(i) + 1]
  BY <1>2, <1>4 DEF Waiting, Entry
<1> HIDE DEF at
<1>8. Waiting'[Count + 1].is_end
  <2>1. Count + 1 \in 1 .. Count + 1
    BY <1>1
  <2> QED BY <1>3, <1>5, <1>7, <2>1
<1>9. ASSUME NEW i \in 1 .. Count PROVE Waiting'[i] = Waiting[i]
  <2>1. i \in 1 .. Count + 1
    BY <1>1
  <2> QED BY <1>3, <1>5, <1>6, <1>7, <2>1
<1> QED BY <1>4, <1>8, <1>9
-----------------------------------------------------------------------------
\* A new log has the types.
LEMMA InitTypes == Init => TypeOK
<1> SUFFICES ASSUME Init PROVE TypeOK
  OBVIOUS
<1>1. NoEntry \in EntryType
  BY BoundAssumption DEF Init, NoEntry, EntryType
<1>2. entries \in [1 .. Capacity -> EntryType]
  BY <1>1 DEF Init
<1>3. entries \in Seq(EntryType) /\ Len(entries) = Capacity
  BY <1>2, CapacityAssumption DEF Init
<1>4. Size = Doubled[0]
  BY <1>3, DoubledFacts DEF Size
<1>5. 0 \in 0 .. sent /\ sent \in 0 .. MaxMsgs
  BY BoundAssumption DEF Init
<1>6. printed \in Seq((0 .. MaxMsgs) \X Files)
  BY DEF Init
<1>7. head \in 0 .. Size - 1 /\ tail \in 0 .. Size - 1
  BY <1>3, CapacityAssumption DEF Init, Size
<1> QED BY <1>1, <1>3, <1>4, <1>5, <1>6, <1>7 DEF Init, TypeOK

\* Printing keeps the types.
LEMMA PrintTypes == ASSUME TypeOK, PrintEntry PROVE TypeOK' /\ Size' = Size
<1>1. <<cur.msg, file>> \in (0 .. MaxMsgs) \X Files
  BY DEF TypeOK, EntryType
<1>2. printed' \in Seq((0 .. MaxMsgs) \X Files)
  BY <1>1 DEF PrintEntry, TypeOK
<1> QED BY <1>2 DEF PrintEntry, TypeOK, ringVars, Size

\* The other steps leave the ring alone.
Calm == \/ Discard \/ Spurious \/ Join \/ SetFile \/ Resume
        \/ control = "idle" /\ ~running /\ control' = "file"
             /\ UNCHANGED <<ringVars, running, file, worker, cur, sent, printed>>
        \/ Take /\ head = tail
        \/ UNCHANGED vars

\* They keep the types, and the ring as it is.
LEMMA CalmTypes == ASSUME TypeOK, Calm PROVE TypeOK' /\ UNCHANGED <<entries, head, tail>>
<1>1. UNCHANGED <<entries, head, tail>> /\ Size' = Size
  BY DEF Calm, Discard, Spurious, Join, SetFile, Resume, Take, ringVars, vars, Size
<1>2. sent' \in 0 .. MaxMsgs /\ sent' >= sent
  BY BoundAssumption DEF Calm, Discard, Spurious, Join, SetFile, Resume, Take, TypeOK, vars
<1>3. \E n \in 0 .. sent' : Size = Doubled[n]
  BY <1>2 DEF TypeOK
<1>4. /\ running' \in BOOLEAN
      /\ worker' \in {"none", "check", "sleep", "print", "exit"}
      /\ control' \in {"idle", "join", "join_file", "file", "resume"}
  BY DEF Calm, Discard, Spurious, Join, SetFile, Resume, Take, TypeOK, vars
<1>5. file' \in Files /\ cur' \in EntryType /\ printed' = printed
  BY DEF Calm, Discard, Spurious, Join, SetFile, Resume, Take, TypeOK, vars
<1> QED BY <1>1, <1>2, <1>3, <1>4, <1>5 DEF TypeOK

\* The steps of the log, by what they do to the ring.
LEMMA Steps ==
  ASSUME TypeOK, [Next]_vars
  PROVE  \/ Add \/ PrintEntry \/ Calm
         \/ Take /\ head # tail
         \/ \E next \in {"join", "join_file"} : PauseRunning(next)
BY DEF Next, Calm, Pause, SetFilePause

\* Every step keeps the types.
LEMMA StepTypes == ASSUME TypeOK, [Next]_vars PROVE TypeOK'
BY Steps, AddTypes, TakeTypes, PrintTypes, PauseTypes, CalmTypes

\* The types, for a ring of any size and any number of messages: every index is
\* inside the ring, the ring is never smaller than it was and only ever doubles.
THEOREM LogTypes == Spec => []TypeOK
<1> QED BY InitTypes, StepTypes, PTL DEF Spec
-----------------------------------------------------------------------------
(***************************************************************************)
(* The order of the ring and the worker's life, also when a pause has      *)
(* filled the ring.                                                        *)
(***************************************************************************)
\* While messages are accepted none of the waiting entries ends the worker; a
\* pause puts one that does behind all others; when the worker has ended, and
\* until it is started again, nothing waits.
Phases ==
  \/ /\ running /\ control = "idle" /\ worker \in {"check", "sleep", "print"}
     /\ \A i \in 1 .. Count : ~Waiting[i].is_end
  \/ /\ ~running /\ control \in {"join", "join_file"}
     /\ worker \in {"check", "print"} \/ (Full /\ worker = "sleep")
     /\ Count # 0 /\ Waiting[Count].is_end
     /\ \A i \in 1 .. Count - 1 : ~Waiting[i].is_end
  \/ /\ ~running /\ control \in {"join", "join_file"} /\ worker = "exit" /\ Count = 0
  \/ /\ ~running /\ control \in {"idle", "file", "resume"} /\ worker = "none" /\ Count = 0

\* The file has not changed since a message that waits was logged.
SameFile ==
  /\ worker = "print" => cur.dest = file
  /\ \A i \in 1 .. Count : ~Waiting[i].is_end => Waiting[i].dest = file

LogInv == TypeOK /\ Phases /\ SameFile

\* How many of the waiting entries are messages.
LEMMA AcceptedFacts ==
  ASSUME LogInv
  PROVE  /\ Count \in Nat
         /\ running => Accepted = Count
         /\ worker \in {"exit", "none"} => Accepted = 0
         /\ ~running /\ worker \in {"check", "sleep", "print"} => Count # 0 /\ Accepted = Count - 1
         /\ Accepted \in 0 .. Count
         /\ \A i \in 1 .. Accepted : ~Waiting[i].is_end
         /\ \A i \in 1 .. Count : Waiting[i] \in EntryType
<1>1. Count \in Nat /\ \A i \in 1 .. Count : Waiting[i] \in EntryType
  BY RingFacts DEF LogInv
<1>2. Count # 0 => Count \in 1 .. Count
  BY <1>1
<1> QED BY <1>1, <1>2 DEF LogInv, Phases, Accepted

\* What is pending is a sequence of messages with their files.
Items == (0 .. MaxMsgs) \X Files

\* They are as many as were accepted, and the worker holds one only while it prints.
LEMMA PendingTypes ==
  ASSUME LogInv
  PROVE  /\ Messages \in Seq(Items) /\ Len(Messages) = Accepted
         /\ InHand \in Seq(Items)
         /\ worker # "print" => InHand = <<>>
<1>1. \A e \in EntryType : Item(e) \in Items
  BY DEF EntryType, Item, Items
<1>2. \A i \in 1 .. Accepted : Item(Waiting[i]) \in Items
  BY <1>1, AcceptedFacts
<1>3. Messages \in [1 .. Accepted -> Items] /\ Accepted \in Nat
  BY <1>2, AcceptedFacts DEF Messages
<1>4. Messages \in Seq(Items) /\ Len(Messages) = Accepted
  BY <1>3
<1>5. Item(cur) \in Items
  BY <1>1 DEF LogInv, TypeOK
<1> QED BY <1>4, <1>5 DEF InHand

\* A step that leaves the ring alone leaves what waits alone, unless it lets a
\* pause return.
LEMMA SameView ==
  ASSUME UNCHANGED <<entries, head, tail, Full>>
  PROVE  UNCHANGED <<Count, Waiting, Accepted, Messages>>
BY DEF Count, Waiting, Accepted, Messages, Entry, Size

\* A new log is empty, and so is the sink.
LEMMA LogInit == Init => LogInv /\ Sink!Init
<1> SUFFICES ASSUME Init PROVE LogInv /\ Sink!Init
  OBVIOUS
<1>1. TypeOK
  BY InitTypes
<1>2. Count = 0
  BY <1>1, RingFacts DEF Init, Full, Joining
<1>3. LogInv
  BY <1>1, <1>2 DEF Init, LogInv, Phases, SameFile
<1>4. Accepted = 0
  BY <1>2 DEF Accepted
<1>5. Messages = <<>> /\ InHand = <<>>
  BY <1>4 DEF Init, Messages, InHand
<1>6. Pending = <<>>
  BY <1>5 DEF Pending
<1> QED BY <1>3, <1>6 DEF Init, Sink!Init

\* Adding a message logs it in the sink.
LEMMA AddStep ==
  ASSUME LogInv, Add
  PROVE  LogInv' /\ Sink!Log
<1>1. TypeOK' /\ Count \in Nat
  BY AddTypes, AcceptedFacts DEF LogInv
<1>2. /\ Count' = Count + 1
      /\ Waiting'[Count + 1] = Logged
      /\ \A i \in 1 .. Count : Waiting'[i] = Waiting[i]
  <2>1. ~Full
    BY DEF Add, LogInv, Phases, Full, Joining
  <2> QED BY <2>1, AddView DEF LogInv
<1>3. /\ running /\ UNCHANGED <<running, file, cur, control, printed>>
      /\ worker' = Notified /\ sent < MaxMsgs
  BY DEF Add
<1>4. /\ control = "idle" /\ worker \in {"check", "sleep", "print"}
      /\ \A i \in 1 .. Count : ~Waiting[i].is_end
  BY <1>3 DEF LogInv, Phases
<1>5. \A i \in 1 .. Count + 1 : i \in 1 .. Count \/ i = Count + 1
  BY <1>1
<1>6. \A i \in 1 .. Count' : ~Waiting'[i].is_end /\ Waiting'[i].dest = file
  BY <1>2, <1>4, <1>5 DEF Logged, LogInv, SameFile
<1>7. Phases'
  BY <1>3, <1>4, <1>6 DEF Phases, Notified
<1>8. SameFile'
  BY <1>3, <1>4, <1>6 DEF LogInv, SameFile, Notified
<1>9. LogInv'
  BY <1>1, <1>7, <1>8 DEF LogInv
<1>10. Accepted = Count /\ Accepted' = Count + 1
  <2>1. Count + 1 \in 1 .. Count'
    BY <1>1, <1>2
  <2>2. Accepted' = Count'
    BY <1>6, <2>1, <1>2 DEF Accepted
  <2> QED BY <1>2, <1>3, <2>2, AcceptedFacts
<1>11. Messages' = Append(Messages, <<sent + 1, file>>)
  <2>1. Messages \in Seq(Items) /\ Len(Messages) = Count
    BY <1>10, PendingTypes
  <2>2. Messages' = [i \in 1 .. Count + 1 |-> Item(Waiting'[i])]
    BY <1>10 DEF Messages, Item
  <2>3. Append(Messages, <<sent + 1, file>>) =
          [i \in 1 .. Count + 1 |-> IF i = Count + 1 THEN <<sent + 1, file>> ELSE Messages[i]]
    BY <1>1, <2>1
  <2>4. \A i \in 1 .. Count + 1 :
          Item(Waiting'[i]) = IF i = Count + 1 THEN <<sent + 1, file>> ELSE Messages[i]
    BY <1>1, <1>2, <1>5, <1>10 DEF Messages, Item, Logged
  <2> QED BY <2>2, <2>3, <2>4
<1>12. InHand' = InHand
  BY <1>3, <1>4 DEF InHand, Notified, Item
<1>13. Pending' = Append(Pending, <<sent + 1, file>>)
  <2>1. <<sent + 1, file>> \in Items
    BY <1>3, BoundAssumption DEF LogInv, TypeOK, Items
  <2>2. InHand \o Append(Messages, <<sent + 1, file>>) = Append(InHand \o Messages, <<sent + 1, file>>)
    BY <2>1, PendingTypes
  <2> QED BY <1>11, <1>12, <2>2 DEF Pending
<1>14. sent + 1 \in 1 .. MaxMsgs
  BY <1>3, BoundAssumption DEF LogInv, TypeOK
<1> QED BY <1>3, <1>9, <1>13, <1>14 DEF Sink!Log

\* A worker that takes the last entry while a pause waits for it takes the one
\* that ends it.
LEMMA TakeLast == ASSUME LogInv, Take, head # tail PROVE ~Full /\ ~Full'
<1>1. ~Full
  BY DEF Full
<1> SUFFICES ASSUME Full' PROVE FALSE
  BY <1>1
<1>2. /\ control \in {"join", "join_file"} /\ Succ(head) = tail
      /\ worker = "check" /\ ~Entry(head).is_end
  BY DEF Take, Full, Joining
<1>3. /\ Size \in Nat \ {0} /\ head \in 0 .. Size - 1 /\ tail \in 0 .. Size - 1
      /\ Count \in 1 .. Size - 1
  BY <1>1, RingFacts DEF LogInv, TypeOK
<1>4. Count = 1
  <2>1. Popped(Size, head, tail, Succ(head), Count)
    BY <1>1, <1>3, PopIndices DEF Succ, Count
  <2>2. (tail - tail) % Size = Count - 1
    BY <1>2, <2>1 DEF Popped
  <2>3. (tail - tail) % Size = 0
    BY <1>3
  <2> QED BY <1>3, <2>2, <2>3
<1>5. Waiting[1].is_end
  BY <1>2, <1>4 DEF LogInv, Phases
<1>6. Waiting[1] = Entry(head)
  <2>1. (head + 1 - 1) % Size = head
    BY <1>3, Place
  <2> QED BY <1>4, <2>1 DEF Waiting
<1> QED BY <1>2, <1>5, <1>6

\* Taking an entry moves it from the ring into the worker's hand, which the sink
\* does not see; the entry that ends the worker is nobody's message.
LEMMA TakeStep ==
  ASSUME LogInv, Take, head # tail
  PROVE  LogInv' /\ UNCHANGED Sink!vars
<1>1. /\ Count # 0 /\ Count \in Nat /\ cur' = Waiting[1] /\ TypeOK'
      /\ Count' = Count - 1
      /\ \A i \in 1 .. Count' : Waiting'[i] = Waiting[i + 1]
  BY TakeView, TakeLast, AcceptedFacts DEF LogInv
<1>2. /\ worker = "check" /\ worker' = IF cur'.is_end THEN "exit" ELSE "print"
      /\ UNCHANGED <<running, file, control, printed>>
  BY DEF Take
<1>3. \A i \in 1 .. Count' : i + 1 \in 2 .. Count
  BY <1>1
<1>4. CASE cur'.is_end
  <2>1. ~running /\ control \in {"join", "join_file"} /\ Count = 1
    <3>1. 1 \in 1 .. Count /\ (Count # 1 => 1 \in 1 .. Count - 1)
      BY <1>1
    <3> QED BY <1>1, <1>2, <1>4, <3>1 DEF LogInv, Phases
  <2>2. Count' = 0 /\ worker' = "exit"
    BY <1>1, <1>2, <1>4, <2>1
  <2>3. LogInv'
    BY <1>1, <1>2, <2>1, <2>2 DEF LogInv, Phases, SameFile
  <2>4. Accepted = 0 /\ Accepted' = 0
    BY <1>1, <1>2, <2>1, <2>2, AcceptedFacts DEF Accepted
  <2>5. Pending = <<>> /\ Pending' = <<>>
    BY <1>2, <2>2, <2>4 DEF Pending, Messages, InHand
  <2> QED BY <1>2, <2>3, <2>5 DEF Sink!vars
<1>5. CASE ~cur'.is_end
  <2>1. worker' = "print"
    BY <1>2, <1>5
  <2>2. 1 \in 1 .. Count /\ (Count' # 0 => Count' \in 1 .. Count' /\ Count' + 1 = Count)
    BY <1>1
  <2>3. Phases'
    <3>1. CASE running
      BY <1>1, <1>2, <1>3, <2>1, <3>1 DEF LogInv, Phases
    <3>2. CASE ~running
      <4>1. /\ control \in {"join", "join_file"} /\ Waiting[Count].is_end
            /\ \A i \in 1 .. Count - 1 : ~Waiting[i].is_end
        BY <1>1, <1>2, <3>2 DEF LogInv, Phases
      <4>2. Count # 1
        BY <1>1, <1>5, <4>1
      <4>3. Count' # 0 /\ Waiting'[Count'].is_end
        BY <1>1, <2>2, <4>1, <4>2
      <4>4. \A i \in 1 .. Count' - 1 : i \in 1 .. Count' /\ i + 1 \in 1 .. Count - 1
        BY <1>1
      <4>5. \A i \in 1 .. Count' - 1 : ~Waiting'[i].is_end
        BY <1>1, <4>1, <4>4
      <4> QED BY <1>2, <2>1, <3>2, <4>1, <4>3, <4>5 DEF Phases
    <3> QED BY <3>1, <3>2
  <2>4. SameFile'
    <3>1. cur'.dest = file
      BY <1>1, <1>5, <2>2 DEF LogInv, SameFile
    <3>2. \A i \in 1 .. Count' : ~Waiting'[i].is_end => Waiting'[i].dest = file
      BY <1>1, <1>3 DEF LogInv, SameFile
    <3> QED BY <1>2, <3>1, <3>2 DEF SameFile
  <2>5. LogInv'
    BY <1>1, <2>3, <2>4 DEF LogInv
  <2>6. Accepted' = Accepted - 1 /\ Accepted \in 1 .. Count
    <3>1. Count' # 0 => (Waiting'[Count'].is_end <=> Waiting[Count].is_end)
      BY <1>1, <2>2
    <3>2. Count' = 0 => ~Waiting[Count].is_end
      BY <1>1, <1>5
    <3> QED BY <1>1, <3>1, <3>2 DEF Accepted
  <2>7. Messages = <<Item(cur')>> \o Messages'
    <3>1. /\ Messages' \in Seq(Items) /\ Len(Messages') = Accepted'
          /\ \A i \in 1 .. Accepted' : Messages'[i] = Item(Waiting'[i])
      <4>1. \A i \in 1 .. Accepted' : i \in 1 .. Count' /\ i + 1 \in 1 .. Accepted
        BY <1>1, <2>6
      <4>2. \A i \in 1 .. Accepted' : Item(Waiting'[i]) = Messages[i + 1]
        BY <1>1, <4>1 DEF Messages, Item
      <4>3. \A i \in 1 .. Accepted' : Item(Waiting'[i]) \in Items
        BY <4>1, <4>2, PendingTypes
      <4>4. Messages' = [i \in 1 .. Accepted' |-> Item(Waiting'[i])] /\ Accepted' \in Nat
        BY <2>6, <1>1 DEF Messages, Item
      <4> QED BY <4>3, <4>4
    <3>2. /\ Messages \in Seq(Items) /\ Len(Messages) = Accepted
          /\ \A i \in 1 .. Accepted : Messages[i] = Item(Waiting[i])
      BY PendingTypes DEF Messages
    <3>3. Item(cur') = Messages[1] /\ Item(cur') \in Items
      BY <1>1, <2>6, <3>2
    <3>4. \A i \in 1 .. Accepted' : Messages'[i] = Messages[i + 1]
      <4>1. \A i \in 1 .. Accepted' : i \in 1 .. Count' /\ i + 1 \in 1 .. Accepted
        BY <1>1, <2>6
      <4> QED BY <1>1, <3>1, <3>2, <4>1
    <3>5. /\ <<Item(cur')>> \o Messages' \in Seq(Items)
          /\ Len(<<Item(cur')>> \o Messages') = Accepted
          /\ \A i \in 1 .. Accepted : (<<Item(cur')>> \o Messages')[i] =
               IF i = 1 THEN Item(cur') ELSE Messages'[i - 1]
      BY <1>1, <2>6, <3>1, <3>3
    <3>6. \A i \in 1 .. Accepted : (<<Item(cur')>> \o Messages')[i] = Messages[i]
      BY <1>1, <2>6, <3>3, <3>4, <3>5
    <3> QED BY <3>2, <3>5, <3>6, SeqEqual
  <2>8. InHand = <<>> /\ InHand' = <<Item(cur')>>
    BY <1>2, <2>1 DEF InHand, Item
  <2>9. Pending' = Pending
    BY <2>7, <2>8, PendingTypes DEF Pending
  <2> QED BY <1>2, <2>5, <2>9 DEF Sink!vars
<1> QED BY <1>4, <1>5

\* Printing writes the oldest pending message, to the file it was logged for.
LEMMA PrintStep ==
  ASSUME LogInv, PrintEntry
  PROVE  LogInv' /\ Sink!Write
<1>1. /\ worker = "print" /\ worker' = "check"
      /\ printed' = Append(printed, <<cur.msg, file>>)
      /\ UNCHANGED <<entries, head, tail, running, file, cur, control>>
  BY DEF PrintEntry, ringVars
<1>2. TypeOK'
  BY PrintTypes DEF LogInv
<1>3. UNCHANGED <<Count, Waiting, Accepted, Messages, Full>>
  <2>1. Full' = Full
    BY <1>1 DEF Full, Joining
  <2> QED BY <1>1, <2>1, SameView
<1>4. Phases' /\ SameFile'
  BY <1>1, <1>3 DEF LogInv, Phases, SameFile
<1>5. Item(cur) = <<cur.msg, file>>
  BY <1>1 DEF LogInv, SameFile, Item
<1>6. InHand = <<Item(cur)>> /\ InHand' = <<>>
  BY <1>1 DEF InHand
<1>7. Pending = <<Item(cur)>> \o Messages /\ Pending' = Messages
  BY <1>3, <1>6, PendingTypes DEF Pending
<1>8. Pending # <<>> /\ Head(Pending) = Item(cur) /\ Tail(Pending) = Messages
  <2>1. Item(cur) \in Items /\ Messages \in Seq(Items)
    BY PendingTypes DEF LogInv, TypeOK, EntryType, Item, Items
  <2> QED BY <1>7, <2>1
<1> QED BY <1>1, <1>2, <1>4, <1>5, <1>7, <1>8 DEF LogInv, Sink!Write

\* Pausing stops the sink: the entry pushed is nobody's message.
LEMMA PauseStep ==
  ASSUME LogInv, NEW next \in {"join", "join_file"}, PauseRunning(next)
  PROVE  LogInv' /\ Sink!Pause
<1>1. /\ control = "idle" /\ running /\ running' = FALSE /\ control' = next
      /\ worker' = Notified
      /\ head' = head /\ tail' = Succ(tail)
      /\ UNCHANGED <<file, cur, sent, printed>>
  BY DEF PauseRunning
<1>2. TypeOK'
  BY PauseTypes DEF LogInv
<1>3. /\ Count \in Nat /\ Count' = Count + 1
      /\ Waiting'[Count + 1].is_end
      /\ \A i \in 1 .. Count : Waiting'[i] = Waiting[i]
  <2>1. worker # "exit"
    BY <1>1 DEF LogInv, Phases
  <2> QED BY <2>1, PauseView, AcceptedFacts DEF LogInv
<1>4. /\ worker \in {"check", "sleep", "print"}
      /\ \A i \in 1 .. Count : ~Waiting[i].is_end
  BY <1>1 DEF LogInv, Phases
<1>5. /\ Count' # 0 /\ Waiting'[Count'].is_end
      /\ \A i \in 1 .. Count' - 1 : ~Waiting'[i].is_end
  <2>1. Count' - 1 = Count
    BY <1>3
  <2> QED BY <1>3, <1>4, <2>1
<1>6. Phases'
  BY <1>1, <1>4, <1>5 DEF Phases, Notified
<1>7. SameFile'
  <2>1. \A i \in 1 .. Count' : i \in 1 .. Count \/ i = Count + 1
    BY <1>3
  <2> QED BY <1>1, <1>3, <1>4, <2>1 DEF LogInv, SameFile, Notified
<1>8. Accepted = Count /\ Accepted' = Count
  BY <1>1, <1>3, <1>5, AcceptedFacts DEF Accepted
<1>9. Messages' = Messages
  <2>1. \A i \in 1 .. Count : Item(Waiting'[i]) = Item(Waiting[i])
    BY <1>3
  <2> QED BY <1>8, <2>1 DEF Messages, Item
<1>10. InHand' = InHand
  BY <1>1, <1>4 DEF InHand, Notified, Item
<1> QED BY <1>1, <1>2, <1>6, <1>7, <1>9, <1>10 DEF LogInv, Pending, Sink!Pause

\* The steps that leave the ring alone: the sink sees a change of the file and a
\* resumption, both with nothing pending.
LEMMA CalmStep ==
  ASSUME LogInv, Calm
  PROVE  LogInv' /\ (Sink!SetFile \/ Sink!Resume \/ UNCHANGED Sink!vars)
<1>1. TypeOK' /\ UNCHANGED <<entries, head, tail>>
  BY CalmTypes DEF LogInv
<1>2. UNCHANGED <<Count, Waiting, Accepted, Messages, Full>>
  <2>1. Full' = Full
    BY <1>1 DEF Calm, Discard, Spurious, Join, SetFile, Resume, Take, ringVars, vars,
                LogInv, Phases, Full, Joining
  <2> QED BY <1>1, <2>1, SameView
<1>3. CASE SetFile \/ Resume
  <2>1. ~running /\ worker = "none" /\ Count = 0
    BY <1>3 DEF SetFile, Resume, LogInv, Phases
  <2>2. Accepted = 0
    BY <2>1, AcceptedFacts
  <2>3. worker' \in {"none", "check"}
    BY <1>3, <2>1 DEF SetFile, Resume
  <2>4. Pending = <<>> /\ Pending' = <<>>
    BY <1>2, <2>1, <2>2, <2>3 DEF Pending, Messages, InHand
  <2>5. Phases' /\ SameFile'
    BY <1>2, <1>3, <2>1 DEF SetFile, Resume, LogInv, Phases, SameFile
  <2>6. Sink!SetFile \/ Sink!Resume
    BY <1>3, <2>1, <2>4 DEF SetFile, Resume, Sink!SetFile, Sink!Resume
  <2> QED BY <1>1, <2>5, <2>6 DEF LogInv
<1>4. CASE ~(SetFile \/ Resume)
  <2>1. /\ UNCHANGED <<running, file, cur, printed>>
        /\ worker' = "print" <=> worker = "print"
    BY <1>4 DEF Calm, Discard, Spurious, Join, Take, vars, ringVars
  <2>2. Phases'
    <3>1. CASE Join
      BY <1>2, <3>1 DEF Join, LogInv, Phases
    <3>2. CASE Take /\ head = tail
      <4>1. ~Full => Count = 0
        BY <3>2, RingFacts DEF LogInv
      <4>2. Full <=> control \in {"join", "join_file"}
        BY <3>2 DEF Take, Full, Joining
      <4> QED BY <1>2, <3>2, <4>1, <4>2 DEF Take, LogInv, Phases
    <3>3. CASE Spurious
      BY <1>2, <3>3 DEF Spurious, LogInv, Phases
    <3>4. CASE Discard \/ UNCHANGED vars
      BY <1>2, <3>4 DEF Discard, vars, LogInv, Phases
    <3>5. CASE control = "idle" /\ ~running /\ control' = "file"
                 /\ UNCHANGED <<ringVars, running, file, worker, cur, sent, printed>>
      BY <1>2, <3>5 DEF LogInv, Phases
    <3> QED BY <1>4, <3>1, <3>2, <3>3, <3>4, <3>5 DEF Calm
  <2>3. SameFile'
    BY <1>2, <2>1 DEF LogInv, SameFile
  <2>4. Pending' = Pending
    BY <1>2, <2>1 DEF Pending, InHand, Item
  <2> QED BY <1>1, <2>1, <2>2, <2>3, <2>4 DEF LogInv, Sink!vars
<1> QED BY <1>3, <1>4

\* Every step of the log is a step of the sink or leaves it alone.
LEMMA LogStep ==
  ASSUME LogInv, [Next]_vars
  PROVE  LogInv' /\ [Sink!Next]_(Sink!vars)
<1>1. \/ Add \/ PrintEntry \/ Calm
      \/ Take /\ head # tail
      \/ \E next \in {"join", "join_file"} : PauseRunning(next)
  BY Steps DEF LogInv
<1> QED BY <1>1, AddStep, PrintStep, CalmStep, TakeStep, PauseStep DEF Sink!Next

\* Between pauses nothing in the ring ends the worker and nothing that waits was
\* logged for another file; during one the last entry ends the worker; a paused
\* log is empty.
THEOREM LogInvariant == Spec => []LogInv
<1> QED BY LogInit, LogStep, PTL DEF Spec

\* The ring and the worker implement the sink, step by step, for a ring of any
\* size: nothing accepted is lost, printed twice, reordered by the expansion of
\* the ring, or written to a file that was set after it was logged.
THEOREM LogImplementsSink == Spec => Sink!Safety
<1> QED BY LogInit, LogStep, PTL DEF Spec, Sink!Safety

\* A pause whose end entry filled the ring never returns: no step empties the
\* ring, ends the worker or joins it.
THEOREM FullForever == Spec => [][Full => Full']_vars
<1>1. ASSUME LogInv, [Next]_vars PROVE [Full => Full']_vars
  BY <1>1 DEF Next, Discard, Add, Take, PrintEntry, Spurious, Pause, SetFilePause, PauseRunning,
              Join, SetFile, Resume, ringVars, vars, LogInv, Phases, Full, Joining
<1> QED BY <1>1, LogInit, LogStep, PTL DEF Spec
=============================================================================
