------------------------- MODULE MidgardHeapProofs -------------------------
(***************************************************************************)
(* What the operations of the midgard heap do to its chunk list, for every *)
(* heap size, header size and length of a request.  The proofs about the   *)
(* heap with arbitrary users and about the machine on top of it rest on    *)
(* these lemmas.                                                           *)
(***************************************************************************)
EXTENDS MidgardHeap, SequenceTheorems, WellFoundedInduction, TLAPS

-----------------------------------------------------------------------------
(***************************************************************************)
(* Sequences.                                                              *)
(***************************************************************************)

\* InsertAt shifts the elements from position i on by one.
LEMMA InsertAtProps ==
  ASSUME NEW S, NEW c \in Seq(S), NEW i \in 1 .. Len(c) + 1, NEW e \in S
  PROVE  /\ InsertAt(c, i, e) \in Seq(S)
         /\ Len(InsertAt(c, i, e)) = Len(c) + 1
         /\ \A j \in 1 .. Len(c) + 1 :
              InsertAt(c, i, e)[j] =
                IF j < i THEN c[j] ELSE IF j = i THEN e ELSE c[j - 1]
<1> DEFINE a == SubSeq(c, 1, i - 1)
           b == SubSeq(c, i, Len(c))
<1>0. Len(c) \in Nat /\ \A j \in 1 .. Len(c) : c[j] \in S
  BY LenProperties, ElementOfSeq
<1>1. /\ a \in Seq(S)
      /\ Len(a) = i - 1
      /\ \A j \in 1 .. i - 1 : a[j] = c[j]
  BY <1>0, SubSeqProperties
<1>2. /\ b \in Seq(S)
      /\ Len(b) = Len(c) - i + 1
      /\ \A j \in 1 .. Len(c) - i + 1 : b[j] = c[i + j - 1]
  BY <1>0, SubSeqProperties
<1>3. <<e>> \in Seq(S) /\ Len(<<e>>) = 1 /\ <<e>>[1] = e
  OBVIOUS
<1> DEFINE d == a \o <<e>>
<1>4. /\ d \in Seq(S)
      /\ Len(d) = i
      /\ \A j \in 1 .. i : d[j] = IF j < i THEN c[j] ELSE e
  <2> HIDE DEF a
  <2>1. /\ d \in Seq(S)
        /\ Len(d) = Len(a) + 1
        /\ \A j \in 1 .. Len(a) + 1 : d[j] = IF j <= Len(a) THEN a[j] ELSE <<e>>[j - Len(a)]
    BY <1>1, <1>3, ConcatProperties
  <2>2. QED
    BY <2>1, <1>1, <1>3, <1>0
<1>5. InsertAt(c, i, e) = d \o b
  BY DEF InsertAt
<1> HIDE DEF a, b, d
<1>6. /\ d \o b \in Seq(S)
      /\ Len(d \o b) = Len(d) + Len(b)
      /\ \A j \in 1 .. Len(d) + Len(b) :
           (d \o b)[j] = IF j <= Len(d) THEN d[j] ELSE b[j - Len(d)]
  BY <1>2, <1>4, ConcatProperties
<1>7. QED
  BY <1>0, <1>2, <1>4, <1>5, <1>6

\* RemoveAt shifts the elements behind position i back by one.
LEMMA RemoveAtProps ==
  ASSUME NEW S, NEW c \in Seq(S), NEW i \in 1 .. Len(c)
  PROVE  /\ RemoveAt(c, i) \in Seq(S)
         /\ Len(RemoveAt(c, i)) = Len(c) - 1
         /\ \A j \in 1 .. Len(c) - 1 :
              RemoveAt(c, i)[j] = IF j < i THEN c[j] ELSE c[j + 1]
<1> DEFINE a == SubSeq(c, 1, i - 1)
           b == SubSeq(c, i + 1, Len(c))
<1>0. Len(c) \in Nat /\ \A j \in 1 .. Len(c) : c[j] \in S
  BY LenProperties, ElementOfSeq
<1>1. /\ a \in Seq(S)
      /\ Len(a) = i - 1
      /\ \A j \in 1 .. i - 1 : a[j] = c[j]
  BY <1>0, SubSeqProperties
<1>2. /\ b \in Seq(S)
      /\ Len(b) = Len(c) - i
      /\ \A j \in 1 .. Len(c) - i : b[j] = c[i + j]
  BY <1>0, SubSeqProperties
<1>3. RemoveAt(c, i) = a \o b
  BY DEF RemoveAt
<1> HIDE DEF a, b
<1>4. /\ a \o b \in Seq(S)
      /\ Len(a \o b) = Len(a) + Len(b)
      /\ \A j \in 1 .. Len(a) + Len(b) :
           (a \o b)[j] = IF j <= Len(a) THEN a[j] ELSE b[j - Len(a)]
  BY <1>1, <1>2, ConcatProperties
<1>5. QED
  BY <1>0, <1>1, <1>2, <1>3, <1>4

-----------------------------------------------------------------------------
(***************************************************************************)
(* The walk of m_alloc always ends: there is a first gap or the terminal.  *)
(***************************************************************************)

\* A non-empty set of naturals has a least element.
LEMMA LeastNat ==
  ASSUME NEW T \in SUBSET Nat, T # {}
  PROVE  \E x \in T : \A y \in T : x <= y
<1>1. PICK R : /\ IsWellFoundedOn(R, Nat)
               /\ \A x, y \in Nat : y < x => <<y, x>> \in R
  <2> DEFINE Q == OpToRel(<, Nat)
  <2>1. IsWellFoundedOn(Q, Nat)
    BY NatLessThanWellFounded
  <2>2. \A x, y \in Nat : y < x => <<y, x>> \in Q
    BY DEF OpToRel
  <2>3. QED
    BY <2>1, <2>2
<1>2. PICK x \in T : \A y \in T : ~(<<y, x>> \in R)
  BY <1>1, WFMin
<1>3. ASSUME NEW y \in T
      PROVE  x <= y
  <2>1. x \in Nat /\ y \in Nat
    OBVIOUS
  <2>2. ~(y < x)
    BY <1>1, <1>2, <2>1, Zenon
  <2>3. QED
    BY <2>1, <2>2
<1>4. QED
  BY <1>3

\* The walk stops at the first gap, or at the terminal.
LEMMA WalkStops ==
  ASSUME NEW c \in Seq(Chunk), Len(c) >= 1, NEW s \in Nat \ {0}
  PROVE  WalkStop(c, s) \in 1 .. Len(c) /\ StopsAt(c, s, WalkStop(c, s))
<1> DEFINE T == {i \in 1 .. Len(c) : i = Len(c) \/ Gap(c, s, i)}
<1>1. Len(c) \in T /\ T \in SUBSET Nat
  BY LenProperties
<1>2. PICK i \in T : \A j \in T : i <= j
  BY <1>1, LeastNat
<1>3. i \in 1 .. Len(c) /\ (i = Len(c) \/ Gap(c, s, i))
  BY <1>2
<1>4. \A j \in 1 .. i - 1 : ~Gap(c, s, j)
  BY <1>2, <1>3, LenProperties
<1>5. StopsAt(c, s, i)
  BY <1>3, <1>4 DEF StopsAt
<1>6. QED
  BY <1>3, <1>5 DEF WalkStop

-----------------------------------------------------------------------------
(***************************************************************************)
(* Each operation keeps the chunk list well formed.                        *)
(***************************************************************************)
WellFormed(c) ==
  /\ c \in Seq(Chunk)
  /\ Len(c) >= 1
  /\ \A i \in 1 .. Len(c) : c[i].at + Hdr <= HeapSize
  /\ Ordered(c)
  /\ NonEmpty(c)

\* Addresses add up: where a chunk ends, and where its body begins.
LEMMA EndOfNat ==
  ASSUME NEW ch, ch.at \in Nat, ch.size \in Nat
  PROVE  /\ EndOf(ch) \in Nat /\ ch.at <= EndOf(ch)
         /\ EndOf(ch) = Body(ch) + ch.size
         /\ Body(ch) = ch.at + Hdr /\ Body(ch) \in Nat
<1>1. ASSUME NEW a \in Nat, NEW s \in Nat
      PROVE  /\ a + Hdr + s \in Nat /\ a <= a + Hdr + s
             /\ a + Hdr \in Nat
  BY HeapAssumption
<1>2. QED
  BY <1>1 DEF EndOf, Body

\* What the provers need to know of a well-formed list.
LEMMA WellFormedFacts ==
  ASSUME NEW c, WellFormed(c)
  PROVE  /\ Len(c) \in Nat /\ Len(c) >= 1
         /\ \A i \in 1 .. Len(c) :
              /\ c[i] \in Chunk
              /\ c[i] = [at |-> c[i].at, size |-> c[i].size]
              /\ c[i].at \in Nat
              /\ c[i].size \in Nat
              /\ c[i].at + Hdr <= HeapSize
         /\ Hdr \in Nat /\ Hdr > 0 /\ HeapSize \in Nat
<1>1. \A i \in 1 .. Len(c) : c[i] \in Chunk
  BY ElementOfSeq DEF WellFormed
<1>2. QED
  BY <1>1, LenProperties, HeapAssumption DEF WellFormed, Chunk

\* A list is well formed when each pair of its chunks is in order.
LEMMA WellFormedIntro ==
  ASSUME NEW d \in Seq(Chunk), Len(d) >= 1, d[1].at = 0,
         \A j \in 1 .. Len(d) : d[j].at + Hdr <= HeapSize,
         \A j, k \in 1 .. Len(d) : j < k => EndOf(d[j]) <= d[k].at,
         \A j \in 2 .. Len(d) - 1 : d[j].size > 0
  PROVE  WellFormed(d)
BY DEF WellFormed, Ordered, NonEmpty

\* A chunk put into a gap is in order with all others.
LEMMA PlaceInGapWellFormed ==
  ASSUME NEW c, WellFormed(c), NEW s \in Nat \ {0},
         NEW i \in 1 .. Len(c), Gap(c, s, i)
  PROVE  /\ WellFormed(PlaceInGap(c, s, i))
         /\ Len(PlaceInGap(c, s, i)) = Len(c) + 1
         /\ \A j \in 1 .. i : PlaceInGap(c, s, i)[j] = c[j]
         /\ PlaceInGap(c, s, i)[i + 1] = [at |-> EndOf(c[i]), size |-> s]
         /\ \A j \in i + 1 .. Len(c) : PlaceInGap(c, s, i)[j + 1] = c[j]
<1> DEFINE e == [at |-> EndOf(c[i]), size |-> s]
           d == InsertAt(c, i + 1, e)
           n == Len(c)
<1>0. c \in Seq(Chunk) /\ n \in Nat /\ n >= 1
  BY WellFormedFacts DEF WellFormed
<1>at. \A k \in 1 .. n : c[k].at \in Nat /\ c[k].size \in Nat
  BY WellFormedFacts
<1>h. Hdr \in Nat /\ Hdr > 0 /\ HeapSize \in Nat
  BY HeapAssumption
<1>fit. \A k \in 1 .. n : c[k].at + Hdr <= HeapSize
  BY WellFormedFacts
<1>1. s \in Nat /\ s > 0
  BY HeapAssumption
<1>2. e \in Chunk /\ e.at = EndOf(c[i]) /\ e.size = s
  BY <1>1, <1>h, <1>at DEF Chunk, EndOf
<1>3. i \in 1 .. n - 1 /\ c[i + 1].at >= EndOf(c[i]) + Hdr + s
  BY <1>0 DEF Gap
<1> HIDE DEF n
<1>4. /\ d \in Seq(Chunk)
      /\ Len(d) = n + 1
      /\ \A j \in 1 .. n + 1 :
           d[j] = IF j < i + 1 THEN c[j] ELSE IF j = i + 1 THEN e ELSE c[j - 1]
  <2>1. i + 1 \in 1 .. Len(c) + 1
    BY <1>0, <1>3 DEF n
  <2> HIDE DEF e
  <2>2. /\ InsertAt(c, i + 1, e) \in Seq(Chunk)
        /\ Len(InsertAt(c, i + 1, e)) = Len(c) + 1
        /\ \A j \in 1 .. Len(c) + 1 :
             InsertAt(c, i + 1, e)[j] =
               IF j < i + 1 THEN c[j] ELSE IF j = i + 1 THEN e ELSE c[j - 1]
    BY <1>0, <1>2, <2>1, InsertAtProps
  <2>3. QED
    BY <2>2, Zenon DEF n
<1> HIDE DEF e, d
<1>5. /\ \A j \in 1 .. i : d[j] = c[j]
      /\ d[i + 1] = e
      /\ \A j \in i + 2 .. n + 1 : d[j] = c[j - 1]
  BY <1>0, <1>3, <1>4
<1>6. \A j, k \in 1 .. n : j < k => EndOf(c[j]) <= c[k].at
  BY DEF WellFormed, Ordered, n
<1>7. \A j \in 1 .. n : /\ EndOf(c[j]) \in Nat
                        /\ c[j].at <= EndOf(c[j])
  BY <1>at, EndOfNat
<1>8. EndOf(e) = EndOf(c[i]) + Hdr + s /\ e.at = EndOf(c[i])
  BY <1>2 DEF EndOf
<1>9. d[1].at = 0
  <2>1. d[1] = c[1]
    BY <1>0, <1>3, <1>5
  <2>2. c[1].at = 0
    BY DEF WellFormed, Ordered
  <2>3. QED
    BY <2>1, <2>2
<1>i. EndOf(c[i]) \in Nat /\ c[i + 1].at \in Nat /\ c[i].at \in Nat
  BY <1>0, <1>3, <1>7, <1>at
<1>10. ASSUME NEW j \in 1 .. n + 1
       PROVE  d[j].at + Hdr <= HeapSize
  <2>1. CASE j \in 1 .. i
    BY <2>1, <1>0, <1>3, <1>5, <1>fit
  <2>2. CASE j = i + 1
    <3>1. c[i + 1].at + Hdr <= HeapSize
      BY <1>0, <1>3, <1>fit
    <3>2. QED
      BY <2>2, <3>1, <1>h, <1>1, <1>3, <1>5, <1>8, <1>i
  <2>3. CASE j \in i + 2 .. n + 1
    BY <2>3, <1>0, <1>3, <1>5, <1>fit
  <2>4. QED
    BY <2>1, <2>2, <2>3, <1>0, <1>3
<1>11. ASSUME NEW j \in 1 .. n + 1, NEW k \in 1 .. n + 1, j < k
       PROVE  EndOf(d[j]) <= d[k].at
  <2>1. CASE k \in 1 .. i
    BY <2>1, <1>11, <1>0, <1>3, <1>5, <1>6
  <2>2. CASE j = i + 1 /\ k = i + 2
    <3>1. d[j] = e /\ d[k] = c[i + 1]
      BY <2>2, <1>0, <1>3, <1>5
    <3>2. QED
      BY <3>1, <1>3, <1>8
  <2>3. CASE j = i + 1 /\ k \in i + 3 .. n + 1
    <3>1. d[j] = e /\ d[k] = c[k - 1]
      BY <2>3, <1>0, <1>3, <1>5
    <3>2. k - 1 \in 1 .. n /\ i + 1 \in 1 .. n /\ i + 1 < k - 1
      BY <2>3, <1>0, <1>3
    <3>3. EndOf(c[i + 1]) <= c[k - 1].at /\ c[k - 1].at \in Nat
      BY <3>2, <1>6, <1>at
    <3>4. c[i + 1].at <= EndOf(c[i + 1]) /\ EndOf(c[i + 1]) \in Nat
      BY <3>2, <1>7
    <3>5. EndOf(e) <= c[i + 1].at
      BY <1>3, <1>8
    <3>6. EndOf(e) \in Nat
      BY <1>8, <1>i, <1>1, <1>h
    <3>7. QED
      BY <3>1, <3>3, <3>4, <3>5, <3>6, <1>i, SMTT(30)
  <2>4. CASE j \in 1 .. i - 1 /\ k = i + 1
    <3>1. d[j] = c[j] /\ d[k].at = EndOf(c[i])
      BY <2>4, <1>0, <1>3, <1>5, <1>8
    <3>2. j \in 1 .. n /\ i \in 1 .. n /\ j < i
      BY <2>4, <1>0, <1>3
    <3>3. EndOf(c[j]) <= c[i].at /\ c[i].at <= EndOf(c[i]) /\ EndOf(c[j]) \in Nat
      BY <3>2, <1>6, <1>7
    <3>4. QED
      BY <3>1, <3>3, <1>i
  <2>5. CASE j = i /\ k = i + 1
    BY <2>5, <1>0, <1>3, <1>5, <1>8, <1>i
  <2>6. CASE j \in 1 .. i /\ k \in i + 2 .. n + 1
    <3>1. d[j] = c[j] /\ d[k] = c[k - 1]
      BY <2>6, <1>0, <1>3, <1>5
    <3>2. j \in 1 .. n /\ k - 1 \in 1 .. n /\ j < k - 1
      BY <2>6, <1>0, <1>3
    <3>3. QED
      BY <3>1, <3>2, <1>6
  <2>7. CASE j \in i + 2 .. n + 1 /\ k \in i + 2 .. n + 1
    <3>1. d[j] = c[j - 1] /\ d[k] = c[k - 1]
      BY <2>7, <1>5
    <3>2. j - 1 \in 1 .. n /\ k - 1 \in 1 .. n /\ j - 1 < k - 1
      BY <2>7, <1>11, <1>0, <1>3
    <3>3. QED
      BY <3>1, <3>2, <1>6
  <2>8. QED
    BY <2>1, <2>2, <2>3, <2>4, <2>5, <2>6, <2>7, <1>11, <1>0, <1>3
<1>12. ASSUME NEW j \in 2 .. n
       PROVE  d[j].size > 0
  <2>0. \A k \in 2 .. n - 1 : c[k].size > 0
    BY DEF WellFormed, NonEmpty, n
  <2>1. CASE j \in 1 .. i
    BY <2>0, <2>1, <1>0, <1>3, <1>5
  <2>2. CASE j = i + 1
    BY <2>2, <1>1, <1>2, <1>5
  <2>3. CASE j \in i + 2 .. n
    <3>1. j - 1 \in 2 .. n - 1 /\ j \in i + 2 .. n + 1
      BY <2>3, <1>0, <1>3
    <3>0. d[j] = c[j - 1]
      BY <3>1, <1>5
    <3>2. QED
      BY <3>0, <3>1, <2>0
  <2>4. QED
    BY <2>1, <2>2, <2>3, <1>0, <1>3
<1>13. Len(d) >= 1 /\ Len(d) - 1 = n
  BY <1>0, <1>4
<1>14. WellFormed(d)
  BY <1>4, <1>9, <1>10, <1>11, <1>12, <1>13, WellFormedIntro
<1>15. d = PlaceInGap(c, s, i)
  BY DEF PlaceInGap, d, e
<1>16. ASSUME NEW j \in i + 1 .. n
       PROVE  d[j + 1] = c[j]
  <2>1. j + 1 \in i + 2 .. n + 1 /\ (j + 1) - 1 = j
    BY <1>0, <1>3
  <2>2. QED
    BY <2>1, <1>5
<1>17. QED
  BY <1>4, <1>5, <1>14, <1>15, <1>16 DEF n, e

Put(c, i, e) == [c EXCEPT ![i] = e]

\* Chunk e has its place between the neighbours of chunk i.
Fits(c, i, e) ==
  /\ i \in 1 .. Len(c)
  /\ e \in Chunk
  /\ i = 1 => e.at = 0
  /\ i > 1 => EndOf(c[i - 1]) <= e.at
  /\ i < Len(c) => EndOf(e) <= c[i + 1].at
  /\ i \in 2 .. Len(c) - 1 => e.size > 0
  /\ e.at + Hdr <= HeapSize

\* A chunk may be replaced by one that stays between its neighbours.
LEMMA ReplaceWellFormed ==
  ASSUME NEW c, WellFormed(c), NEW i, NEW e, Fits(c, i, e)
  PROVE  /\ WellFormed(Put(c, i, e))
         /\ Len(Put(c, i, e)) = Len(c)
         /\ Put(c, i, e)[i] = e
         /\ \A j \in 1 .. Len(c) : j # i => Put(c, i, e)[j] = c[j]
<1> DEFINE n == Len(c)
           d == Put(c, i, e)
<1>fits. /\ i \in 1 .. n
         /\ e \in Chunk
         /\ i = 1 => e.at = 0
         /\ i > 1 => EndOf(c[i - 1]) <= e.at
         /\ i < n => EndOf(e) <= c[i + 1].at
         /\ i \in 2 .. n - 1 => e.size > 0
         /\ e.at + Hdr <= HeapSize
  BY DEF Fits
<1>0. c \in Seq(Chunk) /\ n \in Nat /\ n >= 1
  BY WellFormedFacts DEF WellFormed
<1>at. \A k \in 1 .. n : c[k].at \in Nat /\ c[k].size \in Nat
  BY WellFormedFacts
<1>h. Hdr \in Nat /\ Hdr > 0 /\ HeapSize \in Nat
  BY HeapAssumption
<1>fit. \A k \in 1 .. n : c[k].at + Hdr <= HeapSize
  BY WellFormedFacts
<1>ord. \A j, k \in 1 .. n : j < k => EndOf(c[j]) <= c[k].at
  BY DEF WellFormed, Ordered
<1>root. c[1].at = 0
  BY DEF WellFormed, Ordered
<1>ne. \A k \in 2 .. n - 1 : c[k].size > 0
  BY DEF WellFormed, NonEmpty
<1>end. \A j \in 1 .. n : /\ EndOf(c[j]) \in Nat
                          /\ c[j].at <= EndOf(c[j])
  BY <1>h, <1>at DEF EndOf
<1>e. e.at \in Nat /\ e.size \in Nat /\ EndOf(e) \in Nat /\ e.at <= EndOf(e)
  BY <1>h, <1>fits DEF Chunk, EndOf
<1> HIDE DEF n
<1>1. /\ d \in Seq(Chunk) /\ Len(d) = n /\ d[i] = e
      /\ \A j \in 1 .. n : j # i => d[j] = c[j]
  BY <1>0, <1>fits, ExceptSeq DEF n, Put
<1> HIDE DEF d
<1>2. d[1].at = 0
  BY <1>0, <1>1, <1>root, <1>fits
<1>3. \A j \in 1 .. n : d[j].at + Hdr <= HeapSize
  BY <1>0, <1>1, <1>fit, <1>fits
<1>4. ASSUME NEW j \in 1 .. n, NEW k \in 1 .. n, j < k
      PROVE  EndOf(d[j]) <= d[k].at
  <2>1. CASE j # i /\ k # i
    BY <2>1, <1>4, <1>1, <1>ord
  <2>2. CASE k = i
    <3>1. d[j] = c[j] /\ d[k] = e
      BY <2>2, <1>1, <1>4
    <3>2. i > 1 /\ i - 1 \in 1 .. n
      BY <2>2, <1>4, <1>0, <1>fits
    <3>3. j = i - 1 \/ j < i - 1
      BY <2>2, <1>4, <1>0, <1>fits
    <3>4. EndOf(c[i - 1]) <= e.at /\ EndOf(c[i - 1]) \in Nat /\ c[i - 1].at <= EndOf(c[i - 1])
      BY <3>2, <1>end, <1>fits
    <3>5. CASE j = i - 1
      BY <3>5, <3>1, <3>4
    <3>6. CASE j < i - 1
      <4>1. EndOf(c[j]) <= c[i - 1].at /\ EndOf(c[j]) \in Nat /\ c[i - 1].at \in Nat
        BY <3>6, <3>2, <1>ord, <1>end, <1>at
      <4>2. QED
        BY <4>1, <3>1, <3>4, <1>e
    <3>7. QED
      BY <3>3, <3>5, <3>6
  <2>3. CASE j = i
    <3>1. d[k] = c[k] /\ d[j] = e
      BY <2>3, <1>1, <1>4
    <3>2. i < n /\ i + 1 \in 1 .. n
      BY <2>3, <1>4, <1>0, <1>fits
    <3>3. k = i + 1 \/ k > i + 1
      BY <2>3, <1>4, <1>0, <1>fits
    <3>4. EndOf(e) <= c[i + 1].at /\ c[i + 1].at \in Nat /\ EndOf(c[i + 1]) \in Nat
          /\ c[i + 1].at <= EndOf(c[i + 1])
      BY <3>2, <1>end, <1>at, <1>fits
    <3>5. CASE k = i + 1
      BY <3>5, <3>1, <3>4
    <3>6. CASE k > i + 1
      <4>1. EndOf(c[i + 1]) <= c[k].at /\ c[k].at \in Nat
        BY <3>6, <3>2, <1>ord, <1>at
      <4>2. QED
        BY <4>1, <3>1, <3>4, <1>e
    <3>7. QED
      BY <3>3, <3>5, <3>6
  <2>4. QED
    BY <2>1, <2>2, <2>3
<1>5. \A j \in 2 .. n - 1 : d[j].size > 0
  BY <1>0, <1>1, <1>ne, <1>fits
<1>6. WellFormed(d)
  BY <1>0, <1>1, <1>2, <1>3, <1>4, <1>5, WellFormedIntro
<1>7. QED
  BY <1>1, <1>6 DEF n, d

\* A new terminal may follow the old one once that has a length.
LEMMA AppendWellFormed ==
  ASSUME NEW c, WellFormed(c), NEW t \in Chunk,
         c[Len(c)].size > 0, EndOf(c[Len(c)]) <= t.at, t.at + Hdr <= HeapSize
  PROVE  /\ WellFormed(Append(c, t))
         /\ Len(Append(c, t)) = Len(c) + 1
         /\ \A j \in 1 .. Len(c) : Append(c, t)[j] = c[j]
         /\ Append(c, t)[Len(c) + 1] = t
<1> DEFINE n == Len(c)
           d == Append(c, t)
<1>0. c \in Seq(Chunk) /\ n \in Nat /\ n >= 1
  BY WellFormedFacts DEF WellFormed
<1>at. \A k \in 1 .. n : c[k].at \in Nat /\ c[k].size \in Nat
  BY WellFormedFacts
<1>h. Hdr \in Nat /\ Hdr > 0 /\ HeapSize \in Nat
  BY HeapAssumption
<1>fit. \A k \in 1 .. n : c[k].at + Hdr <= HeapSize
  BY WellFormedFacts
<1>ord. \A j, k \in 1 .. n : j < k => EndOf(c[j]) <= c[k].at
  BY DEF WellFormed, Ordered
<1>root. c[1].at = 0
  BY DEF WellFormed, Ordered
<1>ne. \A k \in 2 .. n - 1 : c[k].size > 0
  BY DEF WellFormed, NonEmpty
<1>end. \A j \in 1 .. n : /\ EndOf(c[j]) \in Nat
                          /\ c[j].at <= EndOf(c[j])
  BY <1>h, <1>at DEF EndOf
<1>t. t.at \in Nat
  BY DEF Chunk
<1>1. /\ d \in Seq(Chunk) /\ Len(d) = n + 1 /\ d[n + 1] = t
      /\ \A j \in 1 .. n : d[j] = c[j]
  BY <1>0, AppendProperties
<1>last. c[n].size > 0 /\ EndOf(c[n]) <= t.at
  OBVIOUS
<1> HIDE DEF n, d
<1>2. d[1].at = 0
  BY <1>0, <1>1, <1>root
<1>3. \A j \in 1 .. n + 1 : d[j].at + Hdr <= HeapSize
  <2>1. ASSUME NEW j \in 1 .. n + 1 PROVE j \in 1 .. n \/ j = n + 1
    BY <1>0
  <2>2. QED
    BY <2>1, <1>1, <1>fit
<1>4. ASSUME NEW j \in 1 .. n + 1, NEW k \in 1 .. n + 1, j < k
      PROVE  EndOf(d[j]) <= d[k].at
  <2>1. CASE k \in 1 .. n
    <3>1. j \in 1 .. n
      BY <2>1, <1>4, <1>0
    <3>2. QED
      BY <2>1, <3>1, <1>4, <1>1, <1>ord
  <2>2. CASE k = n + 1 /\ j = n
    BY <2>2, <1>0, <1>1, <1>last
  <2>3. CASE k = n + 1 /\ j \in 1 .. n - 1
    <3>1. j \in 1 .. n /\ n \in 1 .. n /\ j < n
      BY <2>3, <1>0
    <3>2. EndOf(c[j]) <= c[n].at /\ c[n].at <= EndOf(c[n]) /\ EndOf(c[j]) \in Nat
          /\ c[n].at \in Nat /\ EndOf(c[n]) \in Nat
      BY <3>1, <1>ord, <1>end, <1>at
    <3>3. d[j] = c[j] /\ d[k] = t
      BY <2>3, <3>1, <1>1
    <3>4. QED
      BY <3>2, <3>3, <1>last, <1>t
  <2>4. QED
    BY <2>1, <2>2, <2>3, <1>4, <1>0
<1>5. \A j \in 2 .. n : d[j].size > 0
  BY <1>0, <1>1, <1>ne, <1>last
<1>6. (n + 1) - 1 = n /\ n + 1 >= 1
  BY <1>0
<1>7. WellFormed(d)
  BY <1>1, <1>2, <1>3, <1>4, <1>5, <1>6, WellFormedIntro
<1>8. QED
  BY <1>1, <1>7 DEF n, d

\* Unlinking any chunk but the root leaves the others in order.
LEMMA RemoveWellFormed ==
  ASSUME NEW c, WellFormed(c), NEW i \in 2 .. Len(c)
  PROVE  /\ WellFormed(RemoveAt(c, i))
         /\ Len(RemoveAt(c, i)) = Len(c) - 1
         /\ \A j \in 1 .. i - 1 : RemoveAt(c, i)[j] = c[j]
         /\ \A j \in i .. Len(c) - 1 : RemoveAt(c, i)[j] = c[j + 1]
<1> DEFINE n == Len(c)
           d == RemoveAt(c, i)
<1>0. c \in Seq(Chunk) /\ n \in Nat /\ n >= 1
  BY WellFormedFacts DEF WellFormed
<1>at. \A k \in 1 .. n : c[k].at \in Nat /\ c[k].size \in Nat
  BY WellFormedFacts
<1>h. Hdr \in Nat /\ Hdr > 0 /\ HeapSize \in Nat
  BY HeapAssumption
<1>fit. \A k \in 1 .. n : c[k].at + Hdr <= HeapSize
  BY WellFormedFacts
<1>ord. \A j, k \in 1 .. n : j < k => EndOf(c[j]) <= c[k].at
  BY DEF WellFormed, Ordered
<1>root. c[1].at = 0
  BY DEF WellFormed, Ordered
<1>ne. \A k \in 2 .. n - 1 : c[k].size > 0
  BY DEF WellFormed, NonEmpty
<1>end. \A j \in 1 .. n : /\ EndOf(c[j]) \in Nat
                          /\ c[j].at <= EndOf(c[j])
  BY <1>h, <1>at DEF EndOf
<1>i. i \in 1 .. n /\ i > 1
  BY <1>0
<1>1. /\ d \in Seq(Chunk) /\ Len(d) = n - 1
      /\ \A j \in 1 .. n - 1 : d[j] = IF j < i THEN c[j] ELSE c[j + 1]
  BY <1>0, <1>i, RemoveAtProps
<1> HIDE DEF n, d
<1> DEFINE up(j) == IF j < i THEN j ELSE j + 1
<1>2. ASSUME NEW j \in 1 .. n - 1
      PROVE  d[j] = c[up(j)] /\ up(j) \in 1 .. n /\ up(j) >= j
  BY <1>0, <1>i, <1>1
<1>3. \A j, k \in 1 .. n - 1 : j < k => up(j) < up(k)
  BY <1>0, <1>i
<1>4. \A j \in 2 .. n - 2 : up(j) \in 2 .. n - 1
  BY <1>0, <1>i
<1>5. d[1].at = 0
  <2>1. 1 \in 1 .. n - 1 /\ up(1) = 1
    BY <1>0, <1>i
  <2>2. QED
    BY <2>1, <1>2, <1>root
<1> HIDE DEF up
<1>6. \A j \in 1 .. n - 1 : d[j].at + Hdr <= HeapSize
  BY <1>2, <1>fit
<1>7. \A j, k \in 1 .. n - 1 : j < k => EndOf(d[j]) <= d[k].at
  BY <1>2, <1>3, <1>ord
<1>8. \A j \in 2 .. n - 2 : d[j].size > 0
  <2>1. \A j \in 2 .. n - 2 : j \in 1 .. n - 1
    BY <1>0
  <2>2. QED
    BY <2>1, <1>2, <1>4, <1>ne
<1>9. (n - 1) - 1 = n - 2 /\ n - 1 >= 1
  BY <1>0, <1>i
<1>10. WellFormed(d)
  BY <1>1, <1>5, <1>6, <1>7, <1>8, <1>9, WellFormedIntro
<1>11. (\A j \in 1 .. i - 1 : d[j] = c[j]) /\ (\A j \in i .. n - 1 : d[j] = c[j + 1])
  BY <1>0, <1>i, <1>1
<1>12. QED
  BY <1>1, <1>10, <1>11 DEF n, d

\* The heap grows at its end: the terminal is used and a new one follows.
LEMMA ExtendWellFormed ==
  ASSUME NEW c, WellFormed(c), NEW s \in Nat \ {0}, RoomAtEnd(c, s)
  PROVE  /\ WellFormed(Extend(c, s))
         /\ Len(Extend(c, s)) = Len(c) + 1
         /\ \A j \in 1 .. Len(c) - 1 : Extend(c, s)[j] = c[j]
         /\ Extend(c, s)[Len(c)] = [at |-> c[Len(c)].at, size |-> s]
<1> DEFINE n == Len(c)
           e == [at |-> c[n].at, size |-> s]
           t == [at |-> c[n].at + Hdr + s, size |-> 0]
           b == Put(c, n, e)
<1>0. /\ s \in Nat /\ s > 0
      /\ n \in Nat /\ n >= 1 /\ n \in 1 .. n
      /\ Hdr \in Nat /\ Hdr > 0 /\ HeapSize \in Nat
      /\ c[n].at \in Nat /\ c[n].at + Hdr <= HeapSize
  <2>1. s \in Nat /\ s > 0 /\ Hdr \in Nat /\ Hdr > 0 /\ HeapSize \in Nat
    BY HeapAssumption
  <2>2. n \in Nat /\ n >= 1
    BY WellFormedFacts
  <2>3. n \in 1 .. n
    BY <2>2
  <2>4. c[n].at \in Nat /\ c[n].at + Hdr <= HeapSize
    BY <2>3, WellFormedFacts
  <2>5. QED
    BY <2>1, <2>2, <2>3, <2>4
<1>room. c[n].at + s + 2 * Hdr < HeapSize
  BY DEF RoomAtEnd
<1> HIDE DEF n
<1>1. /\ e \in Chunk /\ e.at = c[n].at /\ e.size = s
      /\ t \in Chunk /\ t.at = c[n].at + Hdr + s
  BY <1>0 DEF Chunk
<1>2. /\ EndOf(e) = t.at
      /\ t.at + Hdr <= HeapSize
  BY <1>0, <1>1, <1>room DEF EndOf
<1>3. n = 1 => e.at = 0
  BY <1>1 DEF WellFormed, Ordered
<1>4. n > 1 => EndOf(c[n - 1]) <= e.at
  <2>1. SUFFICES ASSUME n > 1 PROVE EndOf(c[n - 1]) <= c[n].at
    BY <1>1
  <2>2. n - 1 \in 1 .. n /\ n - 1 < n
    BY <2>1, <1>0
  <2>3. QED
    BY <2>2, <1>0 DEF WellFormed, Ordered, n
<1> HIDE DEF e, t
<1>5. /\ WellFormed(b) /\ Len(b) = n /\ b[n] = e
      /\ \A j \in 1 .. n : j # n => b[j] = c[j]
  <2>1. (n < n => EndOf(e) <= c[n + 1].at) /\ (n \in 2 .. n - 1 => e.size > 0)
    BY <1>0
  <2>2. e.at + Hdr <= HeapSize
    BY <1>0, <1>1
  <2>3. Fits(c, n, e)
    BY <2>1, <2>2, <1>0, <1>1, <1>3, <1>4 DEF Fits, n
  <2>4. QED
    BY <2>3, ReplaceWellFormed DEF n
<1> HIDE DEF b
<1>6. /\ WellFormed(Append(b, t))
      /\ Len(Append(b, t)) = n + 1
      /\ \A j \in 1 .. n : Append(b, t)[j] = b[j]
  <2>1. b[Len(b)].size > 0 /\ EndOf(b[Len(b)]) <= t.at
    BY <1>0, <1>1, <1>2, <1>5 DEF Chunk
  <2>2. QED
    BY <2>1, <1>1, <1>2, <1>5, AppendWellFormed
<1>7. Append(b, t) = Extend(c, s)
  BY DEF Extend, Put, b, e, t, n
<1>8. (\A j \in 1 .. n - 1 : Append(b, t)[j] = c[j]) /\ Append(b, t)[n] = e
  BY <1>0, <1>5, <1>6
<1>9. QED
  BY <1>6, <1>7, <1>8 DEF e, n

-----------------------------------------------------------------------------
(***************************************************************************)
(* Blocks of a well-formed list.                                           *)
(***************************************************************************)

\* The bodies of two chunks of a well-formed list are disjoint; their
\* pointers differ, even when a body is empty, because of the header.
LEMMA BodiesApart ==
  ASSUME NEW c, WellFormed(c), NEW i \in 1 .. Len(c), NEW j \in 1 .. Len(c), i < j
  PROVE  /\ Body(c[i]) + c[i].size < Body(c[j])
         /\ Body(c[i]) < Body(c[j])
<1>1. /\ c[i].at \in Nat /\ c[j].at \in Nat /\ c[i].size \in Nat
      /\ Hdr \in Nat /\ Hdr > 0
  BY WellFormedFacts
<1>2. EndOf(c[i]) <= c[j].at
  BY DEF WellFormed, Ordered
<1>3. /\ EndOf(c[i]) \in Nat /\ EndOf(c[i]) = Body(c[i]) + c[i].size
      /\ Body(c[i]) \in Nat
  BY <1>1, EndOfNat
<1>4. Body(c[j]) = c[j].at + Hdr
  BY DEF Body
<1>5. QED
  BY <1>1, <1>2, <1>3, <1>4

\* A pointer identifies a chunk.
LEMMA BodyUnique ==
  ASSUME NEW c, WellFormed(c), NEW i \in 1 .. Len(c), NEW j \in 1 .. Len(c),
         Body(c[i]) = Body(c[j])
  PROVE  i = j
<1>0. Len(c) \in Nat /\ Hdr \in Nat /\ \A k \in 1 .. Len(c) : c[k].at \in Nat
  BY WellFormedFacts
<1>1. Len(c) \in Nat /\ \A k \in 1 .. Len(c) : Body(c[k]) \in Nat
  BY <1>0 DEF Body
<1>2. CASE i < j
  BY <1>1, <1>2, BodiesApart
<1>3. CASE j < i
  BY <1>1, <1>3, BodiesApart
<1>4. QED
  BY <1>1, <1>2, <1>3

\* What m_shift_next_chunk does to the list.
LEMMA ShiftWellFormed ==
  ASSUME NEW c, WellFormed(c), NEW i \in 1 .. Len(c), i + 1 < Len(c)
  PROVE  /\ WellFormed(m_shift_next_chunk(c, i))
         /\ Len(m_shift_next_chunk(c, i)) = Len(c)
         /\ m_shift_next_chunk(c, i)[i + 1].size = c[i + 1].size
         /\ \A j \in 1 .. Len(c) : j # i + 1 => m_shift_next_chunk(c, i)[j] = c[j]
<1>1. CASE c[i + 1].at > EndOf(c[i])
  <2> DEFINE n == Len(c)
             k == i + 1
             e == [at |-> EndOf(c[i]), size |-> c[i + 1].size]
  <2>1. n \in Nat /\ Hdr \in Nat /\ Hdr > 0 /\ HeapSize \in Nat
    BY WellFormedFacts
  <2>2. i \in 1 .. n /\ k \in 2 .. n - 1 /\ k + 1 \in 1 .. n /\ k \in 1 .. n /\ k - 1 = i
    BY <2>1
  <2>3. /\ c[i].at \in Nat /\ c[i].size \in Nat
        /\ c[k].at \in Nat /\ c[k].size \in Nat /\ c[k].at + Hdr <= HeapSize
        /\ c[k + 1].at \in Nat
    BY <2>2, WellFormedFacts
  <2>4. EndOf(c[k]) <= c[k + 1].at /\ c[k].size > 0
    BY <2>1, <2>2 DEF WellFormed, Ordered, NonEmpty
  <2>x. EndOf(c[i]) \in Nat /\ EndOf(c[i]) < c[k].at
    <3>1. \A ch \in Chunk : EndOf(ch) \in Nat
      BY <2>1 DEF EndOf, Chunk
    <3>2. EndOf(c[i]) \in Nat
      BY <3>1, WellFormedFacts
    <3>3. QED
      BY <3>2, <1>1, <2>3
  <2>5. e \in Chunk /\ e.at = EndOf(c[i]) /\ e.size = c[k].size
    <3>1. c[i + 1].size \in Nat
      BY <2>3
    <3>2. QED
      BY <3>1, <2>x DEF Chunk
  <2>6. m_shift_next_chunk(c, i) = Put(c, k, e)
    BY <1>1 DEF m_shift_next_chunk, Put
  <2> HIDE DEF k, e
  <2>8. e.at + Hdr <= HeapSize /\ EndOf(e) <= c[k + 1].at /\ EndOf(c[i]) <= e.at
    <3>1. EndOf(e) = EndOf(c[i]) + Hdr + c[k].size
      BY <2>5 DEF EndOf
    <3>2. c[k].at + Hdr + c[k].size <= c[k + 1].at
      BY <2>4 DEF EndOf
    <3>3. EndOf(e) <= c[k + 1].at
      <4>1. PICK x \in Nat : x = EndOf(c[i])
        BY <2>x
      <4>2. PICK y \in Nat : y = c[k].at
        BY <2>3
      <4>3. PICK z \in Nat : z = c[k].size
        BY <2>3
      <4>4. PICK w \in Nat : w = c[k + 1].at
        BY <2>3
      <4>5. x < y /\ y + Hdr + z <= w
        BY <4>1, <4>2, <4>3, <4>4, <3>2, <2>x
      <4>6. x + Hdr + z <= w
        BY <4>5, <2>1
      <4>7. QED
        BY <4>1, <4>3, <4>4, <4>6, <3>1
    <3>4. EndOf(c[i]) + Hdr <= HeapSize
      BY <2>x, <2>1, <2>3
    <3>5. QED
      BY <3>3, <3>4, <2>5, <2>x
  <2>9. Fits(c, k, e)
    BY <2>1, <2>2, <2>4, <2>5, <2>8 DEF Fits
  <2>10. /\ WellFormed(Put(c, k, e))
         /\ Len(Put(c, k, e)) = Len(c)
         /\ Put(c, k, e)[k] = e
         /\ \A j \in 1 .. Len(c) : j # k => Put(c, k, e)[j] = c[j]
    BY <2>9, ReplaceWellFormed
  <2>11. QED
    BY <2>5, <2>6, <2>10 DEF k
<1>2. CASE ~(c[i + 1].at > EndOf(c[i]))
  BY <1>2 DEF m_shift_next_chunk
<1>3. QED
  BY <1>1, <1>2

-----------------------------------------------------------------------------
(***************************************************************************)
(* What the operations do to the set of chunks before the terminal.        *)
(***************************************************************************)
Blocks(c) == {c[i] : i \in 1 .. Len(c) - 1}

\* d is c with a chunk of s bytes for the pointer p.
Adds(c, d, p, s) ==
  /\ WellFormed(d)
  /\ Len(d) = Len(c) + 1
  /\ d[Len(d)].size = c[Len(c)].size \/ d[Len(d)].size = 0
  /\ p \in 1 .. HeapSize
  /\ \A g \in Blocks(d) : g \in Blocks(c) \/ (Body(g) = p /\ g.size = s)
  /\ \E g \in Blocks(d) : Body(g) = p /\ g.size = s
  /\ Blocks(c) \subseteq Blocks(d)
  /\ \A g \in Blocks(c) : Body(g) # p
  /\ Len(c) > 1 => d[1] = c[1]
  /\ Len(c) = 1 => d[1].size = s
  /\ Len(c) > 1 => Body(c[1]) # p

\* The pointer of any chunk is an address of the heap.
LEMMA BodyInHeap ==
  ASSUME NEW c, WellFormed(c), NEW i \in 1 .. Len(c)
  PROVE  Body(c[i]) \in 1 .. HeapSize
<1>1. c[i].at \in Nat /\ c[i].at + Hdr <= HeapSize /\ Hdr \in Nat /\ Hdr > 0 /\ HeapSize \in Nat
  BY WellFormedFacts
<1> QED
  BY <1>1 DEF Body

\* When one position of d is new and all others come from c, in order.
LEMMA AddsAt ==
  ASSUME NEW c, NEW d, NEW p, NEW s, NEW k \in 1 .. Len(c),
         WellFormed(c), WellFormed(d), Len(d) = Len(c) + 1,
         d[Len(d)].size = c[Len(c)].size \/ d[Len(d)].size = 0,
         Body(d[k]) = p, d[k].size = s,
         \A j \in 1 .. k - 1 : d[j] = c[j],
         \A j \in k .. Len(c) - 1 : d[j + 1] = c[j],
         Len(c) > 1 => k > 1
  PROVE  Adds(c, d, p, s)
<1>0. Len(c) \in Nat /\ Len(c) >= 1 /\ k \in 1 .. Len(d) - 1 /\ k \in 1 .. Len(d) /\ k \in Nat
  BY WellFormedFacts
<1>1. p \in 1 .. HeapSize
  BY <1>0, BodyInHeap
<1>2. ASSUME NEW g \in Blocks(d)
      PROVE  g \in Blocks(c) \/ (Body(g) = p /\ g.size = s)
  <2>1. PICK j \in 1 .. Len(d) - 1 : g = d[j]
    BY DEF Blocks
  <2>2. CASE j < k
    <3>1. j \in 1 .. k - 1 /\ j \in 1 .. Len(c) - 1
      BY <2>2, <1>0
    <3> QED
      BY <3>1, <2>1 DEF Blocks
  <2>3. CASE j = k
    BY <2>1, <2>3
  <2>4. CASE j > k
    <3>1. j - 1 \in k .. Len(c) - 1 /\ (j - 1) + 1 = j /\ j - 1 \in 1 .. Len(c) - 1
      BY <2>4, <1>0
    <3>2. d[j] = c[j - 1]
      BY <3>1
    <3> QED
      BY <3>1, <3>2, <2>1 DEF Blocks
  <2> QED
    BY <2>2, <2>3, <2>4, <1>0
<1>3. d[k] \in Blocks(d)
  BY <1>0 DEF Blocks
<1>4. ASSUME NEW g \in Blocks(c)
      PROVE  g \in Blocks(d) /\ Body(g) # p
  <2>1. PICK j \in 1 .. Len(c) - 1 : g = c[j]
    BY DEF Blocks
  <2>2. CASE j < k
    <3>1. j \in 1 .. k - 1 /\ j \in 1 .. Len(d) - 1 /\ j \in 1 .. Len(d)
      BY <2>2, <1>0
    <3>2. d[j] = g
      BY <3>1, <2>1
    <3>3. Body(d[j]) # Body(d[k])
      BY <3>1, <2>2, <1>0, BodyUnique
    <3> QED
      BY <3>1, <3>2, <3>3 DEF Blocks
  <2>3. CASE ~(j < k)
    <3>1. j \in k .. Len(c) - 1 /\ j + 1 \in 1 .. Len(d) - 1 /\ j + 1 \in 1 .. Len(d) /\ j + 1 # k
      BY <2>3, <1>0
    <3>2. d[j + 1] = g
      BY <3>1, <2>1
    <3>3. Body(d[j + 1]) # Body(d[k])
      BY <3>1, <1>0, BodyUnique
    <3> QED
      BY <3>1, <3>2, <3>3 DEF Blocks
  <2> QED
    BY <2>2, <2>3
<1>5. Len(c) > 1 => d[1] = c[1] /\ Body(c[1]) # p
  <2> SUFFICES ASSUME Len(c) > 1 PROVE d[1] = c[1] /\ Body(c[1]) # p
    OBVIOUS
  <2>1. 1 \in 1 .. k - 1 /\ 1 \in 1 .. Len(c) - 1
    BY <1>0
  <2> QED
    BY <2>1, <1>4 DEF Blocks
<1>6. Len(c) = 1 => d[1].size = s
  BY <1>0
<1> QED
  BY <1>1, <1>2, <1>3, <1>4, <1>5, <1>6 DEF Adds

\* m_alloc adds a chunk, or leaves the list alone and returns NULL.
LEMMA AllocAdds ==
  ASSUME NEW c, WellFormed(c), NEW s \in Nat \ {0}
  PROVE  \/ m_alloc(c, s) = [chain |-> c, ptr |-> NULL]
         \/ /\ Adds(c, m_alloc(c, s).chain, m_alloc(c, s).ptr, s)
            /\ m_alloc(c, s) = [chain |-> m_alloc(c, s).chain, ptr |-> m_alloc(c, s).ptr]
<1>0. /\ Len(c) \in Nat /\ Len(c) >= 1 /\ Hdr \in Nat /\ Hdr > 0
      /\ \A j \in 1 .. Len(c) : c[j].at \in Nat /\ c[j].size \in Nat
  BY WellFormedFacts
<1>1. PICK i : i = WalkStop(c, s)
  OBVIOUS
<1>2. i \in 1 .. Len(c) /\ StopsAt(c, s, i)
  BY <1>1, WalkStops DEF WellFormed
<1>3. CASE i < Len(c)
  <2>1. Gap(c, s, i)
    BY <1>2, <1>3 DEF StopsAt
  <2>2. m_alloc(c, s) = [chain |-> PlaceInGap(c, s, i), ptr |-> EndOf(c[i]) + Hdr]
    BY <1>1, <1>3 DEF m_alloc
  <2>3. PICK d : d = PlaceInGap(c, s, i)
    OBVIOUS
  <2>4. /\ WellFormed(d) /\ Len(d) = Len(c) + 1
        /\ \A j \in 1 .. i : d[j] = c[j]
        /\ d[i + 1] = [at |-> EndOf(c[i]), size |-> s]
        /\ \A j \in i + 1 .. Len(c) : d[j + 1] = c[j]
    BY <1>2, <2>1, <2>3, PlaceInGapWellFormed
  <2>5. PICK k : k = i + 1
    OBVIOUS
  <2>6. k \in 1 .. Len(c) /\ k > 1 /\ Len(c) \in i + 1 .. Len(c)
    BY <2>5, <1>0, <1>2, <1>3
  <2>7. Body(d[k]) = EndOf(c[i]) + Hdr /\ d[k].size = s
    BY <2>4, <2>5 DEF Body
  <2>8. d[Len(d)] = c[Len(c)]
    BY <2>4, <2>6
  <2>9. (\A j \in 1 .. k - 1 : d[j] = c[j]) /\ (\A j \in k .. Len(c) - 1 : d[j + 1] = c[j])
    BY <2>4, <2>5, <1>0, <1>2
  <2>10. Adds(c, d, EndOf(c[i]) + Hdr, s)
    BY <2>4, <2>6, <2>7, <2>8, <2>9, AddsAt
  <2> QED
    BY <2>2, <2>3, <2>10
<1>4. CASE i = Len(c) /\ RoomAtEnd(c, s)
  <2>2. m_alloc(c, s) = [chain |-> Extend(c, s), ptr |-> Body(c[i])]
    BY <1>1, <1>4 DEF m_alloc
  <2>3. PICK d : d = Extend(c, s)
    OBVIOUS
  <2>4. /\ WellFormed(d) /\ Len(d) = Len(c) + 1
        /\ \A j \in 1 .. Len(c) - 1 : d[j] = c[j]
        /\ d[Len(c)] = [at |-> c[Len(c)].at, size |-> s]
    BY <1>4, <2>3, ExtendWellFormed
  <2>5. d[Len(d)].size = 0
    <3>1. PICK b : b = [c EXCEPT ![Len(c)] = [at |-> c[Len(c)].at, size |-> s]]
      OBVIOUS
    <3>2. b \in Seq(Chunk) /\ Len(b) = Len(c)
      <4>1. PICK e : e = [at |-> c[Len(c)].at, size |-> s]
        OBVIOUS
      <4>2. e \in Chunk /\ c \in Seq(Chunk) /\ Len(c) \in 1 .. Len(c)
        BY <4>1, <1>0 DEF Chunk, WellFormed
      <4>3. b = [c EXCEPT ![Len(c)] = e]
        BY <4>1, <3>1
      <4> QED
        BY <4>2, <4>3, ExceptSeq
    <3>3. d = Append(b, [at |-> c[Len(c)].at + Hdr + s, size |-> 0])
      BY <2>3, <3>1 DEF Extend
    <3> QED
      BY <3>2, <3>3, <2>4
  <2>6. Len(c) \in 1 .. Len(c) /\ (Len(c) > 1 => Len(c) > 1)
    BY <1>0
  <2>7. Body(d[Len(c)]) = Body(c[i]) /\ d[Len(c)].size = s
    BY <2>4, <1>4 DEF Body
  <2>9. \A j \in Len(c) .. Len(c) - 1 : d[j + 1] = c[j]
    BY <1>0
  <2>10. Adds(c, d, Body(c[i]), s)
    BY <2>4, <2>5, <2>6, <2>7, <2>9, AddsAt
  <2> QED
    BY <2>2, <2>3, <2>10
<1>5. CASE i = Len(c) /\ ~RoomAtEnd(c, s)
  BY <1>1, <1>5 DEF m_alloc
<1> QED
  BY <1>2, <1>3, <1>4, <1>5, <1>0

\* The terminal moves to the end of its predecessor, or a chunk is unlinked.
LEMMA UnlinkGives ==
  ASSUME NEW c, WellFormed(c), NEW i \in 2 .. Len(c)
  PROVE  /\ WellFormed(Unlink(c, i))
         /\ \A j \in 1 .. i - 1 : Unlink(c, i)[j] = c[j]
         /\ i < Len(c) => /\ Len(Unlink(c, i)) = Len(c) - 1
                          /\ \A j \in i .. Len(c) - 1 : Unlink(c, i)[j] = c[j + 1]
         /\ i = Len(c) => /\ Len(Unlink(c, i)) = Len(c)
                          /\ Unlink(c, i)[i].size = 0
<1>1. /\ Len(c) \in Nat /\ i \in 1 .. Len(c) /\ i - 1 \in 1 .. Len(c) /\ i - 1 < i
  BY WellFormedFacts
<1>2. CASE i = Len(c)
  <2>1. PICK e : e = [at |-> EndOf(c[i - 1]), size |-> 0]
    OBVIOUS
  <2>2. /\ c[i - 1].at \in Nat /\ c[i - 1].size \in Nat
        /\ c[i].at \in Nat /\ c[i].at + Hdr <= HeapSize
        /\ Hdr \in Nat /\ HeapSize \in Nat
    BY <1>1, WellFormedFacts
  <2>3. EndOf(c[i - 1]) <= c[i].at
    BY <1>1 DEF WellFormed, Ordered
  <2>4. e \in Chunk /\ e.at = EndOf(c[i - 1]) /\ EndOf(c[i - 1]) \in Nat /\ e.size = 0
    <3>1. EndOf(c[i - 1]) \in Nat
      BY <2>2, EndOfNat
    <3> QED
      BY <3>1, <2>1 DEF Chunk
  <2>5. Fits(c, i, e)
    <3>1. e.at + Hdr <= HeapSize
      BY <2>2, <2>3, <2>4
    <3>2. ~(i = 1) /\ ~(i < Len(c)) /\ ~(i \in 2 .. Len(c) - 1)
      BY <1>1, <1>2
    <3>3. i > 1 => EndOf(c[i - 1]) <= e.at
      BY <2>4
    <3> QED
      BY <1>1, <2>4, <3>1, <3>2, <3>3 DEF Fits
  <2>6. Unlink(c, i) = Put(c, i, e)
    BY <1>2, <2>1 DEF Unlink, Put
  <2>7. /\ WellFormed(Put(c, i, e)) /\ Len(Put(c, i, e)) = Len(c) /\ Put(c, i, e)[i] = e
        /\ \A j \in 1 .. Len(c) : j # i => Put(c, i, e)[j] = c[j]
    BY <2>5, ReplaceWellFormed
  <2>8. \A j \in 1 .. i - 1 : j \in 1 .. Len(c) /\ j # i
    BY <1>1
  <2> QED
    BY <1>2, <2>4, <2>6, <2>7, <2>8
<1>3. CASE i < Len(c)
  <2>1. Unlink(c, i) = RemoveAt(c, i)
    BY <1>3 DEF Unlink
  <2>2. /\ WellFormed(RemoveAt(c, i))
        /\ Len(RemoveAt(c, i)) = Len(c) - 1
        /\ \A j \in 1 .. i - 1 : RemoveAt(c, i)[j] = c[j]
        /\ \A j \in i .. Len(c) - 1 : RemoveAt(c, i)[j] = c[j + 1]
    BY RemoveWellFormed
  <2>3. i # Len(c)
    BY <1>1, <1>3
  <2> QED
    BY <2>1, <2>2, <2>3
<1> QED
  BY <1>1, <1>2, <1>3

\* m_free finds the chunk of p behind the root and unlinks it, or does nothing.
LEMMA FreeUnlinks ==
  ASSUME NEW c, WellFormed(c), NEW p, Len(c) > 1, c[1].size > 0 \/ c[2].size > 0
  PROVE  \/ m_free(c, p) = c /\ \A i \in 2 .. Len(c) : Body(c[i]) # p
         \/ \E i \in 2 .. Len(c) : Body(c[i]) = p /\ m_free(c, p) = Unlink(c, i)
<1>1. Len(c) \in Nat
  BY WellFormedFacts
<1>2. Compact(c) = c
  BY DEF Compact
<1>3. CASE \E i \in 1 .. Len(c) : Found(c, p, i)
  <2>1. PICK i : i = CHOOSE k \in 1 .. Len(c) : Found(c, p, k)
    OBVIOUS
  <2>2. Found(c, p, i)
    BY <1>3, <2>1
  <2>3. m_free(c, p) = Unlink(c, i)
    BY <1>2, <1>3, <2>1 DEF m_free
  <2> QED
    BY <2>2, <2>3 DEF Found
<1>4. CASE ~ \E i \in 1 .. Len(c) : Found(c, p, i)
  <2>1. m_free(c, p) = c
    BY <1>2, <1>4 DEF m_free
  <2>2. \A i \in 2 .. Len(c) : Body(c[i]) # p
    BY <1>1, <1>4 DEF Found
  <2> QED
    BY <2>1, <2>2
<1> QED
  BY <1>3, <1>4

\* d is c without the chunk of the pointer p, if it is not the root's.
Drops(c, d, p) ==
  /\ WellFormed(d)
  /\ Len(d) > 1
  /\ d[Len(d)].size = 0
  /\ d[1] = c[1]
  /\ Blocks(d) \subseteq Blocks(c)
  /\ \A g \in Blocks(c) : Body(g) # p \/ g = c[1] => g \in Blocks(d)
  /\ \A g \in Blocks(d) : Body(g) # p \/ Body(g) = Body(c[1])

\* m_free of any pointer.
LEMMA FreeDrops ==
  ASSUME NEW c, WellFormed(c), NEW p, Len(c) > 1, c[Len(c)].size = 0,
         c[1].size > 0 \/ c[2].size > 0
  PROVE  Drops(c, m_free(c, p), p)
<1>1. Len(c) \in Nat
  BY WellFormedFacts
<1>2. CASE m_free(c, p) = c /\ \A i \in 2 .. Len(c) : Body(c[i]) # p
  <2>1. ASSUME NEW g \in Blocks(c)
        PROVE  Body(g) # p \/ Body(g) = Body(c[1])
    <3>1. PICK j \in 1 .. Len(c) - 1 : g = c[j]
      BY DEF Blocks
    <3>2. j = 1 \/ j \in 2 .. Len(c)
      BY <1>1
    <3> QED
      BY <3>1, <3>2, <1>2
  <2> QED
    BY <1>2, <2>1 DEF Drops
<1>3. ASSUME NEW i \in 2 .. Len(c), Body(c[i]) = p, m_free(c, p) = Unlink(c, i)
      PROVE  Drops(c, m_free(c, p), p)
  <2>1. PICK d : d = Unlink(c, i)
    OBVIOUS
  <2>2. /\ WellFormed(d)
        /\ \A j \in 1 .. i - 1 : d[j] = c[j]
        /\ i < Len(c) => /\ Len(d) = Len(c) - 1
                         /\ \A j \in i .. Len(c) - 1 : d[j] = c[j + 1]
        /\ i = Len(c) => Len(d) = Len(c) /\ d[i].size = 0
    BY <2>1, UnlinkGives
  <2>3. i \in Nat /\ i >= 2 /\ i <= Len(c) /\ i \in 1 .. Len(c) /\ 1 \in 1 .. i - 1
    BY <1>1
  <2>4. d[1] = c[1]
    BY <2>2, <2>3
  <2>5. Len(d) > 1 /\ d[Len(d)].size = 0
    <3>1. CASE i = Len(c)
      BY <3>1, <2>2
    <3>2. CASE i < Len(c)
      <4>1. Len(c) - 1 \in i .. Len(c) - 1 /\ (Len(c) - 1) + 1 = Len(c) /\ Len(c) - 1 > 1
        BY <3>2, <2>3, <1>1
      <4> QED
        BY <4>1, <3>2, <2>2
    <3> QED
      BY <3>1, <3>2, <2>3, <1>1
  <2>6. ASSUME NEW g \in Blocks(d)
        PROVE  g \in Blocks(c) /\ Body(g) # p
    <3>1. PICK j \in 1 .. Len(d) - 1 : g = d[j]
      BY DEF Blocks
    <3>2. CASE j < i
      <4>1. j \in 1 .. i - 1 /\ j \in 1 .. Len(c) - 1 /\ j \in 1 .. Len(c) /\ j # i
        BY <3>2, <2>3, <1>1
      <4>2. g = c[j]
        BY <3>1, <4>1, <2>2
      <4> QED
        BY <4>1, <4>2, <2>3, <1>3, BodyUnique DEF Blocks
    <3>3. CASE ~(j < i)
      <4>0. i < Len(c) /\ Len(d) = Len(c) - 1
        BY <3>3, <2>2, <2>3, <1>1
      <4>1. j \in i .. Len(c) - 1 /\ j + 1 \in 1 .. Len(c) - 1 /\ j + 1 \in 1 .. Len(c) /\ j + 1 # i
        BY <3>3, <4>0, <2>3, <1>1
      <4>2. g = c[j + 1]
        BY <3>1, <4>0, <4>1, <2>2
      <4> QED
        BY <4>1, <4>2, <2>3, <1>3, BodyUnique DEF Blocks
    <3> QED
      BY <3>2, <3>3
  <2>7. ASSUME NEW g \in Blocks(c), Body(g) # p \/ g = c[1]
        PROVE  g \in Blocks(d)
    <3>1. PICK j \in 1 .. Len(c) - 1 : g = c[j]
      BY DEF Blocks
    <3>2. j # i
      <4>1. CASE Body(g) # p
        BY <4>1, <3>1, <1>3
      <4>2. CASE g = c[1]
        <5>1. 1 \in 1 .. Len(c) /\ j \in 1 .. Len(c) /\ 1 # i
          BY <1>1, <2>3
        <5> QED
          BY <5>1, <4>2, <3>1, BodyUnique
      <4> QED
        BY <4>1, <4>2, <2>7
    <3>3. CASE j < i
      <4>1. j \in 1 .. i - 1 /\ j \in 1 .. Len(d) - 1
        BY <3>3, <2>2, <2>3, <1>1
      <4> QED
        BY <4>1, <3>1, <2>2 DEF Blocks
    <3>4. CASE j > i
      <4>0. i < Len(c) /\ Len(d) = Len(c) - 1
        BY <3>4, <2>2, <2>3, <1>1
      <4>1. j - 1 \in i .. Len(c) - 1 /\ (j - 1) + 1 = j /\ j - 1 \in 1 .. Len(d) - 1
        BY <3>4, <4>0, <2>3, <1>1
      <4>2. d[j - 1] = c[j]
        BY <4>0, <4>1, <2>2
      <4> QED
        BY <4>1, <4>2, <3>1 DEF Blocks
    <3> QED
      BY <3>2, <3>3, <3>4, <2>3, <1>1
  <2> QED
    BY <2>1, <2>2, <2>4, <2>5, <2>6, <2>7, <1>3 DEF Drops
<1> QED
  BY <1>2, <1>3, FreeUnlinks
=============================================================================
