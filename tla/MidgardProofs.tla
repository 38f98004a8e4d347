--------------------------- MODULE MidgardProofs ---------------------------
(***************************************************************************)
(* Proofs about the midgard heap, for every heap size, header size and set *)
(* of request lengths.                                                     *)
(***************************************************************************)
EXTENDS Midgard, MidgardHeapProofs

-----------------------------------------------------------------------------
\* The blocks of the users and the chunks of a list c account for each
\* other: this is what every operation preserves.
Accounts(c, H) ==
  /\ WellFormed(c)
  /\ \A b \in H : b.size \in Sizes
  /\ \A b \in H : \E i \in 1 .. Len(c) - 1 : b = BlockOf(c[i])
  /\ \A i \in 2 .. Len(c) - 1 : BlockOf(c[i]) \in H

IInv == Accounts(chain, held)

\* The fields of the block of a chunk.
LEMMA BlockOfFields ==
  ASSUME NEW ch
  PROVE  BlockOf(ch).ptr = Body(ch) /\ BlockOf(ch).size = ch.size
BY DEF BlockOf

\* The blocks lie inside the heap and behind the root's header.
LEMMA AccountsTyped ==
  ASSUME NEW c, NEW H, Accounts(c, H), NEW b \in H
  PROVE  /\ b.ptr \in 1 .. HeapSize
         /\ b.size \in Sizes
         /\ b.size \in Nat
         /\ b.ptr + b.size <= HeapSize
         /\ b = [ptr |-> b.ptr, size |-> b.size]
<1>0. WellFormed(c) /\ b.size \in Sizes
  BY DEF Accounts
<1>1. PICK i \in 1 .. Len(c) - 1 : b = BlockOf(c[i])
  BY DEF Accounts
<1>2. /\ Len(c) \in Nat /\ Hdr \in Nat /\ Hdr > 0 /\ HeapSize \in Nat
  BY <1>0, WellFormedFacts
<1>3. i \in 1 .. Len(c) /\ Len(c) \in 1 .. Len(c) /\ i < Len(c)
  BY <1>2
<1>4. /\ c[i].at \in Nat /\ c[i].size \in Nat
      /\ c[Len(c)].at \in Nat /\ c[Len(c)].at + Hdr <= HeapSize
  BY <1>0, <1>3, WellFormedFacts
<1>5. EndOf(c[i]) <= c[Len(c)].at
  BY <1>0, <1>3 DEF WellFormed, Ordered
<1>6. b.ptr = Body(c[i]) /\ b.size = c[i].size
  BY <1>1, BlockOfFields
<1>e. /\ EndOf(c[i]) \in Nat /\ EndOf(c[i]) = Body(c[i]) + c[i].size
      /\ Body(c[i]) \in Nat /\ Body(c[i]) = c[i].at + Hdr
  BY <1>4, EndOfNat
<1>f. Body(c[i]) \in 1 .. HeapSize /\ Body(c[i]) + c[i].size <= HeapSize
  <2> DEFINE t == c[Len(c)].at
             x == EndOf(c[i])
             y == Body(c[i])
             z == c[i].size
             w == c[i].at
  <2>1. /\ t \in Nat /\ x \in Nat /\ y \in Nat /\ z \in Nat /\ w \in Nat
        /\ x <= t /\ t + Hdr <= HeapSize /\ x = y + z /\ y = w + Hdr
    BY <1>4, <1>5, <1>e
  <2> HIDE DEF t, x, y, z, w
  <2>2. y \in 1 .. HeapSize /\ y + z <= HeapSize
    BY <1>2, <2>1
  <2>3. QED
    BY <2>2 DEF y, z
<1>7. b = [ptr |-> b.ptr, size |-> b.size]
  BY <1>1, BlockOfFields DEF BlockOf
<1>8. QED
  BY <1>0, <1>4, <1>6, <1>7, <1>f

-----------------------------------------------------------------------------
(***************************************************************************)
(* Each operation keeps the accounts.                                      *)
(***************************************************************************)

\* m_alloc in the first gap.
LEMMA GapAccounts ==
  ASSUME NEW c, NEW H, Accounts(c, H), NEW s \in Sizes,
         NEW i \in 1 .. Len(c), Gap(c, s, i)
  PROVE  /\ Accounts(PlaceInGap(c, s, i),
                     H \cup {[ptr |-> EndOf(c[i]) + Hdr, size |-> s]})
         /\ EndOf(c[i]) + Hdr # NULL
         /\ [ptr |-> EndOf(c[i]) + Hdr, size |-> s] \notin H
<1> DEFINE n == Len(c)
           d == PlaceInGap(c, s, i)
           new == [ptr |-> EndOf(c[i]) + Hdr, size |-> s]
           G == H \cup {new}
<1>0. WellFormed(c)
  BY DEF Accounts
<1>1. /\ n \in Nat /\ Hdr \in Nat /\ Hdr > 0
      /\ c[i].at \in Nat /\ c[i].size \in Nat
  BY <1>0, WellFormedFacts
<1>2. i \in 1 .. n - 1
  BY <1>1 DEF Gap
<1>3. /\ WellFormed(d)
      /\ Len(d) = n + 1
      /\ \A j \in 1 .. i : d[j] = c[j]
      /\ d[i + 1] = [at |-> EndOf(c[i]), size |-> s]
      /\ \A j \in i + 1 .. n : d[j + 1] = c[j]
  BY UsersAssumption, <1>0, PlaceInGapWellFormed
<1>4. new = BlockOf(d[i + 1])
  BY <1>3 DEF BlockOf, Body
<1>5. \A b \in G : b.size \in Sizes
  BY DEF Accounts
<1>6. EndOf(c[i]) + Hdr # NULL
  BY <1>1 DEF EndOf, NULL
<1>7. /\ \A b \in H : \E k \in 1 .. n - 1 : b = BlockOf(c[k])
      /\ \A k \in 2 .. n - 1 : BlockOf(c[k]) \in H
  BY DEF Accounts
<1> HIDE DEF n, d, new
<1>8. ASSUME NEW b \in G
      PROVE  \E k \in 1 .. n : b = BlockOf(d[k])
  <2>1. CASE b = new
    <3>1. i + 1 \in 1 .. n
      BY <1>1, <1>2
    <3>2. QED
      BY <2>1, <3>1, <1>4
  <2>2. CASE b \in H
    <3>1. PICK k \in 1 .. n - 1 : b = BlockOf(c[k])
      BY <2>2, <1>7
    <3>2. CASE k \in 1 .. i
      <4>1. k \in 1 .. n /\ d[k] = c[k]
        BY <3>2, <1>1, <1>2, <1>3
      <4>2. QED
        BY <3>1, <4>1
    <3>3. CASE k \in i + 1 .. n
      <4>1. k + 1 \in 1 .. n /\ d[k + 1] = c[k]
        BY <3>3, <1>1, <1>2, <1>3
      <4>2. QED
        BY <3>1, <4>1
    <3>4. QED
      BY <3>2, <3>3, <1>1, <1>2
  <2>3. QED
    BY <2>1, <2>2
<1>9. ASSUME NEW k \in 2 .. n
      PROVE  BlockOf(d[k]) \in G
  <2>1. CASE k \in 1 .. i
    <3>1. k \in 2 .. n - 1 /\ d[k] = c[k]
      BY <2>1, <1>1, <1>2, <1>3
    <3>2. QED
      BY <3>1, <1>7
  <2>2. CASE k = i + 1
    BY <2>2, <1>4
  <2>3. CASE k \in i + 2 .. n
    <3>1. k - 1 \in 2 .. n - 1 /\ k - 1 \in i + 1 .. n /\ (k - 1) + 1 = k
      BY <2>3, <1>1, <1>2
    <3>2. d[k] = c[k - 1]
      BY <3>1, <1>3
    <3>3. QED
      BY <3>1, <3>2, <1>7
  <2>4. QED
    BY <2>1, <2>2, <2>3, <1>1, <1>2
<1>10. (n + 1) - 1 = n
  BY <1>1
<1>11. Accounts(d, G)
  BY <1>3, <1>5, <1>8, <1>9, <1>10 DEF Accounts
<1>12. ASSUME new \in H PROVE FALSE
  <2>1. PICK k \in 1 .. n - 1 : new = BlockOf(c[k])
    BY <1>7, <1>12
  <2>2. PICK m \in 1 .. n + 1 : m # i + 1 /\ d[m] = c[k]
    <3>1. CASE k \in 1 .. i
      <4>1. k \in 1 .. n + 1 /\ k # i + 1 /\ d[k] = c[k]
        BY <3>1, <1>1, <1>2, <1>3
      <4>2. QED
        BY <4>1
    <3>2. CASE k \in i + 1 .. n
      <4>1. k + 1 \in 1 .. n + 1 /\ k + 1 # i + 1 /\ d[k + 1] = c[k]
        BY <3>2, <1>1, <1>2, <1>3
      <4>2. QED
        BY <4>1
    <3>3. QED
      BY <3>1, <3>2, <1>1, <1>2
  <2>3. Body(d[m]) = Body(d[i + 1])
    BY <2>1, <2>2, <1>4, BlockOfFields
  <2>4. i + 1 \in 1 .. n + 1
    BY <1>1, <1>2
  <2>5. QED
    BY <2>2, <2>3, <2>4, <1>3, BodyUnique
<1>13. QED
  BY <1>6, <1>11, <1>12 DEF d, new

\* m_alloc at the end of the list.
LEMMA ExtendAccounts ==
  ASSUME NEW c, NEW H, Accounts(c, H), NEW s \in Sizes, RoomAtEnd(c, s)
  PROVE  /\ Accounts(Extend(c, s),
                     H \cup {[ptr |-> Body(c[Len(c)]), size |-> s]})
         /\ Body(c[Len(c)]) # NULL
         /\ [ptr |-> Body(c[Len(c)]), size |-> s] \notin H
<1> DEFINE n == Len(c)
           d == Extend(c, s)
           new == [ptr |-> Body(c[n]), size |-> s]
           G == H \cup {new}
<1>0. WellFormed(c)
  BY DEF Accounts
<1>1. n \in Nat /\ n >= 1 /\ Hdr \in Nat /\ Hdr > 0
  BY <1>0, WellFormedFacts
<1>2. c[n].at \in Nat
  <2>1. n \in 1 .. n
    BY <1>1
  <2>2. QED
    BY <2>1, <1>0, WellFormedFacts
<1>3. /\ WellFormed(d)
      /\ Len(d) = n + 1
      /\ \A j \in 1 .. n - 1 : d[j] = c[j]
      /\ d[n] = [at |-> c[n].at, size |-> s]
  BY UsersAssumption, <1>0, ExtendWellFormed
<1>4. new = BlockOf(d[n])
  BY <1>3 DEF BlockOf, Body
<1>5. \A b \in G : b.size \in Sizes
  BY DEF Accounts
<1>6. Body(c[n]) # NULL
  BY <1>1, <1>2 DEF Body, NULL
<1>7. /\ \A b \in H : \E k \in 1 .. n - 1 : b = BlockOf(c[k])
      /\ \A k \in 2 .. n - 1 : BlockOf(c[k]) \in H
  BY DEF Accounts
<1> HIDE DEF n, d, new
<1>8. \A b \in G : \E k \in 1 .. n : b = BlockOf(d[k])
  <2>1. \A k \in 1 .. n - 1 : k \in 1 .. n /\ d[k] = c[k]
    BY <1>1, <1>3
  <2>2. n \in 1 .. n
    BY <1>1
  <2>3. QED
    BY <2>1, <2>2, <1>4, <1>7
<1>9. \A k \in 2 .. n : BlockOf(d[k]) \in G
  <2>1. \A k \in 2 .. n : k = n \/ (k \in 2 .. n - 1 /\ d[k] = c[k])
    BY <1>1, <1>3
  <2>2. QED
    BY <2>1, <1>4, <1>7
<1>10. (n + 1) - 1 = n
  BY <1>1
<1>11. Accounts(d, G)
  BY <1>3, <1>5, <1>8, <1>9, <1>10 DEF Accounts
<1>12. ASSUME new \in H PROVE FALSE
  <2>1. PICK k \in 1 .. n - 1 : new = BlockOf(c[k])
    BY <1>7, <1>12
  <2>2. k \in 1 .. n /\ n \in 1 .. n /\ k # n
    BY <1>1
  <2>3. Body(c[k]) = Body(c[n])
    BY <2>1, BlockOfFields DEF new
  <2>4. QED
    BY <2>2, <2>3, <1>0, BodyUnique DEF n
<1>13. QED
  BY <1>6, <1>11, <1>12 DEF d, new, n

\* The merge at the start of m_free only ever drops the terminal of a heap
\* whose root was never used.
LEMMA CompactAccounts ==
  ASSUME NEW c, NEW H, Accounts(c, H)
  PROVE  Accounts(Compact(c), H)
<1>1. CASE Len(c) > 1 /\ c[1].size = 0 /\ c[2].size = 0
  <2>0. WellFormed(c)
    BY DEF Accounts
  <2>1. Len(c) \in Nat
    BY <2>0, WellFormedFacts
  <2>2. \A k \in 2 .. Len(c) - 1 : k # 2
    BY <1>1, <2>0 DEF WellFormed, NonEmpty
  <2>3. Len(c) = 2
    <3>1. ASSUME Len(c) >= 3 PROVE FALSE
      <4>1. 2 \in 2 .. Len(c) - 1
        BY <3>1, <2>1
      <4>2. QED
        BY <4>1, <2>2
    <3>2. ~(Len(c) >= 3) /\ Len(c) > 1
      BY <1>1, <3>1
    <3>3. PICK m \in Nat : m = Len(c)
      BY <2>1
    <3>4. m = 2
      BY <3>2, <3>3
    <3>5. QED
      BY <3>3, <3>4
  <2>4. H = {}
    <3>1. SUFFICES ASSUME NEW b \in H PROVE FALSE
      OBVIOUS
    <3>2. PICK i \in 1 .. Len(c) - 1 : b = BlockOf(c[i])
      BY DEF Accounts
    <3>3. i = 1
      BY <2>3, <3>2
    <3>4. b.size = 0
      BY <1>1, <3>2, <3>3, BlockOfFields
    <3>5. b.size \in Nat \ {0}
      BY HeapAssumption, UsersAssumption DEF Accounts
    <3>6. QED
      BY <3>4, <3>5
  <2>5. WellFormed(RemoveAt(c, 2)) /\ Len(RemoveAt(c, 2)) = 1
    <3>1. PICK k : k = 2
      OBVIOUS
    <3>2. k \in 2 .. Len(c)
      BY <2>3, <3>1
    <3>3. WellFormed(RemoveAt(c, k)) /\ Len(RemoveAt(c, k)) = Len(c) - 1
      BY <2>0, <3>2, RemoveWellFormed
    <3>4. QED
      BY <2>3, <3>1, <3>3
  <2>6. \A i \in 2 .. Len(RemoveAt(c, 2)) - 1 : FALSE
    <3>1. PICK m : m = Len(RemoveAt(c, 2))
      OBVIOUS
    <3>2. m = 1
      BY <2>5, <3>1
    <3>3. \A i \in 2 .. m - 1 : FALSE
      BY <3>2
    <3>4. QED
      BY <3>1, <3>3
  <2>7. Accounts(RemoveAt(c, 2), H)
    BY <2>4, <2>5, <2>6 DEF Accounts
  <2>8. QED
    BY <1>1, <2>7 DEF Compact
<1>2. CASE ~(Len(c) > 1 /\ c[1].size = 0 /\ c[2].size = 0)
  BY <1>2 DEF Compact
<1>3. QED
  BY <1>1, <1>2

\* m_free of a pointer that belongs to chunk i.
LEMMA UnlinkAccounts ==
  ASSUME NEW c, NEW H, Accounts(c, H), NEW i \in 2 .. Len(c)
  PROVE  Accounts(Unlink(c, i), {b \in H : b.ptr # Body(c[i])})
<1> DEFINE n == Len(c)
           d == Unlink(c, i)
           G == {b \in H : b.ptr # Body(c[i])}
<1>0. WellFormed(c)
  BY DEF Accounts
<1>1. n \in Nat /\ i \in 1 .. n /\ i > 1
  BY <1>0, WellFormedFacts
<1>2. /\ \A b \in H : \E k \in 1 .. n - 1 : b = BlockOf(c[k])
      /\ \A k \in 2 .. n - 1 : BlockOf(c[k]) \in H
  BY DEF Accounts
<1>3. \A b \in G : b.size \in Sizes
  BY DEF Accounts
\* The block of another chunk stays in use.
<1>4. ASSUME NEW k \in 2 .. n - 1, k # i
      PROVE  BlockOf(c[k]) \in G
  <2>1. k \in 1 .. n
    BY <1>1
  <2>2. Body(c[k]) # Body(c[i])
    BY <1>0, <1>1, <1>4, <2>1, BodyUnique
  <2>3. QED
    BY <2>2, <1>2, BlockOfFields
\* A block that stays in use belongs to another chunk.
<1>5. ASSUME NEW b \in G
      PROVE  \E k \in 1 .. n - 1 : k # i /\ b = BlockOf(c[k])
  <2>1. PICK k \in 1 .. n - 1 : b = BlockOf(c[k])
    BY <1>2
  <2>2. k # i
    BY <2>1, BlockOfFields
  <2>3. QED
    BY <2>1, <2>2
<1> HIDE DEF G
<1>6. CASE i = n
  <2> DEFINE e == [at |-> EndOf(c[i - 1]), size |-> 0]
  <2>1. i - 1 \in 1 .. n /\ i - 1 < i
    BY <1>1
  <2>2. /\ c[i - 1].at \in Nat /\ c[i - 1].size \in Nat
        /\ c[i].at \in Nat /\ c[i].at + Hdr <= HeapSize
        /\ Hdr \in Nat /\ HeapSize \in Nat
    BY <1>0, <1>1, <2>1, WellFormedFacts
  <2>3. EndOf(c[i - 1]) <= c[i].at
    BY <1>0, <1>1, <2>1 DEF WellFormed, Ordered
  <2>4. e \in Chunk /\ e.at = EndOf(c[i - 1]) /\ EndOf(c[i - 1]) \in Nat
    <3>1. EndOf(c[i - 1]) \in Nat
      BY <2>2, EndOfNat
    <3>2. QED
      BY <3>1 DEF Chunk
  <2> HIDE DEF e
  <2>5. Fits(c, i, e)
    <3>1. e.at + Hdr <= HeapSize
      BY <2>2, <2>3, <2>4
    <3>2. ~(i = 1) /\ ~(i < n) /\ ~(i \in 2 .. n - 1)
      BY <1>1, <1>6
    <3>3. i > 1 => EndOf(c[i - 1]) <= e.at
      BY <2>4
    <3>4. QED
      BY <1>1, <2>4, <3>1, <3>2, <3>3 DEF Fits
  <2>6. d = Put(c, i, e)
    BY <1>6 DEF Unlink, Put, e
  <2>7. /\ WellFormed(d) /\ Len(d) = n
        /\ \A j \in 1 .. n : j # i => d[j] = c[j]
    BY <2>5, <2>6, <1>0, ReplaceWellFormed
  <2> HIDE DEF n, d
  <2>8. \A k \in 1 .. n - 1 : d[k] = c[k] /\ k # i
    BY <1>1, <1>6, <2>7
  <2>9. \A k \in 2 .. n - 1 : k \in 1 .. n - 1
    BY <1>1
  <2>10. /\ \A b \in G : \E k \in 1 .. n - 1 : b = BlockOf(d[k])
         /\ \A k \in 2 .. n - 1 : BlockOf(d[k]) \in G
    BY <1>4, <1>5, <2>8, <2>9
  <2>11. Accounts(d, G)
    BY <1>3, <2>7, <2>10 DEF Accounts
  <2>12. QED
    BY <2>11 DEF d, G
<1>7. CASE i # n
  <2>1. d = RemoveAt(c, i)
    BY <1>7 DEF Unlink
  <2>2. /\ WellFormed(d) /\ Len(d) = n - 1
        /\ \A j \in 1 .. i - 1 : d[j] = c[j]
        /\ \A j \in i .. n - 1 : d[j] = c[j + 1]
    BY <2>1, <1>0, RemoveWellFormed
  <2> HIDE DEF n, d
  <2>3. i \in 2 .. n - 1
    BY <1>1, <1>7
  <2>4. ASSUME NEW b \in G
        PROVE  \E k \in 1 .. n - 2 : b = BlockOf(d[k])
    <3>1. PICK k \in 1 .. n - 1 : k # i /\ b = BlockOf(c[k])
      BY <1>5
    <3>2. CASE k < i
      <4>1. k \in 1 .. n - 2 /\ d[k] = c[k]
        BY <3>2, <2>2, <2>3, <1>1
      <4>2. QED
        BY <3>1, <4>1
    <3>3. CASE k > i
      <4>1. k - 1 \in 1 .. n - 2 /\ k - 1 \in i .. n - 1 /\ (k - 1) + 1 = k
        BY <3>3, <2>3, <1>1
      <4>2. d[k - 1] = c[k]
        BY <4>1, <2>2
      <4>3. QED
        BY <3>1, <4>1, <4>2
    <3>4. QED
      BY <3>1, <3>2, <3>3, <1>1
  <2>5. ASSUME NEW k \in 2 .. n - 2
        PROVE  BlockOf(d[k]) \in G
    <3>1. CASE k < i
      <4>1. k \in 2 .. n - 1 /\ d[k] = c[k] /\ k # i
        BY <3>1, <2>2, <2>3, <1>1
      <4>2. QED
        BY <4>1, <1>4
    <3>2. CASE k >= i
      <4>1. k + 1 \in 2 .. n - 1 /\ d[k] = c[k + 1] /\ k + 1 # i
        BY <3>2, <2>2, <2>3, <1>1
      <4>2. QED
        BY <4>1, <1>4
    <3>3. QED
      BY <3>1, <3>2, <1>1
  <2>6. (n - 1) - 1 = n - 2
    BY <1>1
  <2>7. Accounts(d, G)
    BY <1>3, <2>2, <2>4, <2>5, <2>6 DEF Accounts
  <2>8. QED
    BY <2>7 DEF d, G
<1>8. QED
  BY <1>6, <1>7

\* m_free of any pointer.
LEMMA FreeAccounts ==
  ASSUME NEW c, NEW H, Accounts(c, H), NEW ptr
  PROVE  Accounts(m_free(c, ptr), {b \in H : b.ptr # ptr})
<1> DEFINE d == Compact(c)
           G == {b \in H : b.ptr # ptr}
<1>0. Accounts(d, H)
  BY CompactAccounts
<1> HIDE DEF d
<1>1. CASE \E i \in 1 .. Len(d) : Found(d, ptr, i)
  <2> DEFINE i == CHOOSE i \in 1 .. Len(d) : Found(d, ptr, i)
  <2>1. Found(d, ptr, i)
    BY <1>1
  <2>2. m_free(c, ptr) = Unlink(d, i)
    BY <1>1 DEF m_free, d
  <2> HIDE DEF i
  <2>3. i \in 2 .. Len(d) /\ Body(d[i]) = ptr
    BY <2>1 DEF Found
  <2>4. Accounts(Unlink(d, i), {b \in H : b.ptr # Body(d[i])})
    BY <1>0, <2>3, UnlinkAccounts
  <2>5. QED
    BY <2>2, <2>3, <2>4
<1>2. CASE ~ \E i \in 1 .. Len(d) : Found(d, ptr, i)
  <2>1. m_free(c, ptr) = d
    BY <1>2 DEF m_free, d
  <2>2. WellFormed(d) /\ Len(d) \in Nat
    BY <1>0, WellFormedFacts DEF Accounts
  <2>3. ASSUME NEW k \in 2 .. Len(d) - 1
        PROVE  BlockOf(d[k]) \in G
    <3>1. k \in 1 .. Len(d) /\ k \in 2 .. Len(d)
      BY <2>2
    <3>2. Body(d[k]) # ptr
      BY <3>1, <1>2 DEF Found
    <3>3. BlockOf(d[k]) \in H
      BY <1>0 DEF Accounts
    <3>4. QED
      BY <3>2, <3>3, BlockOfFields
  <2>4. Accounts(d, G)
    BY <1>0, <2>3 DEF Accounts
  <2>5. QED
    BY <2>1, <2>4
<1>3. QED
  BY <1>1, <1>2

\* The owner of the moved chunk is told its new pointer.
LEMMA ShiftAccounts ==
  ASSUME NEW c, NEW H, Accounts(c, H), NEW i \in 1 .. Len(c), i + 1 < Len(c),
         NEW d, d = m_shift_next_chunk(c, i)
  PROVE  Accounts(d, { IF b.ptr = Body(c[i + 1])
                       THEN [ptr |-> Body(d[i + 1]), size |-> b.size]
                       ELSE b : b \in H })
<1> DEFINE n == Len(c)
           k == i + 1
           told(b) == IF b.ptr = Body(c[k])
                      THEN [ptr |-> Body(d[k]), size |-> b.size] ELSE b
           G == {told(b) : b \in H}
<1>0. WellFormed(c)
  BY DEF Accounts
<1>1. n \in Nat /\ k \in 2 .. n - 1 /\ k \in 1 .. n
  <2>1. n \in Nat
    BY <1>0, WellFormedFacts
  <2>2. QED
    BY <2>1
<1>2. /\ WellFormed(d)
      /\ Len(d) = n
      /\ d[k].size = c[k].size
      /\ \A j \in 1 .. n : j # k => d[j] = c[j]
  BY <1>0, ShiftWellFormed
<1>3. /\ \A b \in H : b.size \in Sizes
      /\ \A b \in H : \E j \in 1 .. n - 1 : b = BlockOf(c[j])
      /\ \A j \in 2 .. n - 1 : BlockOf(c[j]) \in H
  BY DEF Accounts
<1>4. ASSUME NEW j \in 1 .. n - 1
      PROVE  told(BlockOf(c[j])) = BlockOf(d[j])
  <2>0. j \in 1 .. n
    BY <1>1
  <2>1. CASE j = k
    BY <2>1, <1>2, BlockOfFields DEF BlockOf
  <2>2. CASE j # k
    <3>1. Body(c[j]) # Body(c[k])
      BY <2>0, <2>2, <1>0, <1>1, BodyUnique
    <3>2. d[j] = c[j]
      BY <2>0, <2>2, <1>2
    <3>3. QED
      BY <3>1, <3>2, BlockOfFields
  <2>3. QED
    BY <2>1, <2>2
<1>5. \A b \in H : told(b).size = b.size
  OBVIOUS
<1> HIDE DEF told, n, k
<1>6. \A b \in G : b.size \in Sizes
  BY <1>3, <1>5
<1>7. \A b \in G : \E j \in 1 .. n - 1 : b = BlockOf(d[j])
  BY <1>3, <1>4
<1>8. \A j \in 2 .. n - 1 : BlockOf(d[j]) \in G
  <2>1. ASSUME NEW j \in 2 .. n - 1 PROVE j \in 1 .. n - 1
    BY <1>1
  <2>2. QED
    BY <2>1, <1>3, <1>4
<1>9. Accounts(d, G)
  BY <1>2, <1>6, <1>7, <1>8 DEF Accounts
<1>10. QED
  BY <1>9 DEF told, k

-----------------------------------------------------------------------------
(***************************************************************************)
(* The invariant.                                                          *)
(***************************************************************************)

\* m_init_alloc builds a well-formed list with no block on it.
LEMMA InitIInv == Init => IInv
<1> SUFFICES ASSUME Init PROVE IInv
  OBVIOUS
<1>1. PICK junk \in Uninit : chain = m_init_alloc(junk)
  BY DEF Init
<1> DEFINE r == [at |-> 0, size |-> 0]
           t == [at |-> Hdr, size |-> junk]
<1>2. /\ Hdr \in Nat /\ Hdr > 0 /\ HeapSize \in Nat /\ 2 * Hdr <= HeapSize
      /\ junk \in Nat
  BY HeapAssumption, UsersAssumption
<1>3. /\ r \in Chunk /\ r.at = 0 /\ r.size = 0
      /\ t \in Chunk /\ t.at = Hdr
  BY <1>2 DEF Chunk
<1>4. chain = <<r, t>>
  BY <1>1 DEF m_init_alloc
<1> HIDE DEF r, t
<1>5. /\ chain \in Seq(Chunk) /\ Len(chain) = 2
      /\ chain[1] = r /\ chain[2] = t
  BY <1>3, <1>4
<1>6. EndOf(r) = Hdr
  BY <1>2, <1>3 DEF EndOf
<1>7. WellFormed(chain)
  <2>1. \A j \in 1 .. 2 : chain[j].at + Hdr <= HeapSize
    BY <1>2, <1>3, <1>5
  <2>2. ASSUME NEW j \in 1 .. 2, NEW k \in 1 .. 2, j < k
        PROVE  EndOf(chain[j]) <= chain[k].at
    <3>1. j = 1 /\ k = 2
      BY <2>2
    <3>2. QED
      BY <3>1, <1>2, <1>3, <1>5, <1>6
  <2>3. \A j \in 2 .. 2 - 1 : chain[j].size > 0
    OBVIOUS
  <2>4. /\ Len(chain) >= 1 /\ chain[1].at = 0
        /\ \A j \in 1 .. Len(chain) : chain[j].at + Hdr <= HeapSize
        /\ \A j, k \in 1 .. Len(chain) : j < k => EndOf(chain[j]) <= chain[k].at
        /\ \A j \in 2 .. Len(chain) - 1 : chain[j].size > 0
    BY <1>3, <1>5, <2>1, <2>2, <2>3
  <2>5. QED
    BY <1>5, <2>4, WellFormedIntro
<1>8. \A i \in 2 .. 2 - 1 : FALSE
  OBVIOUS
<1>9. QED
  BY <1>5, <1>7, <1>8 DEF IInv, Accounts, Init

\* A request either changes nothing or adds one block that was not in use.
LEMMA AllocStep ==
  ASSUME IInv, NEW s \in Sizes, Alloc(s)
  PROVE  /\ IInv'
         /\ \/ held' = held
            \/ \E b : b \notin held /\ held' = held \cup {b}
<1> DEFINE i == WalkStop(chain, s)
           r == m_alloc(chain, s)
<1>0. WellFormed(chain) /\ Accounts(chain, held)
  BY DEF IInv, Accounts
<1>1. i \in 1 .. Len(chain) /\ StopsAt(chain, s, i)
  BY UsersAssumption, <1>0, WalkStops DEF WellFormed
<1>2. Len(chain) \in Nat
  BY <1>0, WellFormedFacts
<1>3. /\ chain' = r.chain
      /\ held' = IF r.ptr = NULL THEN held ELSE held \cup {[ptr |-> r.ptr, size |-> s]}
  BY DEF Alloc
<1>4. CASE i < Len(chain)
  <2>1. /\ r.chain = PlaceInGap(chain, s, i)
        /\ r.ptr = EndOf(chain[i]) + Hdr
    BY <1>4 DEF m_alloc
  <2>2. Gap(chain, s, i)
    BY <1>1, <1>2, <1>4 DEF StopsAt
  <2> HIDE DEF i, r
  <2> DEFINE b == [ptr |-> EndOf(chain[i]) + Hdr, size |-> s]
  <2>3. /\ Accounts(PlaceInGap(chain, s, i), held \cup {b})
        /\ EndOf(chain[i]) + Hdr # NULL /\ b \notin held
    BY <2>2, <1>0, <1>1, GapAccounts
  <2>4. chain' = PlaceInGap(chain, s, i) /\ held' = held \cup {b}
    BY <2>1, <2>3, <1>3
  <2> HIDE DEF b
  <2>5. QED
    BY <2>3, <2>4 DEF IInv
<1>5. CASE ~(i < Len(chain)) /\ RoomAtEnd(chain, s)
  <2>1. i = Len(chain)
    BY <1>1, <1>2, <1>5
  <2>2. r.chain = Extend(chain, s) /\ r.ptr = Body(chain[i])
    BY <1>5 DEF m_alloc
  <2> HIDE DEF i, r
  <2> DEFINE b == [ptr |-> Body(chain[Len(chain)]), size |-> s]
  <2>3. /\ Accounts(Extend(chain, s), held \cup {b})
        /\ Body(chain[Len(chain)]) # NULL /\ b \notin held
    BY <1>0, <1>5, ExtendAccounts
  <2>4. chain' = Extend(chain, s) /\ held' = held \cup {b}
    BY <2>1, <2>2, <2>3, <1>3
  <2> HIDE DEF b
  <2>5. QED
    BY <2>3, <2>4 DEF IInv
<1>6. CASE ~(i < Len(chain)) /\ ~RoomAtEnd(chain, s)
  <2>1. r.chain = chain /\ r.ptr = NULL
    BY <1>6 DEF m_alloc
  <2> HIDE DEF i, r
  <2>2. QED
    BY <2>1, <1>0, <1>3 DEF IInv
<1>7. QED
  BY <1>4, <1>5, <1>6

\* Every operation keeps the list well formed and the accounts balanced.
LEMMA NextIInv == IInv /\ [Next]_vars => IInv'
<1> SUFFICES ASSUME IInv, [Next]_vars PROVE IInv'
  OBVIOUS
<1>0. Accounts(chain, held)
  BY DEF IInv
<1>1. ASSUME NEW s \in Sizes, Alloc(s)
      PROVE  IInv'
  BY <1>1, AllocStep
<1>2. ASSUME NEW ptr \in 1 .. HeapSize, Free(ptr)
      PROVE  IInv'
  BY <1>0, <1>2, FreeAccounts DEF Free, IInv
<1>3. ASSUME NEW i \in 1 .. Len(chain), Shift(i)
      PROVE  IInv'
  <2>1. /\ i + 1 < Len(chain)
        /\ chain' = m_shift_next_chunk(chain, i)
        /\ held' = { IF b.ptr = Body(chain[i + 1])
                     THEN [ptr |-> Body(chain'[i + 1]), size |-> b.size]
                     ELSE b : b \in held }
    BY <1>3 DEF Shift
  <2>2. QED
    BY <1>0, <2>1, ShiftAccounts DEF IInv
<1>4. CASE UNCHANGED vars
  BY <1>0, <1>4 DEF vars, IInv
<1>5. QED
  BY <1>1, <1>2, <1>3, <1>4 DEF Next

\* The inductive invariant.
LEMMA InductiveInvariant == Spec => []IInv
<1>1. QED
  BY InitIInv, NextIInv, PTL DEF Spec

\* First fit is complete: a request that m_alloc refuses has no place among
\* the chunks.
LEMMA RefusalMeansFull ==
  ASSUME NEW c, WellFormed(c), NEW s \in Sizes, m_alloc(c, s).ptr = NULL,
         NEW a \in 0 .. c[Len(c)].at - Hdr - s
  PROVE  \E i \in 1 .. Len(c) : a < EndOf(c[i]) /\ c[i].at < a + Hdr + s
<1> DEFINE n == Len(c)
           w == WalkStop(c, s)
<1>0. c \in Seq(Chunk) /\ n \in Nat /\ n >= 1
  BY WellFormedFacts DEF WellFormed
<1>at. \A k \in 1 .. n : c[k].at \in Nat /\ c[k].size \in Nat
  BY WellFormedFacts
<1>h. Hdr \in Nat /\ Hdr > 0 /\ s \in Nat /\ s > 0
  BY HeapAssumption, UsersAssumption
<1>root. c[1].at = 0
  BY DEF WellFormed, Ordered
<1>end. \A k \in 1 .. n : EndOf(c[k]) \in Nat /\ c[k].at < EndOf(c[k])
  BY <1>h, <1>at DEF EndOf
<1>1. w \in 1 .. n /\ StopsAt(c, s, w)
  BY UsersAssumption, <1>0, WalkStops
<1> HIDE DEF w, n
<1>2. w = n
  <2>1. CASE w < n
    <3>1. m_alloc(c, s).ptr = EndOf(c[w]) + Hdr
      BY <2>1 DEF m_alloc, w, n
    <3>2. QED
      BY <3>1, <1>1, <1>end, <1>h DEF NULL
  <2>2. QED
    BY <2>1, <1>0, <1>1
<1>3. \A k \in 1 .. n - 1 : ~Gap(c, s, k)
  BY <1>1, <1>2 DEF StopsAt
<1> DEFINE T == {k \in 1 .. n : c[k].at > a}
<1>4. a \in Nat /\ n \in 1 .. n /\ c[n].at > a
  BY <1>0, <1>at, <1>h DEF n
<1>5. T \in SUBSET Nat /\ T # {}
  BY <1>0, <1>4
<1>6. PICK k \in T : \A j \in T : k <= j
  BY <1>5, LeastNat
<1>7. k \in 1 .. n /\ c[k].at > a /\ k # 1
  BY <1>4, <1>6, <1>root
<1> DEFINE i == k - 1
<1>8. i \in 1 .. n - 1 /\ i \in 1 .. n /\ i + 1 = k
  BY <1>0, <1>7
<1>9. ~(c[i].at > a)
  BY <1>0, <1>6, <1>7, <1>8
<1> HIDE DEF i, T
<1>10. c[i].at <= a /\ EndOf(c[i]) \in Nat
  BY <1>4, <1>8, <1>9, <1>at, <1>end
<1>11. CASE a < EndOf(c[i])
  <2>1. c[i].at < a + Hdr + s
    BY <1>4, <1>8, <1>10, <1>h, <1>at
  <2>2. QED
    BY <2>1, <1>8, <1>11 DEF n
<1>12. CASE EndOf(c[i]) <= a
  <2>1. ~(c[k].at >= EndOf(c[i]) + Hdr + s)
    BY <1>3, <1>8, <1>0 DEF Gap, n
  <2>2. c[k].at \in Nat /\ EndOf(c[k]) \in Nat /\ c[k].at < EndOf(c[k])
    BY <1>7, <1>at, <1>end
  <2>3. c[k].at < a + Hdr + s
    BY <2>1, <2>2, <1>4, <1>10, <1>12, <1>h
  <2>4. a < EndOf(c[k])
    BY <2>2, <1>4, <1>7
  <2>5. QED
    BY <2>3, <2>4, <1>7 DEF n
<1>13. QED
  BY <1>4, <1>10, <1>11, <1>12

\* m_alloc returns NULL only when no place below the high-water mark is left.
THEOREM RefusesOnlyWhenFull == Spec => []FailsOnlyWhenFull
<1>1. IInv => FailsOnlyWhenFull
  BY RefusalMeansFull DEF IInv, Accounts, FailsOnlyWhenFull
<1>2. QED
  BY InductiveInvariant, <1>1, PTL

\* Headers and blocks stay inside the heap.
THEOREM TypeCorrect == Spec => []TypeOK
<1>1. IInv => TypeOK
  <2> SUFFICES ASSUME IInv PROVE TypeOK
    OBVIOUS
  <2>1. Accounts(chain, held) /\ WellFormed(chain)
    BY DEF IInv, Accounts
  <2>2. QED
    BY <2>1, AccountsTyped DEF TypeOK, WellFormed
<1>2. QED
  BY <1>1, InductiveInvariant, PTL

\* The list stays sorted by address and free of overlaps.
THEOREM ChainStaysOrdered == Spec => []ChainOrdered
<1>1. IInv => ChainOrdered
  BY DEF IInv, Accounts, WellFormed, ChainOrdered
<1>2. QED
  BY <1>1, InductiveInvariant, PTL

\* A block in use keeps its chunk, at its length, until it is released.
THEOREM HeldStaysOnChain == Spec => []HeldOnChain
<1>1. IInv => HeldOnChain
  BY DEF IInv, Accounts, HeldOnChain
<1>2. QED
  BY <1>1, InductiveInvariant, PTL

\* Every chunk but the root and the terminal has an owner.
THEOREM NothingIsLost == Spec => []NothingLost
<1>1. IInv => NothingLost
  BY DEF IInv, Accounts, NothingLost
<1>2. QED
  BY <1>1, InductiveInvariant, PTL

-----------------------------------------------------------------------------
(***************************************************************************)
(* The list implements the contract.                                       *)
(***************************************************************************)

\* Two blocks in use never overlap, and their pointers differ.
LEMMA AccountsApart ==
  ASSUME NEW c, NEW H, Accounts(c, H), NEW a \in H, NEW b \in H, a # b
  PROVE  Contract!Apart(a, b) /\ a.ptr # b.ptr
<1>0. WellFormed(c) /\ Len(c) \in Nat
  BY WellFormedFacts DEF Accounts
<1>1. PICK i \in 1 .. Len(c) - 1 : a = BlockOf(c[i])
  BY DEF Accounts
<1>2. PICK j \in 1 .. Len(c) - 1 : b = BlockOf(c[j])
  BY DEF Accounts
<1>3. i \in 1 .. Len(c) /\ j \in 1 .. Len(c) /\ (i < j \/ j < i)
  BY <1>0, <1>1, <1>2
<1>4. a.ptr = Body(c[i]) /\ a.size = c[i].size /\ b.ptr = Body(c[j]) /\ b.size = c[j].size
  BY <1>1, <1>2, BlockOfFields
<1>5. a.ptr \in Nat /\ a.size \in Nat /\ b.ptr \in Nat /\ b.size \in Nat
  <2>1. HeapSize \in Nat
    BY HeapAssumption, UsersAssumption
  <2>2. QED
    BY <2>1, AccountsTyped
<1>6. CASE i < j
  <2>1. a.ptr + a.size < b.ptr /\ a.ptr < b.ptr
    BY <1>0, <1>3, <1>4, <1>6, BodiesApart
  <2>2. QED
    BY <2>1, <1>5 DEF Contract!Apart
<1>7. CASE j < i
  <2>1. b.ptr + b.size < a.ptr /\ b.ptr < a.ptr
    BY <1>0, <1>3, <1>4, <1>7, BodiesApart
  <2>2. QED
    BY <2>1, <1>5 DEF Contract!Apart
<1>8. QED
  BY <1>3, <1>6, <1>7

\* A block of the users is a block of the contract.
LEMMA AccountsBlock ==
  ASSUME NEW c, NEW H, Accounts(c, H), NEW b \in H
  PROVE  b \in Contract!Block /\ b.ptr \in 0 .. HeapSize /\ b.ptr + b.size <= HeapSize
<1>1. /\ b.ptr \in 1 .. HeapSize /\ b.size \in Sizes /\ b.ptr + b.size <= HeapSize
      /\ b = [ptr |-> b.ptr, size |-> b.size]
  BY AccountsTyped
<1>2. b.ptr \in 0 .. HeapSize
  BY <1>1, HeapAssumption
<1>3. QED
  BY <1>1, <1>2 DEF Contract!Block

\* Every operation on the list is a step of the contract, or none.
LEMMA StepRefines == IInv /\ IInv' /\ [Next]_vars => [Contract!Next]_held
<1> SUFFICES ASSUME IInv, IInv', [Next]_vars PROVE [Contract!Next]_held
  OBVIOUS
<1>0. Accounts(chain, held) /\ Accounts(chain', held')
  BY DEF IInv
<1>1. ASSUME NEW s \in Sizes, Alloc(s)
      PROVE  [Contract!Next]_held
  <2>1. CASE held' = held
    BY <2>1
  <2>2. CASE \E b : b \notin held /\ held' = held \cup {b}
    <3>1. PICK b : b \notin held /\ held' = held \cup {b}
      BY <2>2
    <3>2. b \in Contract!Block /\ b.ptr + b.size <= HeapSize
      BY <3>1, <1>0, AccountsBlock
    <3>3. \A other \in held : Contract!Apart(b, other)
      BY <3>1, <1>0, AccountsApart
    <3>4. Contract!Allocate(b)
      BY <3>1, <3>2, <3>3 DEF Contract!Allocate, Contract!MayPlace
    <3>5. QED
      BY <3>2, <3>4 DEF Contract!Next
  <2>3. QED
    BY <1>1, <2>1, <2>2, AllocStep
<1>2. ASSUME NEW ptr \in 1 .. HeapSize, Free(ptr)
      PROVE  [Contract!Next]_held
  <2>0. held' = {b \in held : b.ptr # ptr}
    BY <1>2 DEF Free
  <2>1. CASE \E b \in held : b.ptr = ptr
    <3>1. PICK b \in held : b.ptr = ptr
      BY <2>1
    <3>2. \A other \in held : other # b => other.ptr # ptr
      BY <3>1, <1>0, AccountsApart
    <3>3. held' = held \ {b}
      BY <2>0, <3>1, <3>2
    <3>4. Contract!Release(b)
      BY <3>3 DEF Contract!Release
    <3>5. QED
      BY <3>1, <3>4 DEF Contract!Next
  <2>2. CASE ~ \E b \in held : b.ptr = ptr
    BY <2>0, <2>2
  <2>3. QED
    BY <2>1, <2>2
<1>3. ASSUME NEW i \in 1 .. Len(chain), Shift(i)
      PROVE  [Contract!Next]_held
  <2> DEFINE k == i + 1
             q == Body(chain[k])
             p == Body(chain'[k])
             told(b) == IF b.ptr = q THEN [ptr |-> p, size |-> b.size] ELSE b
  <2>0. held' = {told(b) : b \in held}
    BY <1>3 DEF Shift
  <2>1. CASE \E b \in held : b.ptr = q
    <3>1. PICK b \in held : b.ptr = q
      BY <2>1
    <3>2. b = [ptr |-> b.ptr, size |-> b.size]
      BY <1>0, AccountsTyped
    <3> DEFINE m == [b EXCEPT !.ptr = p]
    <3>3. m = [ptr |-> p, size |-> b.size] /\ m.ptr = p
      BY <3>2
    <3>4. told(b) = m
      BY <3>1, <3>3
    <3>5. \A other \in held : other # b => told(other) = other
      <4>1. \A other \in held : other # b => other.ptr # q
        BY <3>1, <1>0, AccountsApart
      <4>2. QED
        BY <4>1
    <3> HIDE DEF told, m, p, q
    <3>6. held' = (held \ {b}) \cup {m}
      BY <2>0, <3>4, <3>5, <3>1
    <3>7. m \in held'
      BY <3>6
    <3>8. m.ptr \in 0 .. HeapSize /\ m.ptr + m.size <= HeapSize
      BY <3>7, <1>0, AccountsBlock
    <3>9. ASSUME NEW other \in held \ {b}
          PROVE  m # other
      <4>1. SUFFICES ASSUME m = other PROVE FALSE
        OBVIOUS
      <4>2. WellFormed(chain) /\ WellFormed(chain')
        BY <1>0 DEF Accounts
      <4>3. i + 1 < Len(chain) /\ chain' = m_shift_next_chunk(chain, i)
        BY <1>3 DEF Shift
      <4>4. /\ Len(chain') = Len(chain)
            /\ \A j \in 1 .. Len(chain) : j # k => chain'[j] = chain[j]
        BY <4>2, <4>3, ShiftWellFormed
      <4>5. PICK j \in 1 .. Len(chain) - 1 : other = BlockOf(chain[j])
        BY <1>0 DEF Accounts
      <4>6. Len(chain) \in Nat
        BY <4>2, WellFormedFacts
      <4>7. j \in 1 .. Len(chain) /\ k \in 1 .. Len(chain)
        BY <4>3, <4>6
      <4>8. other.ptr # q
        BY <3>1, <1>0, AccountsApart
      <4>9. j # k
        BY <4>5, <4>8, BlockOfFields DEF q
      <4>10. Body(chain'[j]) = Body(chain'[k])
        BY <4>1, <4>4, <4>5, <4>7, <4>9, <3>3, BlockOfFields DEF p
      <4>11. QED
        BY <4>2, <4>4, <4>7, <4>9, <4>10, BodyUnique
    <3>10. \A other \in held \ {b} : Contract!Apart(m, other)
      BY <3>6, <3>7, <3>9, <1>0, AccountsApart
    <3>11. Contract!Move(b, m.ptr)
      <4>1. [b EXCEPT !.ptr = m.ptr] = m
        BY <3>3 DEF m
      <4>2. QED
        BY <4>1, <3>6, <3>8, <3>10 DEF Contract!Move, Contract!MayPlace
    <3>12. QED
      BY <3>1, <3>8, <3>11 DEF Contract!Next
  <2>2. CASE ~ \E b \in held : b.ptr = q
    BY <2>0, <2>2
  <2>3. QED
    BY <2>1, <2>2
<1>4. CASE UNCHANGED vars
  BY <1>4 DEF vars
<1>5. QED
  BY <1>1, <1>2, <1>3, <1>4 DEF Next

\* The first-fit list of midgard_apis.c is a correct allocator: whatever is
\* requested, released or shifted, blocks in use never overlap.
THEOREM Refinement == Spec => ImplementsContract
<1>1. Init => Contract!Init
  BY DEF Init, Contract!Init
<1>2. QED
  BY <1>1, InductiveInvariant, StepRefines, PTL
  DEF Spec, ImplementsContract, Contract!Spec

=============================================================================
