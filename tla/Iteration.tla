----------------------------- MODULE Iteration -----------------------------
(***************************************************************************)
(* A loop whose body is Step, as a recursive function of the number of     *)
(* passes, and what a proof may use of it.                                 *)
(***************************************************************************)
EXTENDS Integers, WellFoundedInduction, TLAPS

CONSTANT Step(_)

Times(c, n) ==
  LET done[j \in 0 .. n] == IF j = 0 THEN c ELSE Step(done[j - 1]) IN done[n]

\* f holds the values of c after 0 .. n passes.
Passes(c, n, f) == f = [j \in 0 .. n |-> IF j = 0 THEN c ELSE Step(f[j - 1])]

\* Some number of passes is the least of each set of them.
LEMMA LeastPass ==
  ASSUME NEW T \in SUBSET Nat, T # {}
  PROVE  \E m \in T : \A k \in T : m <= k
<1> DEFINE R == OpToRel(<, Nat)
<1>1. IsWellFoundedOn(R, Nat)
  BY NatLessThanWellFounded
<1>2. \A k, m \in Nat : k < m => <<k, m>> \in R
  BY DEF OpToRel
<1> HIDE DEF R
<1>3. PICK m \in T : \A k \in T : <<k, m>> \notin R
  BY <1>1, WFMin
<1>4. ASSUME NEW k \in T
      PROVE  m <= k
  <2>1. ~(k < m)
    BY <1>2, <1>3, Zenon
  <2> QED
    BY <2>1
<1> QED
  BY <1>4

\* The recursion defines a function for every number of passes.
LEMMA PassesExist ==
  ASSUME NEW c, NEW n \in Nat
  PROVE  \E f : Passes(c, n, f)
<1> DEFINE T == {m \in Nat : ~ \E f : Passes(c, m, f)}
<1>1. SUFFICES ASSUME T # {} PROVE FALSE
  OBVIOUS
<1>2. PICK m \in T : \A k \in T : m <= k
  BY <1>1, LeastPass
<1>3. m # 0
  <2>1. Passes(c, 0, [j \in 0 .. 0 |-> c])
    BY DEF Passes
  <2> QED
    BY <2>1
<1>4. m - 1 \in Nat /\ m - 1 \notin T
  BY <1>2, <1>3
<1>5. PICK f : Passes(c, m - 1, f)
  BY <1>4
<1> DEFINE g == [j \in 0 .. m |-> IF j = m THEN Step(f[m - 1]) ELSE f[j]]
<1>6. \A j \in 0 .. m - 1 : f[j] = IF j = 0 THEN c ELSE Step(f[j - 1])
  BY <1>4, <1>5 DEF Passes
<1>7. \A j \in 0 .. m : g[j] = IF j = 0 THEN c ELSE Step(g[j - 1])
  <2> SUFFICES ASSUME NEW j \in 0 .. m
               PROVE  g[j] = IF j = 0 THEN c ELSE Step(g[j - 1])
    OBVIOUS
  <2>1. CASE j = m
    <3>1. g[j - 1] = f[m - 1] /\ j # 0
      BY <2>1, <1>4
    <3> QED
      BY <3>1, <2>1, Zenon
  <2>2. CASE j # m /\ j # 0
    <3>1. j \in 0 .. m - 1 /\ j - 1 \in 0 .. m - 1
      BY <2>2, <1>4
    <3>2. g[j - 1] = f[j - 1] /\ g[j] = f[j]
      BY <3>1, <1>4
    <3> QED
      BY <3>1, <3>2, <2>2, <1>6
  <2>3. CASE j # m /\ j = 0
    BY <2>3, <1>6, <1>4
  <2> QED
    BY <2>1, <2>2, <2>3
<1>8. Passes(c, m, g)
  <2> HIDE DEF T
  <2>1. g = [j \in 0 .. m |-> g[j]]
    OBVIOUS
  <2> HIDE DEF g
  <2> QED
    BY <2>1, <1>7 DEF Passes
<1> QED
  BY <1>8

\* The value after n passes is the last of the values after 0 .. n passes.
LEMMA TimesUnrolls ==
  ASSUME NEW c, NEW n \in Nat
  PROVE  \E f : /\ f[0] = c
                /\ \A j \in 1 .. n : f[j] = Step(f[j - 1])
                /\ Times(c, n) = f[n]
<1>1. PICK f : f = CHOOSE g : Passes(c, n, g)
  OBVIOUS
<1>2. Passes(c, n, f)
  BY <1>1, PassesExist, Zenon
<1>3. Times(c, n) = f[n]
  BY <1>1, Zenon DEF Times, Passes
<1>4. \A j \in 0 .. n : f[j] = IF j = 0 THEN c ELSE Step(f[j - 1])
  BY <1>2 DEF Passes
<1> QED
  BY <1>3, <1>4
=============================================================================
