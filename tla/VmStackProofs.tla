--------------------------- MODULE VmStackProofs ---------------------------
(***************************************************************************)
(* The machine keeps its heap, its stacks and its frames in order, for     *)
(* every heap, stack and program.  The programs may do what the passing    *)
(* runs exclude: delete objects in use, change arrays they enumerate, hold *)
(* more references than a counter can count.  Their variables may dangle;  *)
(* the chunk list, the frames and the collector's walk are sound all the   *)
(* same, as far as the model goes: what a counter that is written through  *)
(* a dangling pointer destroys in the memory it hits is not modelled.      *)
(*                                                                         *)
(* An instruction is a chain of operators that take a machine and return   *)
(* the next one.  Between them the machine is Good: its heap holds its     *)
(* objects and the buffers B that are still to be released, and its stacks *)
(* have the given ends and the given return marks M; or it has crashed.    *)
(***************************************************************************)
EXTENDS VmStack, MidgardHeapProofs

-----------------------------------------------------------------------------
(***************************************************************************)
(* The invariant.                                                          *)
(***************************************************************************)
Fields == {"chain", "mem", "st", "sp", "bp", "obj", "state", "ends"}
IsCtx(c) == DOMAIN c = Fields /\ c = [x \in Fields |-> c[x]]

Addresses == 0 .. HeapSize
Objects == [mgc : 0 .. 255, lock : 0 .. 255, holds : Addresses]
IsMem(m) == m = [o \in DOMAIN m |-> m[o]] /\ \A o \in DOMAIN m : m[o] \in Objects

\* The addresses at which the heap holds something.
Taken(ch) == {Body(g) : g \in {h \in Blocks(ch) : h.size > 0}}

\* Without callbacks the root is the first chunk that is allocated: it is empty
\* only while it is the terminal.
RootTaken == "callback" \notin Entries

\* A callback starts on an empty root, which m_free joins with the terminal when
\* it is called with nothing on the heap; after that a buffer may be the root and
\* is never released.  Only a program that deletes the same object twice calls
\* m_free so: callbacks are not combined with that.
RootKept == RootTaken \/ ~DiscardsShared

\* The list is well formed and ends in an empty terminal.
ListOK(ch) ==
  /\ WellFormed(ch)
  /\ ch[Len(ch)].size = 0
  /\ RootTaken /\ Len(ch) > 1 => ch[1].size > 0

\* The heap holds the objects and the buffers, and nothing else.
HeapOK(ch, m, B) ==
  /\ ListOK(ch)
  /\ IsMem(m)
  /\ Taken(ch) = DOMAIN m \cup B /\ DOMAIN m \cap B = {}
  /\ Body(ch[1]) \notin B
  /\ \A g \in Blocks(ch) : Body(g) \in DOMAIN m => g.size >= ObjSize

\* Return marks are where M says among the frames, and nowhere among the operands.
Slots == 0 .. MaxStack - 1
StackOK(st, sp, bp, M) ==
  /\ st \in [Slots -> {RetMark} \cup Addresses]
  /\ \A s \in Slots : s > sp => st[s] # RetMark
  /\ \A s \in Slots : s < bp => (st[s] = RetMark <=> s \in M)

\* K are objects that are known to be there.
GoodHeap(c, B, K) ==
  /\ HeapOK(c.chain, c.mem, B)
  /\ Len(c.chain) > 1
  /\ K \subseteq DOMAIN c.mem

GoodStack(c, sp, bp, M) ==
  /\ StackOK(c.st, sp, bp, M)
  /\ c.sp = sp /\ c.bp = bp
  /\ c.obj \in Addresses
  /\ c.ends \in BOOLEAN

Good(c, B, K, sp, bp, M) ==
  /\ IsCtx(c)
  /\ c.state \in States
  /\ c.state # "CRASH" => GoodHeap(c, B, K) /\ GoodStack(c, sp, bp, M)

\* The frames lie one behind the other, each between its return marks and the
\* next one's.
End(f) == f.base + (IF f.left THEN 0 ELSE f.locals)

Aligned(fs, bp, M) ==
  \A k \in 1 .. Len(fs) :
    /\ fs[k].base - 1 \in M /\ fs[k].base - 2 \in M
    /\ \A s \in fs[k].base .. End(fs[k]) - 1 : s \notin M
    /\ End(fs[k]) <= bp
    /\ \A l \in k + 1 .. Len(fs) : End(fs[k]) <= fs[l].base - 2
    /\ End(fs[k]) = IF k = Len(fs) THEN bp ELSE fs[k + 1].base - 2

Frame == [base : 2 .. MaxStack, locals : 0 .. MaxLocals, left : BOOLEAN]

MarksOf(c) == {s \in Slots : s < c.bp /\ c.st[s] = RetMark}

\* Between instructions, of a machine c with the frames fs and the iterator g.
\* An empty heap is one that no function has been entered on.
HeapInv(c, fs) ==
  /\ HeapOK(c.chain, c.mem, {})
  /\ c.state = "RUN" /\ Len(c.chain) = 1 => \A k \in 1 .. Len(fs) : fs[k].locals = 0

StacksInv(c) ==
  /\ StackOK(c.st, c.sp, c.bp, MarksOf(c))
  /\ c.sp \in Slots
  /\ c.bp \in 0 .. MaxStack - 2 + MostPushed
  /\ c.state = "RUN" => c.bp < c.sp

FramesOK(fs) ==
  fs \in Seq(Frame) /\ \A k \in 1 .. Len(fs) : fs[k].left => fs[k].locals > 0

FramesInv(c, fs) ==
  /\ FramesOK(fs)
  /\ c.state = "RUN" => Aligned(fs, c.bp, MarksOf(c))

\* Chunk j is no garbage.
Kept(c, j) ==
  Body(c.chain[j]) \in DOMAIN c.mem => ~IsZero(c.mem[Body(c.chain[j])].mgc)

\* What the collector has passed is no garbage, unless it made garbage itself.
GcInv(c, g) ==
  /\ g \in [at : Nat, released : BOOLEAN]
  /\ g.at < Len(c.chain)
  /\ ~g.released =>
       /\ \A j \in 1 .. g.at - 1 : Kept(c, j)
       /\ g.at = 0 /\ c.state = "RUN" => \A j \in 1 .. Len(c.chain) - 2 : Kept(c, j)

RestInv(c) == IsCtx(c) /\ c.state \in States /\ c.obj = NULL /\ c.ends \in BOOLEAN

Invariant(c, fs, g) ==
  RestInv(c) /\ HeapInv(c, fs) /\ StacksInv(c) /\ FramesInv(c, fs) /\ GcInv(c, g)

Inv == Invariant(ctx, frames, gc)

-----------------------------------------------------------------------------
(***************************************************************************)
(* The heap and its objects.                                               *)
(***************************************************************************)

\* The constants.
LEMMA Constants ==
  /\ MaxStack \in Nat /\ MaxStack > 6
  /\ ObjSize \in Nat \ {0} /\ FuncLen \in Nat \ {0} /\ IfaceLen \in Nat \ {0}
  /\ EnumLen \in Nat \ {0} /\ MaxLocals \in Nat \ {0}
  /\ HeapSize \in Nat /\ Hdr \in Nat \ {0} /\ 2 * Hdr <= HeapSize
  /\ Lens \subseteq Nat /\ ArgLens \subseteq Nat /\ Loadable \subseteq Nat
BY VmAssumption, HeapAssumption DEF Loadable

\* Two chunks of a list never share their pointer.
LEMMA BlockUnique ==
  ASSUME NEW c, WellFormed(c), NEW g \in Blocks(c), NEW h \in Blocks(c), Body(g) = Body(h)
  PROVE  g = h
<1>1. Len(c) \in Nat
  BY WellFormedFacts
<1>2. PICK i \in 1 .. Len(c) - 1 : g = c[i]
  BY DEF Blocks
<1>3. PICK j \in 1 .. Len(c) - 1 : h = c[j]
  BY DEF Blocks
<1>4. i \in 1 .. Len(c) /\ j \in 1 .. Len(c)
  BY <1>1
<1> QED
  BY <1>2, <1>3, <1>4, BodyUnique

\* What is taken are addresses of the heap.
LEMMA TakenInHeap ==
  ASSUME NEW c, WellFormed(c)
  PROVE  Taken(c) \subseteq 1 .. HeapSize /\ \A g \in Blocks(c) : Body(g) \in 1 .. HeapSize
<1>1. Len(c) \in Nat /\ \A i \in 1 .. Len(c) - 1 : i \in 1 .. Len(c)
  BY WellFormedFacts
<1>2. \A i \in 1 .. Len(c) : Body(c[i]) \in 1 .. HeapSize
  BY BodyInHeap
<1> QED
  BY <1>1, <1>2 DEF Taken, Blocks

\* A list on which something is taken does not compact.
LEMMA TakenFirst ==
  ASSUME NEW c, WellFormed(c), NEW o \in Taken(c)
  PROVE  Len(c) > 1 /\ (c[1].size > 0 \/ c[2].size > 0)
<1>1. PICK g \in Blocks(c) : g.size > 0
  BY DEF Taken
<1>2. PICK i \in 1 .. Len(c) - 1 : g = c[i]
  BY DEF Blocks
<1>3. Len(c) \in Nat
  BY WellFormedFacts
<1>4. i > 1 => 2 \in 2 .. Len(c) - 1
  BY <1>3
<1>5. i > 1 => c[2].size > 0
  BY <1>4 DEF WellFormed, NonEmpty
<1> QED
  BY <1>1, <1>2, <1>3, <1>5

\* A list is the terminal alone, or more.
LEMMA OneOrMore ==
  ASSUME NEW c, WellFormed(c)
  PROVE  (Len(c) > 1 \/ Len(c) = 1) /\ ~(Len(c) > 1 /\ Len(c) = 1)
<1>1. \A n \in Nat : n >= 1 => (n > 1 \/ n = 1) /\ ~(n > 1 /\ n = 1)
  OBVIOUS
<1>2. Len(c) \in Nat /\ Len(c) >= 1
  BY WellFormedFacts
<1> QED
  BY <1>1, <1>2, Zenon

\* The heap of an empty list.
LEMMA EmptyTaken ==
  ASSUME NEW c, WellFormed(c), Len(c) = 1
  PROVE  Taken(c) = {}
BY DEF Taken, Blocks

\* m_alloc of a buffer.
LEMMA BufferHeap ==
  ASSUME NEW ch, NEW m, NEW B, NEW d, NEW p, NEW s,
         HeapOK(ch, m, B), Len(ch) > 1, Adds(ch, d, p, s), s \in Nat \ {0}
  PROVE  HeapOK(d, m, B \cup {p}) /\ p \notin DOMAIN m /\ p \notin B /\ Len(d) > 1
<1>0. WellFormed(ch) /\ ch[Len(ch)].size = 0 /\ WellFormed(d)
  BY DEF HeapOK, ListOK, Adds
<1>1. p \notin Taken(ch)
  BY DEF Taken, Adds
<1>2. p \notin DOMAIN m /\ p \notin B
  BY <1>1 DEF HeapOK
<1>3. ListOK(d) /\ Len(d) > 1 /\ d[1] = ch[1]
  <2>1. Len(ch) \in Nat
    BY <1>0, WellFormedFacts
  <2> QED
    BY <2>1, <1>0 DEF HeapOK, ListOK, Adds
<1>4. Taken(d) = Taken(ch) \cup {p}
  <2>1. \A o : o \in Taken(d) => o \in Taken(ch) \cup {p}
    BY DEF Taken, Adds
  <2>2. \A o : o \in Taken(ch) => o \in Taken(d)
    BY DEF Taken, Adds
  <2>3. p \in Taken(d)
    BY DEF Taken, Adds
  <2> QED
    BY <2>1, <2>2, <2>3
<1>5. Body(d[1]) \notin B \cup {p}
  BY <1>3 DEF HeapOK, Adds
<1>6. \A g \in Blocks(d) : Body(g) \in DOMAIN m => g.size >= ObjSize
  BY <1>2 DEF HeapOK, Adds
<1>7. IsMem(m) /\ Taken(ch) = DOMAIN m \cup B /\ DOMAIN m \cap B = {}
  BY DEF HeapOK
<1> QED
  BY <1>2, <1>3, <1>4, <1>5, <1>6, <1>7 DEF HeapOK

\* A size that is large enough for an object.
HoldsObject(s) == s \in Nat /\ s >= ObjSize

\* m_alloc of an object, which is initialised.
LEMMA ObjectHeap ==
  ASSUME NEW ch, NEW m, NEW B, NEW d, NEW p, NEW s, NEW n,
         HeapOK(ch, m, B), Adds(ch, d, p, s), HoldsObject(s),
         n = Initialised(m, p)
  PROVE  /\ HeapOK(d, n, B) /\ Len(d) > 1
         /\ p \notin DOMAIN m /\ p \notin B
         /\ DOMAIN m \subseteq DOMAIN n /\ p \in DOMAIN n
<1>0. WellFormed(ch) /\ ch[Len(ch)].size = 0 /\ WellFormed(d) /\ s > 0
  BY Constants DEF HeapOK, ListOK, Adds, HoldsObject
<1>n. Len(ch) \in Nat /\ Len(ch) >= 1 /\ Len(d) = Len(ch) + 1
  BY <1>0, WellFormedFacts DEF Adds
<1>1. p \notin Taken(ch)
  BY DEF Taken, Adds
<1>2. p \notin DOMAIN m /\ p \notin B
  BY <1>1 DEF HeapOK
<1>c. Len(ch) > 1 \/ Len(ch) = 1
  BY <1>0, OneOrMore
<1>3. ListOK(d) /\ Len(d) > 1
  <2>1. Len(d) > 1 /\ d[Len(d)].size = 0
    BY <1>n, <1>0 DEF Adds
  <2>2. CASE Len(ch) > 1
    BY <2>1, <2>2, <1>0 DEF HeapOK, ListOK, Adds
  <2>3. CASE Len(ch) = 1
    <3>1. d[1].size > 0
      BY <2>3, <1>0 DEF Adds
    <3> QED
      BY <2>1, <3>1, <1>0 DEF ListOK
  <2> QED
    BY <2>2, <2>3, <1>c, Zenon
<1>4. Taken(d) = Taken(ch) \cup {p}
  <2>1. \A o : o \in Taken(d) => o \in Taken(ch) \cup {p}
    BY DEF Taken, Adds
  <2>2. \A o : o \in Taken(ch) => o \in Taken(d)
    BY DEF Taken, Adds
  <2>3. p \in Taken(d)
    BY <1>0 DEF Taken, Adds
  <2> QED
    BY <2>1, <2>2, <2>3
<1>5. Body(d[1]) \notin B
  <2>1. CASE Len(ch) > 1
    BY <2>1 DEF HeapOK, Adds
  <2>2. CASE Len(ch) = 1
    BY <2>2, <1>0, EmptyTaken DEF HeapOK
  <2> QED
    BY <2>1, <2>2, <1>c, Zenon
<1>7. IsMem(m) /\ Taken(ch) = DOMAIN m \cup B /\ DOMAIN m \cap B = {}
  BY DEF HeapOK
<1>9. /\ DOMAIN n = DOMAIN m \cup {p} /\ n[p] = NewObject
      /\ \A o \in DOMAIN m : n[o] = m[o]
      /\ n = [o \in DOMAIN n |-> n[o]]
  BY <1>2 DEF Initialised
<1>10. NewObject \in Objects
  BY Constants DEF NewObject, Objects, VM_MAGIC, NULL, Addresses
<1>11. IsMem(n)
  BY <1>7, <1>9, <1>10 DEF IsMem
<1>12. \A g \in Blocks(d) : Body(g) \in DOMAIN n => g.size >= ObjSize
  BY <1>2, <1>9 DEF HeapOK, Adds, HoldsObject
<1> QED
  BY <1>2, <1>3, <1>4, <1>5, <1>7, <1>9, <1>11, <1>12 DEF HeapOK


\* The memory n is what m keeps of the chunks of d.
Survives(m, d, n) == n = Restrict(m, DOMAIN m \cap Bodies(d))

\* m_free of anything but a buffer: the other objects stay, and every buffer.
LEMMA FreeHeap ==
  ASSUME NEW ch, NEW m, NEW B, NEW d, NEW p, NEW n,
         HeapOK(ch, m, B), Drops(ch, d, p), p \notin B,
         Survives(m, d, n)
  PROVE  /\ HeapOK(d, n, B)
         /\ DOMAIN n \subseteq DOMAIN m
         /\ \A o \in DOMAIN m : o # p => o \in DOMAIN n
         /\ \A o \in DOMAIN n : n[o] = m[o]
<1>0. WellFormed(ch) /\ WellFormed(d)
  BY DEF HeapOK, ListOK, Drops
<1>1. Bodies(d) = {Body(g) : g \in Blocks(d)}
  BY DEF Bodies, Blocks
<1>2. DOMAIN n = DOMAIN m \cap Bodies(d) /\ n = [o \in DOMAIN n |-> m[o]]
  BY DEF Restrict, Survives
<1>3. IsMem(m) /\ Taken(ch) = DOMAIN m \cup B /\ DOMAIN m \cap B = {}
  BY DEF HeapOK
<1>4. IsMem(n)
  BY <1>2, <1>3 DEF IsMem
<1>5. ListOK(d) /\ Body(d[1]) \notin B
  <2>1. Len(d) > 1 /\ d[Len(d)].size = 0 /\ d[1] = ch[1]
    BY DEF Drops
  <2>2. RootTaken => d[1].size > 0
    <3>1. Len(ch) > 1
      <4>1. Len(ch) = 1 => Blocks(ch) = {}
        BY DEF Blocks
      <4>2. d[1] \in Blocks(d)
        <5>1. Len(d) \in Nat
          BY <1>0, WellFormedFacts
        <5> QED
          BY <5>1, <2>1 DEF Blocks
      <4>3. Len(ch) # 1
        BY <4>1, <4>2 DEF Drops
      <4> QED
        BY <4>3, <1>0, OneOrMore
    <3> QED
      BY <3>1, <2>1 DEF HeapOK, ListOK
  <2> QED
    BY <2>1, <2>2, <1>0 DEF HeapOK, ListOK
<1>6. \A o : o \in Taken(d) => o \in DOMAIN n \cup B
  BY <1>1, <1>2, <1>3 DEF Taken, Drops
<1>7. ASSUME NEW o \in DOMAIN n PROVE o \in Taken(d)
  <2>1. PICK g \in Blocks(ch) : g.size > 0 /\ Body(g) = o
    BY <1>2, <1>3 DEF Taken
  <2>2. PICK h \in Blocks(d) : Body(h) = o
    BY <1>1, <1>2
  <2>3. h \in Blocks(ch)
    BY DEF Drops
  <2>4. g = h
    BY <1>0, <2>1, <2>2, <2>3, BlockUnique
  <2> QED
    BY <2>1, <2>2, <2>4 DEF Taken
<1>8. ASSUME NEW o \in B PROVE o \in Taken(d)
  <2>1. PICK g \in Blocks(ch) : g.size > 0 /\ Body(g) = o
    BY <1>3 DEF Taken
  <2>2. g \in Blocks(d)
    BY <2>1 DEF Drops
  <2> QED
    BY <2>1, <2>2 DEF Taken
<1>9. \A g \in Blocks(d) : Body(g) \in DOMAIN n => g.size >= ObjSize
  BY <1>2 DEF HeapOK, Drops
<1>10. ASSUME NEW o \in DOMAIN m, o # p PROVE o \in DOMAIN n
  <2>1. PICK g \in Blocks(ch) : g.size > 0 /\ Body(g) = o
    BY <1>3 DEF Taken
  <2>2. g \in Blocks(d)
    BY <2>1, <1>10 DEF Drops
  <2> QED
    BY <2>1, <2>2, <1>1, <1>2
<1>11. Taken(d) = DOMAIN n \cup B /\ DOMAIN n \cap B = {}
  BY <1>6, <1>7, <1>8, <1>2, <1>3
<1> QED
  BY <1>2, <1>4, <1>5, <1>9, <1>10, <1>11 DEF HeapOK

\* m_free of a buffer.
LEMMA FreeBuffer ==
  ASSUME NEW ch, NEW m, NEW B, NEW d, NEW p,
         HeapOK(ch, m, B), Drops(ch, d, p), p \in B
  PROVE  HeapOK(d, m, B \ {p}) /\ Restrict(m, DOMAIN m \cap Bodies(d)) = m
<1>1. WellFormed(ch) /\ WellFormed(d)
  BY DEF HeapOK, ListOK, Drops
<1>3. IsMem(m) /\ Taken(ch) = DOMAIN m \cup B /\ DOMAIN m \cap B = {}
  BY DEF HeapOK
<1>4. Body(ch[1]) # p /\ \A g \in Blocks(d) : Body(g) # p
  BY DEF HeapOK, Drops
<1>5. \A g \in Blocks(ch) : Body(g) # p => g \in Blocks(d)
  BY DEF Drops
<1>6. Taken(d) = Taken(ch) \ {p}
  <2>1. \A o : o \in Taken(d) => o \in Taken(ch) \ {p}
    BY <1>4 DEF Taken, Drops
  <2>2. \A o : o \in Taken(ch) \ {p} => o \in Taken(d)
    BY <1>5 DEF Taken
  <2> QED
    BY <2>1, <2>2
<1>7. ListOK(d) /\ Body(d[1]) \notin B
  <2>1. Len(d) > 1 /\ d[Len(d)].size = 0 /\ d[1] = ch[1]
    BY DEF Drops
  <2>2. Len(ch) > 1
    <3>1. p \in Taken(ch)
      BY <1>3
    <3> QED
      BY <3>1, <1>1, TakenFirst
  <2> QED
    BY <2>1, <2>2, <1>1 DEF HeapOK, ListOK
<1>8. \A g \in Blocks(d) : Body(g) \in DOMAIN m => g.size >= ObjSize
  BY DEF HeapOK, Drops
<1>9. Bodies(d) = {Body(g) : g \in Blocks(d)}
  BY DEF Bodies, Blocks
<1>10. DOMAIN m \subseteq Bodies(d)
  <2>1. DOMAIN m \subseteq Taken(d)
    BY <1>3, <1>6
  <2>2. Taken(d) \subseteq Bodies(d)
    BY <1>9 DEF Taken
  <2> QED
    BY <2>1, <2>2
<1>11. Restrict(m, DOMAIN m \cap Bodies(d)) = m
  <2>1. DOMAIN m \cap Bodies(d) = DOMAIN m
    BY <1>10
  <2> QED
    BY <2>1, <1>3 DEF Restrict, IsMem
<1>12. Taken(d) = DOMAIN m \cup (B \ {p}) /\ DOMAIN m \cap (B \ {p}) = {}
  BY <1>3, <1>6
<1> QED
  BY <1>3, <1>7, <1>8, <1>11, <1>12 DEF HeapOK


-----------------------------------------------------------------------------
(***************************************************************************)
(* What the operators on objects do to a Good machine.                     *)
(***************************************************************************)
SameStacks(c, d) == d.st = c.st /\ d.sp = c.sp /\ d.bp = c.bp /\ d.ends = c.ends

\* A pointer that m_alloc has just returned.
IsNew(c, d, B, K) ==
  d.state # "CRASH" =>
    /\ c.state # "CRASH"
    /\ d.obj \in Addresses /\ d.obj # NULL /\ d.obj \notin B /\ d.obj \notin K

\* The fields that Alloc and InitObject change.
LEMMA AllocFields ==
  ASSUME NEW c, NEW r, NEW d, IsCtx(c), d = Allocated(c, r)
  PROVE  /\ IsCtx(d) /\ SameStacks(c, d)
         /\ d.chain = r.chain /\ d.mem = c.mem /\ d.obj = r.ptr
         /\ d.state = IF r.ptr = NULL THEN "CRASH" ELSE c.state
BY DEF Allocated, IsCtx, Fields, SameStacks

\* What InitObject changes of a machine.
LEMMA InitFields ==
  ASSUME NEW c, NEW d, IsCtx(c), d = InitObject(c)
  PROVE  /\ IsCtx(d) /\ SameStacks(c, d)
         /\ d.chain = c.chain /\ d.obj = c.obj /\ d.state = c.state
         /\ d.mem = IF c.obj = NULL THEN c.mem ELSE Initialised(c.mem, c.obj)
BY DEF InitObject, IsCtx, Fields, SameStacks

\* What a release changes of a machine.
LEMMA FreedFields ==
  ASSUME NEW c, NEW ch, NEW d, IsCtx(c), d = Freed(c, ch)
  PROVE  /\ IsCtx(d) /\ SameStacks(c, d)
         /\ d.chain = ch /\ d.obj = c.obj /\ d.state = c.state
         /\ d.mem = Restrict(c.mem, DOMAIN c.mem \cap Bodies(ch))
BY DEF Freed, IsCtx, Fields, SameStacks

\* The stack is what it was.
LEMMA StackKept ==
  ASSUME NEW c, NEW d, NEW sp, NEW bp, NEW M,
         GoodStack(c, sp, bp, M), SameStacks(c, d), d.obj \in Addresses
  PROVE  GoodStack(d, sp, bp, M)
BY DEF GoodStack, SameStacks

\* A buffer is allocated.
LEMMA AllocGood ==
  ASSUME NEW c, NEW B, NEW K, NEW sp, NEW bp, NEW M, NEW s, NEW d,
         Good(c, B, K, sp, bp, M), s \in Nat \ {0}, d = Alloc(c, s)
  PROVE  Good(d, B \cup {d.obj}, K, sp, bp, M) /\ IsNew(c, d, B, K)
<1>1. PICK r : r = m_alloc(c.chain, s)
  OBVIOUS
<1>2. IsCtx(c) /\ c.state \in States /\ d = Allocated(c, r)
  BY <1>1 DEF Good, Alloc
<1>3. /\ IsCtx(d) /\ SameStacks(c, d)
      /\ d.chain = r.chain /\ d.mem = c.mem /\ d.obj = r.ptr
      /\ d.state = IF r.ptr = NULL THEN "CRASH" ELSE c.state
  BY <1>2, AllocFields
<1>4. d.state \in States
  BY <1>2, <1>3 DEF States
<1>5. CASE d.state = "CRASH"
  BY <1>3, <1>4, <1>5 DEF Good, IsNew
<1>6. CASE d.state # "CRASH"
  <2>1. c.state # "CRASH" /\ r.ptr # NULL
    BY <1>3, <1>6
  <2>2. GoodHeap(c, B, K) /\ GoodStack(c, sp, bp, M)
    BY <2>1 DEF Good
  <2>3. HeapOK(c.chain, c.mem, B) /\ Len(c.chain) > 1 /\ K \subseteq DOMAIN c.mem
    BY <2>2 DEF GoodHeap
  <2>4. WellFormed(c.chain)
    BY <2>3 DEF HeapOK, ListOK
  <2>5. Adds(c.chain, d.chain, d.obj, s)
    BY <2>1, <2>4, <1>1, <1>3, AllocAdds
  <2>6. HeapOK(d.chain, c.mem, B \cup {d.obj}) /\ d.obj \notin DOMAIN c.mem /\ d.obj \notin B
        /\ Len(d.chain) > 1
    BY <2>3, <2>5, BufferHeap
  <2>7. d.obj \in Addresses
    BY <2>5, Constants DEF Adds, Addresses
  <2>8. GoodStack(d, sp, bp, M)
    BY <2>2, <2>7, <1>3, StackKept
  <2>9. GoodHeap(d, B \cup {d.obj}, K)
    BY <2>3, <2>6, <1>3 DEF GoodHeap
  <2> QED
    BY <2>1, <2>3, <2>6, <2>7, <2>8, <2>9, <1>3, <1>4 DEF Good, IsNew
<1> QED
  BY <1>5, <1>6

\* An object is created, the first one of the heap maybe.
LEMMA CreateFirst ==
  ASSUME NEW c, NEW B, NEW K, NEW sp, NEW bp, NEW M, NEW len, NEW d,
         IsCtx(c), c.state \in States,
         c.state # "CRASH" =>
           /\ HeapOK(c.chain, c.mem, B) /\ K \subseteq DOMAIN c.mem
           /\ GoodStack(c, sp, bp, M),
         len \in Nat, d = vm_create_object(c, len)
  PROVE  Good(d, B, K \cup {d.obj}, sp, bp, M) /\ IsNew(c, d, B, K)
<1>1. PICK r : r = m_alloc(c.chain, ObjSize + len)
  OBVIOUS
<1>2. PICK e : e = Allocated(c, r)
  OBVIOUS
<1>3. d = InitObject(e)
  BY <1>1, <1>2 DEF vm_create_object, Alloc
<1>4. /\ IsCtx(e) /\ SameStacks(c, e)
      /\ e.chain = r.chain /\ e.mem = c.mem /\ e.obj = r.ptr
      /\ e.state = IF r.ptr = NULL THEN "CRASH" ELSE c.state
  BY <1>2, AllocFields
<1>5. /\ IsCtx(d) /\ SameStacks(e, d)
      /\ d.chain = e.chain /\ d.obj = e.obj /\ d.state = e.state
      /\ d.mem = IF e.obj = NULL THEN e.mem ELSE Initialised(e.mem, e.obj)
  BY <1>3, <1>4, InitFields
<1>6. d.state \in States
  BY <1>4, <1>5 DEF States
<1>7. CASE d.state = "CRASH"
  BY <1>5, <1>6, <1>7 DEF Good, IsNew
<1>8. CASE d.state # "CRASH"
  <2>1. c.state # "CRASH" /\ r.ptr # NULL
    BY <1>4, <1>5, <1>8
  <2>2. HeapOK(c.chain, c.mem, B) /\ K \subseteq DOMAIN c.mem /\ GoodStack(c, sp, bp, M)
    BY <2>1
  <2>3. ObjSize + len \in Nat \ {0} /\ ObjSize + len >= ObjSize
    BY Constants
  <2>4. WellFormed(c.chain)
    BY <2>2 DEF HeapOK, ListOK
  <2>5. Adds(c.chain, d.chain, d.obj, ObjSize + len)
    BY <2>1, <2>3, <2>4, <1>1, <1>4, <1>5, AllocAdds
  <2>6. d.mem = Initialised(c.mem, d.obj)
    BY <2>1, <1>4, <1>5
  <2>7. /\ HeapOK(d.chain, d.mem, B) /\ Len(d.chain) > 1
        /\ d.obj \notin DOMAIN c.mem /\ d.obj \notin B
        /\ DOMAIN c.mem \subseteq DOMAIN d.mem /\ d.obj \in DOMAIN d.mem
    <3>1. PICK a, m, b, n, p, s : /\ a = c.chain /\ m = c.mem /\ b = d.chain /\ n = d.mem
                                  /\ p = d.obj /\ s = ObjSize + len
      OBVIOUS
    <3>2. HeapOK(a, m, B) /\ Adds(a, b, p, s) /\ HoldsObject(s) /\ n = Initialised(m, p)
      BY <3>1, <2>2, <2>3, <2>5, <2>6 DEF HoldsObject
    <3>3. /\ HeapOK(b, n, B) /\ Len(b) > 1
          /\ p \notin DOMAIN m /\ p \notin B
          /\ DOMAIN m \subseteq DOMAIN n /\ p \in DOMAIN n
      BY <3>2, ObjectHeap
    <3> QED
      BY <3>1, <3>3
  <2>8. d.obj \in Addresses
    BY <2>5, Constants DEF Adds, Addresses
  <2>9. GoodStack(d, sp, bp, M)
    BY <2>2, <2>8, <1>4, <1>5 DEF GoodStack, SameStacks
  <2>10. GoodHeap(d, B, K \cup {d.obj})
    BY <2>2, <2>7 DEF GoodHeap
  <2> QED
    BY <2>1, <2>2, <2>7, <2>8, <2>9, <2>10, <1>4, <1>5, <1>6 DEF Good, IsNew
<1> QED
  BY <1>7, <1>8

\* vm_create_object adds an object to a good machine.
LEMMA CreateGood ==
  ASSUME NEW c, NEW B, NEW K, NEW sp, NEW bp, NEW M, NEW len, NEW d,
         Good(c, B, K, sp, bp, M), len \in Nat, d = vm_create_object(c, len)
  PROVE  Good(d, B, K \cup {d.obj}, sp, bp, M) /\ IsNew(c, d, B, K)
<1>1. /\ IsCtx(c) /\ c.state \in States
      /\ c.state # "CRASH" => /\ HeapOK(c.chain, c.mem, B) /\ K \subseteq DOMAIN c.mem
                              /\ GoodStack(c, sp, bp, M)
  BY DEF Good, GoodHeap
<1> QED
  BY <1>1, CreateFirst

\* Something that is no buffer is released.
LEMMA ReleaseGood ==
  ASSUME NEW c, NEW B, NEW K, NEW sp, NEW bp, NEW M, NEW o, NEW d,
         Good(c, B, K, sp, bp, M), o \notin B,
         K # {} \/ B # {} \/ RootTaken,
         d = vm_release_object(c, o)
  PROVE  Good(d, B, K \ {o}, sp, bp, M) /\ d.obj = c.obj /\ d.state = c.state
<1>1. PICK ch : ch = IF o = NULL THEN c.chain ELSE m_free(c.chain, o)
  OBVIOUS
<1>2. IsCtx(c) /\ c.state \in States /\ d = Freed(c, ch)
  BY <1>1 DEF Good, vm_release_object
<1>3. /\ IsCtx(d) /\ SameStacks(c, d)
      /\ d.chain = ch /\ d.obj = c.obj /\ d.state = c.state
      /\ d.mem = Restrict(c.mem, DOMAIN c.mem \cap Bodies(ch))
  BY <1>2, FreedFields
<1>4. CASE c.state = "CRASH"
  BY <1>2, <1>3, <1>4 DEF Good
<1>5. CASE c.state # "CRASH"
  <2>1. GoodHeap(c, B, K) /\ GoodStack(c, sp, bp, M)
    BY <1>5 DEF Good
  <2>2. HeapOK(c.chain, c.mem, B) /\ Len(c.chain) > 1 /\ K \subseteq DOMAIN c.mem
    BY <2>1 DEF GoodHeap
  <2>3. WellFormed(c.chain) /\ c.chain[Len(c.chain)].size = 0
    BY <2>2 DEF HeapOK, ListOK
  <2>4. c.chain[1].size > 0 \/ c.chain[2].size > 0
    <3>1. CASE RootTaken
      BY <3>1, <2>2 DEF HeapOK, ListOK
    <3>2. CASE ~RootTaken
      <4>1. PICK x : x \in K \cup B
        BY <3>2
      <4>2. x \in Taken(c.chain)
        BY <4>1, <2>2 DEF HeapOK
      <4> QED
        BY <4>2, <2>3, TakenFirst
    <3> QED
      BY <3>1, <3>2
  <2>5. GoodStack(d, sp, bp, M)
    <3>1. c.obj \in Addresses
      BY <2>1 DEF GoodStack
    <3> QED
      BY <3>1, <2>1, <1>3, StackKept
  <2>6. Drops(c.chain, m_free(c.chain, o), o)
    BY <2>2, <2>3, <2>4, FreeDrops
  <2>7. Drops(c.chain, ch, o)
    <3>1. CASE o # NULL
      BY <3>1, <2>6, <1>1
    <3>2. CASE o = NULL
      <4>1. \A g \in Blocks(c.chain) : Body(g) # o
        BY <3>2, <2>3, TakenInHeap, Constants DEF NULL
      <4>2. ch = c.chain
        BY <3>2, <1>1
      <4> QED
        BY <4>1, <4>2, <2>2, <2>3 DEF Drops
    <3> QED
      BY <3>1, <3>2
  <2>8. /\ HeapOK(ch, d.mem, B)
        /\ \A x \in DOMAIN c.mem : x # o => x \in DOMAIN d.mem
    <3>1. PICK a, m, n : a = c.chain /\ m = c.mem /\ n = d.mem
      OBVIOUS
    <3>2. HeapOK(a, m, B) /\ Drops(a, ch, o) /\ o \notin B
          /\ Survives(m, ch, n)
      BY <3>1, <2>2, <2>7, <1>3 DEF Survives
    <3>3. /\ HeapOK(ch, n, B)
          /\ DOMAIN n \subseteq DOMAIN m
          /\ \A x \in DOMAIN m : x # o => x \in DOMAIN n
          /\ \A x \in DOMAIN n : n[x] = m[x]
      BY <3>2, FreeHeap
    <3> QED
      BY <3>1, <3>3
  <2>9. Len(d.chain) > 1
    BY <2>7, <1>3 DEF Drops
  <2>10. GoodHeap(d, B, K \ {o})
    BY <2>2, <2>8, <2>9, <1>3 DEF GoodHeap
  <2> QED
    BY <2>5, <2>10, <1>2, <1>3 DEF Good
<1> QED
  BY <1>4, <1>5

\* A buffer is released.
LEMMA ReleaseBufferGood ==
  ASSUME NEW r, NEW c, NEW B, NEW K, NEW sp, NEW bp, NEW M, NEW d,
         Good(r, B, K, sp, bp, M), r.state # "CRASH" => c.obj \in B,
         d = ReleaseBuffer(r, c)
  PROVE  /\ Good(d, B \ {c.obj}, K, sp, bp, M)
         /\ d.obj = r.obj
         /\ d.state # "CRASH" => r.state # "CRASH" /\ d.state = r.state
<1>0. IsCtx(r) /\ r.state \in States
  BY DEF Good
<1>1. CASE c.obj = NULL \/ r.obj = NULL
  <2>1. d = [r EXCEPT !.state = "CRASH"]
    BY <1>1 DEF ReleaseBuffer
  <2>2. IsCtx(d) /\ d.state = "CRASH" /\ d.obj = r.obj
    BY <2>1, <1>0 DEF IsCtx, Fields
  <2> QED
    BY <2>2 DEF Good, States
<1>2. CASE ~(c.obj = NULL \/ r.obj = NULL)
  <2>1. PICK ch : ch = m_free(r.chain, c.obj)
    OBVIOUS
  <2>2. d = Freed(r, ch)
    BY <2>1, <1>2 DEF ReleaseBuffer, vm_release_object
  <2>3. /\ IsCtx(d) /\ SameStacks(r, d)
        /\ d.chain = ch /\ d.obj = r.obj /\ d.state = r.state
        /\ d.mem = Restrict(r.mem, DOMAIN r.mem \cap Bodies(ch))
    BY <2>2, <1>0, FreedFields
  <2>4. CASE r.state = "CRASH"
    BY <2>3, <2>4, <1>0 DEF Good
  <2>5. CASE r.state # "CRASH"
    <3>1. GoodHeap(r, B, K) /\ GoodStack(r, sp, bp, M) /\ c.obj \in B
      BY <2>5 DEF Good
    <3>2. HeapOK(r.chain, r.mem, B) /\ Len(r.chain) > 1 /\ K \subseteq DOMAIN r.mem
      BY <3>1 DEF GoodHeap
    <3>3. WellFormed(r.chain) /\ r.chain[Len(r.chain)].size = 0
      BY <3>2 DEF HeapOK, ListOK
    <3>4. c.obj \in Taken(r.chain)
      BY <3>1, <3>2 DEF HeapOK
    <3>5. r.chain[1].size > 0 \/ r.chain[2].size > 0
      BY <3>3, <3>4, TakenFirst
    <3>6. Drops(r.chain, ch, c.obj)
      BY <3>2, <3>3, <3>5, <2>1, FreeDrops
    <3>7. HeapOK(d.chain, d.mem, B \ {c.obj}) /\ d.mem = r.mem
      BY <3>1, <3>2, <3>6, <2>3, FreeBuffer
    <3>8. Len(d.chain) > 1
      BY <3>6, <2>3 DEF Drops
    <3>9. GoodStack(d, sp, bp, M)
      <4>1. r.obj \in Addresses
        BY <3>1 DEF GoodStack
      <4> QED
        BY <4>1, <3>1, <2>3, StackKept
    <3>10. GoodHeap(d, B \ {c.obj}, K)
      BY <3>2, <3>7, <3>8 DEF GoodHeap
    <3> QED
      BY <3>9, <3>10, <2>3, <1>0 DEF Good
  <2> QED
    BY <2>4, <2>5, <2>3
<1> QED
  BY <1>1, <1>2


-----------------------------------------------------------------------------
(***************************************************************************)
(* Counters and locks change, objects stay objects.                        *)
(***************************************************************************)
Retyped(m, n) == IsMem(n) /\ DOMAIN n = DOMAIN m

\* One object is replaced by a typed one.
LEMMA SetOne ==
  ASSUME NEW m, NEW o, NEW v, NEW n,
         IsMem(m), o \in DOMAIN m => v \in Objects, n = [m EXCEPT ![o] = v]
  PROVE  Retyped(m, n)
BY DEF IsMem, Retyped

\* Nothing is changed.
LEMMA RetypedSame ==
  ASSUME NEW m, IsMem(m)
  PROVE  Retyped(m, m)
BY DEF Retyped

\* The fields of an object, and what may be written to them.
LEMMA ObjectFields ==
  ASSUME NEW x \in Objects
  PROVE  /\ x.mgc \in 0 .. 255 /\ x.lock \in 0 .. 255 /\ x.holds \in Addresses
         /\ \A v \in 0 .. 255 : [x EXCEPT !.mgc = v] \in Objects
         /\ \A v, w \in 0 .. 255 : [x EXCEPT !.mgc = v, !.lock = w] \in Objects
         /\ \A v \in Addresses : [x EXCEPT !.holds = v] \in Objects
BY DEF Objects

\* A byte is incremented, decremented, and counted in its lower half.
LEMMA Bytes ==
  ASSUME NEW b \in 0 .. 255
  PROVE  /\ (b + 1) % 256 \in 0 .. 255 /\ (b - 1) % 256 \in 0 .. 255
         /\ b % 16 \in 0 .. 15
         /\ b % 16 # 15 => b + 1 \in 0 .. 255
         /\ b % 16 # 0 => b - 1 \in 0 .. 255
         /\ b # 0 => b - 1 \in 0 .. 255
         /\ (b - (b % 16)) + ((b + 1) % 16) \in 0 .. 255
<1>1. /\ b % 16 \in 0 .. 15 /\ b % 16 <= b
      /\ b - (b % 16) \in 0 .. 240
      /\ (b + 1) % 16 \in 0 .. 15
  BY Z3
<1> QED
  BY <1>1, Z3

\* Inc changes no object but by its counter.
LEMMA IncRetypes ==
  ASSUME NEW m, NEW o, NEW n, IsMem(m), n = Inc(m, o)
  PROVE  Retyped(m, n)
<1>1. CASE o \notin DOMAIN m
  BY <1>1, RetypedSame DEF Inc
<1>2. CASE o \in DOMAIN m
  <2>1. PICK v : v = [m[o] EXCEPT !.mgc = (m[o].mgc + 1) % 256]
    OBVIOUS
  <2>2. m[o] \in Objects
    BY <1>2 DEF IsMem
  <2>3. v \in Objects
    BY <2>1, <2>2, ObjectFields, Bytes
  <2>4. n = [m EXCEPT ![o] = v]
    BY <2>1, <1>2 DEF Inc
  <2> QED
    BY <2>3, <2>4, SetOne
<1> QED
  BY <1>1, <1>2

\* Nor does Dec.
LEMMA DecRetypes ==
  ASSUME NEW m, NEW o, NEW n, IsMem(m), n = Dec(m, o)
  PROVE  Retyped(m, n)
<1>1. CASE o \notin DOMAIN m
  BY <1>1, RetypedSame DEF Dec
<1>2. CASE o \in DOMAIN m
  <2>1. PICK v : v = [m[o] EXCEPT !.mgc = (m[o].mgc - 1) % 256]
    OBVIOUS
  <2>2. m[o] \in Objects
    BY <1>2 DEF IsMem
  <2>3. v \in Objects
    BY <2>1, <2>2, ObjectFields, Bytes
  <2>4. n = [m EXCEPT ![o] = v]
    BY <2>1, <1>2 DEF Dec
  <2> QED
    BY <2>3, <2>4, SetOne
<1> QED
  BY <1>1, <1>2

\* Nor does vm_object_ref.
LEMMA RefRetypes ==
  ASSUME NEW m, NEW o, NEW n, IsMem(m), o \in DOMAIN m, n = vm_object_ref(m, o)
  PROVE  Retyped(m, n)
<1>0. m[o] \in Objects
  BY DEF IsMem
<1>1. CASE Count(m[o]) = 15
  BY <1>1, RetypedSame DEF vm_object_ref
<1>2. CASE Count(m[o]) # 15
  <2>1. PICK v : v = [m[o] EXCEPT !.mgc = m[o].mgc + 1, !.lock = (m[o].lock + 1) % 256]
    OBVIOUS
  <2>2. m[o].mgc + 1 \in 0 .. 255 /\ (m[o].lock + 1) % 256 \in 0 .. 255
    BY <1>0, <1>2, ObjectFields, Bytes DEF Count
  <2>3. v \in Objects
    BY <2>1, <2>2, <1>0, ObjectFields
  <2>4. n = [m EXCEPT ![o] = v]
    BY <2>1, <1>2 DEF vm_object_ref
  <2> QED
    BY <2>3, <2>4, SetOne
<1> QED
  BY <1>1, <1>2

\* Nor does vm_object_unref.
LEMMA UnrefRetypes ==
  ASSUME NEW m, NEW o, NEW n, IsMem(m), n = vm_object_unref(m, o)
  PROVE  Retyped(m, n)
<1>1. CASE o \notin DOMAIN m
  BY <1>1, RetypedSame DEF vm_object_unref
<1>2. CASE o \in DOMAIN m
  <2>0. m[o] \in Objects
    BY <1>2 DEF IsMem
  <2>1. PICK a : a = IF m[o].mgc % 16 = 0 THEN m[o].mgc ELSE m[o].mgc - 1
    OBVIOUS
  <2>2. PICK b : b = IF m[o].lock = 0 THEN m[o].lock ELSE m[o].lock - 1
    OBVIOUS
  <2>3. m[o].mgc \in 0 .. 255 /\ m[o].lock \in 0 .. 255
    BY <2>0, ObjectFields
  <2>4. a \in 0 .. 255
    BY <2>1, <2>3, Bytes
  <2>5. b \in 0 .. 255
    BY <2>2, <2>3, Bytes
  <2>6. PICK v : v = [m[o] EXCEPT !.mgc = a, !.lock = b]
    OBVIOUS
  <2>7. v \in Objects
    BY <2>0, <2>4, <2>5, <2>6, ObjectFields
  <2>8. n = [m EXCEPT ![o] = v]
    BY <2>1, <2>2, <2>6, <1>2 DEF vm_object_unref
  <2> QED
    BY <2>7, <2>8, SetOne
<1> QED
  BY <1>1, <1>2

\* The heap of a machine whose objects changed.
LEMMA RetypedHeap ==
  ASSUME NEW ch, NEW m, NEW B, NEW n, HeapOK(ch, m, B), Retyped(m, n)
  PROVE  HeapOK(ch, n, B)
BY DEF HeapOK, Retyped

\* Only the objects and the C variable obj changed.
SameButMem(c, d) ==
  /\ IsCtx(d) /\ SameStacks(c, d)
  /\ d.chain = c.chain /\ d.state = c.state
  /\ c.state # "CRASH" => d.obj \in Addresses

\* A machine stays good when only fields of its objects change.
LEMMA MemGood ==
  ASSUME NEW c, NEW B, NEW K, NEW sp, NEW bp, NEW M, NEW d,
         Good(c, B, K, sp, bp, M), SameButMem(c, d),
         c.state # "CRASH" => Retyped(c.mem, d.mem)
  PROVE  Good(d, B, K, sp, bp, M)
<1>0. d.state = c.state /\ IsCtx(d) /\ c.state \in States /\ d.chain = c.chain
  BY DEF SameButMem, Good
<1>1. CASE c.state = "CRASH"
  BY <1>0, <1>1 DEF Good
<1>2. CASE c.state # "CRASH"
  <2>1. GoodHeap(c, B, K) /\ GoodStack(c, sp, bp, M)
    BY <1>2 DEF Good
  <2>2. GoodStack(d, sp, bp, M)
    BY <1>2, <2>1, StackKept DEF SameButMem
  <2>3. HeapOK(c.chain, c.mem, B) /\ Len(c.chain) > 1 /\ K \subseteq DOMAIN c.mem
    BY <2>1 DEF GoodHeap
  <2>4. HeapOK(c.chain, d.mem, B) /\ DOMAIN d.mem = DOMAIN c.mem
    BY <1>2, <2>3, RetypedHeap DEF Retyped
  <2>5. GoodHeap(d, B, K)
    BY <2>3, <2>4, <1>0 DEF GoodHeap
  <2> QED
    BY <2>2, <2>5, <1>0 DEF Good
<1> QED
  BY <1>1, <1>2


-----------------------------------------------------------------------------
(***************************************************************************)
(* The two stacks.                                                         *)
(***************************************************************************)
SameHeap(c, d) == IsCtx(d) /\ d.chain = c.chain /\ d.state = c.state /\ d.ends = c.ends

\* There is room for an operand above the frames.
Room(sp, bp) == sp \in Slots /\ bp \in Nat /\ bp <= sp

\* A slot is an operand's, and nobody else's.
LEMMA SetOperand ==
  ASSUME NEW st, NEW sp, NEW bp, NEW M, NEW o, NEW s, NEW t,
         StackOK(st, sp, bp, M), Room(s, bp), o \in Addresses, t = [st EXCEPT ![s] = o]
  PROVE  /\ StackOK(t, sp, bp, M)
         /\ s = sp => StackOK(t, sp - 1, bp, M)
         /\ s = sp + 1 /\ sp \in Int => StackOK(t, s, bp, M)
<1>1. o # RetMark
  BY Constants DEF Addresses, RetMark
<1>2. /\ t \in [Slots -> {RetMark} \cup Addresses]
      /\ t[s] = o /\ \A x \in Slots : x # s => t[x] = st[x]
      /\ s \in Nat /\ bp \in Nat /\ bp <= s
  BY DEF StackOK, Room, Slots
<1>3. \A x \in Slots : x < bp => t[x] = st[x]
  BY <1>2 DEF Slots
<1> QED
  BY <1>1, <1>2, <1>3 DEF StackOK, Slots

\* Operands are addresses, and so are variables.
LEMMA OperandAddress ==
  ASSUME NEW st, NEW sp, NEW bp, NEW M, NEW s, StackOK(st, sp, bp, M), s \in Slots, s > sp
  PROVE  st[s] \in Addresses
BY DEF StackOK

\* What is among the frames and no return mark is an address.
LEMMA VariableAddress ==
  ASSUME NEW st, NEW sp, NEW bp, NEW M, NEW s,
         StackOK(st, sp, bp, M), s \in Slots, s < bp, s \notin M
  PROVE  st[s] \in Addresses
BY DEF StackOK

\* What vm_push_stack changes of a machine.
LEMMA PushFields ==
  ASSUME NEW c, NEW o, NEW d, IsCtx(c), d = vm_push_stack(c, o)
  PROVE  /\ SameHeap(c, d) /\ d.mem = c.mem /\ d.obj = c.obj /\ d.bp = c.bp
         /\ d.sp = c.sp - 1 /\ d.st = [c.st EXCEPT ![c.sp] = o]
BY DEF vm_push_stack, IsCtx, Fields, SameHeap

\* An address is pushed.
LEMMA PushGood ==
  ASSUME NEW c, NEW B, NEW K, NEW sp, NEW bp, NEW M, NEW o, NEW d,
         Good(c, B, K, sp, bp, M), Room(sp, bp), c.state # "CRASH" => o \in Addresses,
         d = vm_push_stack(c, o)
  PROVE  /\ Good(d, B, K, sp - 1, bp, M)
         /\ d.obj = c.obj /\ d.state = c.state /\ IsCtx(d) /\ d.mem = c.mem
<1>1. IsCtx(c) /\ c.state \in States
  BY DEF Good
<1>2. /\ SameHeap(c, d) /\ d.mem = c.mem /\ d.obj = c.obj /\ d.bp = c.bp
      /\ d.sp = c.sp - 1 /\ d.st = [c.st EXCEPT ![c.sp] = o]
  BY <1>1, PushFields
<1>3. IsCtx(d) /\ d.state = c.state /\ d.chain = c.chain /\ d.ends = c.ends
  BY <1>2 DEF SameHeap
<1>4. CASE c.state = "CRASH"
  BY <1>1, <1>2, <1>3, <1>4 DEF Good
<1>5. CASE c.state # "CRASH"
  <2>1. GoodHeap(c, B, K) /\ GoodStack(c, sp, bp, M)
    BY <1>5 DEF Good
  <2>2. c.sp = sp /\ c.bp = bp /\ StackOK(c.st, sp, bp, M) /\ d.st = [c.st EXCEPT ![sp] = o]
    BY <2>1, <1>2 DEF GoodStack
  <2>3. StackOK(d.st, sp - 1, bp, M)
    BY <2>2, <1>5, SetOperand
  <2>4. GoodStack(d, sp - 1, bp, M)
    BY <2>1, <2>2, <2>3, <1>2, <1>3 DEF GoodStack
  <2>5. GoodHeap(d, B, K)
    BY <2>1, <1>2, <1>3 DEF GoodHeap
  <2> QED
    BY <2>4, <2>5, <1>1, <1>2, <1>3 DEF Good
<1> QED
  BY <1>4, <1>5

\* An address is pushed and counted.
LEMMA PushArcGood ==
  ASSUME NEW c, NEW B, NEW K, NEW sp, NEW bp, NEW M, NEW o, NEW d,
         Good(c, B, K, sp, bp, M), Room(sp, bp), c.state # "CRASH" => o \in Addresses,
         d = vm_push_stack_arc(c, o)
  PROVE  /\ Good(d, B, K, sp - 1, bp, M)
         /\ d.obj = c.obj /\ d.state = c.state
<1>1. PICK e : e = vm_push_stack(c, o)
  OBVIOUS
<1>2. Good(e, B, K, sp - 1, bp, M) /\ e.obj = c.obj /\ e.state = c.state /\ IsCtx(e)
  BY <1>1, PushGood
<1>3. d = [e EXCEPT !.mem = Inc(@, o)]
  BY <1>1 DEF vm_push_stack_arc
<1>4. d.mem = Inc(e.mem, o) /\ d.state = e.state /\ d.obj = e.obj
  BY <1>2, <1>3 DEF IsCtx, Fields
<1>5. SameButMem(e, d)
  <2>1. e.state # "CRASH" => e.obj \in Addresses
    BY <1>2 DEF Good, GoodStack
  <2> QED
    BY <2>1, <1>2, <1>3 DEF IsCtx, Fields, SameButMem, SameStacks
<1>6. e.state # "CRASH" => Retyped(e.mem, d.mem)
  <2>1. e.state # "CRASH" => IsMem(e.mem)
    BY <1>2 DEF Good, GoodHeap, HeapOK
  <2> QED
    BY <2>1, <1>4, IncRetypes
<1> QED
  BY <1>2, <1>4, <1>5, <1>6, MemGood

\* What vm_pop_stack_arc changes of a machine.
LEMMA PopFields ==
  ASSUME NEW c, NEW d, IsCtx(c), d = vm_pop_stack_arc(c)
  PROVE  /\ SameHeap(c, d) /\ d.bp = c.bp
         /\ d.sp = c.sp + 1 /\ d.st = [c.st EXCEPT ![c.sp + 1] = NULL]
         /\ d.mem = Dec(c.mem, c.st[c.sp + 1]) /\ d.obj = c.st[c.sp + 1]
BY DEF vm_pop_stack_arc, IsCtx, Fields, SameHeap

\* An operand is popped and counted down; it may be in the slot right above the
\* frames.
LEMMA PopLowGood ==
  ASSUME NEW c, NEW B, NEW K, NEW sp, NEW bp, NEW M, NEW d,
         Good(c, B, K, sp, bp, M), sp \in Int, Room(sp + 1, bp),
         d = vm_pop_stack_arc(c)
  PROVE  /\ Good(d, B, K, sp + 1, bp, M) /\ Room(sp + 1, bp)
         /\ d.state = c.state
<1>1. IsCtx(c) /\ c.state \in States
  BY DEF Good
<1>2. /\ SameHeap(c, d) /\ d.bp = c.bp
      /\ d.sp = c.sp + 1 /\ d.st = [c.st EXCEPT ![c.sp + 1] = NULL]
      /\ d.mem = Dec(c.mem, c.st[c.sp + 1]) /\ d.obj = c.st[c.sp + 1]
  BY <1>1, PopFields
<1>3. IsCtx(d) /\ d.state = c.state /\ d.chain = c.chain /\ d.ends = c.ends
  BY <1>2 DEF SameHeap
<1>0. Room(sp + 1, bp) /\ sp \in Int
  BY DEF Room, Slots
<1>4. CASE c.state = "CRASH"
  BY <1>0, <1>1, <1>2, <1>3, <1>4 DEF Good
<1>5. CASE c.state # "CRASH"
  <2>1. GoodHeap(c, B, K) /\ GoodStack(c, sp, bp, M)
    BY <1>5 DEF Good
  <2>2. /\ c.sp = sp /\ c.bp = bp /\ StackOK(c.st, sp, bp, M)
        /\ d.st = [c.st EXCEPT ![sp + 1] = NULL]
        /\ d.obj = c.st[sp + 1]
    BY <2>1, <1>2 DEF GoodStack
  <2>3. NULL \in Addresses
    BY Constants DEF NULL, Addresses
  <2>4. StackOK(d.st, sp + 1, bp, M)
    <3>1. PICK s : s = sp + 1
      OBVIOUS
    <3>2. StackOK(c.st, sp, bp, M) /\ Room(s, bp) /\ d.st = [c.st EXCEPT ![s] = NULL]
      BY <3>1, <2>2, <1>0
    <3>3. StackOK(d.st, s, bp, M)
      BY <3>1, <3>2, <2>3, <1>0, SetOperand
    <3> QED
      BY <3>1, <3>3
  <2>5. d.obj \in Addresses
    <3>1. PICK s : s = sp + 1
      OBVIOUS
    <3>2. s \in Slots /\ s > sp /\ d.obj = c.st[s]
      BY <3>1, <2>2, <1>0 DEF Room
    <3>3. PICK st : st = c.st
      OBVIOUS
    <3>4. StackOK(st, sp, bp, M) /\ s \in Slots /\ s > sp
      BY <3>2, <3>3, <2>2
    <3>5. st[s] \in Addresses
      BY <3>4, OperandAddress
    <3> QED
      BY <3>2, <3>3, <3>5
  <2>6. GoodStack(d, sp + 1, bp, M)
    BY <2>1, <2>2, <2>4, <2>5, <1>2, <1>3 DEF GoodStack
  <2>7. HeapOK(c.chain, c.mem, B) /\ Len(c.chain) > 1 /\ K \subseteq DOMAIN c.mem
    BY <2>1 DEF GoodHeap
  <2>8. Retyped(c.mem, d.mem)
    <3>1. IsMem(c.mem)
      BY <2>7 DEF HeapOK
    <3> QED
      BY <3>1, <1>2, DecRetypes
  <2>9. HeapOK(c.chain, d.mem, B) /\ DOMAIN d.mem = DOMAIN c.mem
    BY <2>7, <2>8, RetypedHeap DEF Retyped
  <2>10. GoodHeap(d, B, K)
    BY <2>7, <2>9, <1>3 DEF GoodHeap
  <2> QED
    BY <2>6, <2>10, <1>0, <1>1, <1>3 DEF Good
<1> QED
  BY <1>4, <1>5

\* There is an operand above a free slot.
LEMMA PopGood ==
  ASSUME NEW c, NEW B, NEW K, NEW sp, NEW bp, NEW M, NEW d,
         Good(c, B, K, sp, bp, M), Room(sp, bp), sp + 1 \in Slots,
         d = vm_pop_stack_arc(c)
  PROVE  /\ Good(d, B, K, sp + 1, bp, M) /\ Room(sp + 1, bp)
         /\ d.state = c.state
<1>1. sp \in Int /\ Room(sp + 1, bp)
  BY DEF Room, Slots
<1> QED
  BY <1>1, PopLowGood

\* What vm_push_base changes of a machine.
LEMMA PushBaseFields ==
  ASSUME NEW c, NEW o, NEW d, IsCtx(c), d = vm_push_base(c, o)
  PROVE  /\ SameHeap(c, d) /\ d.mem = c.mem /\ d.obj = c.obj /\ d.sp = c.sp
         /\ d.bp = c.bp + 1 /\ d.st = [c.st EXCEPT ![c.bp] = o]
BY DEF vm_push_base, IsCtx, Fields, SameHeap

\* A variable is put behind the frames, over an operand or outside the array maybe.
LEMMA PushVariableGood ==
  ASSUME NEW c, NEW B, NEW K, NEW sp, NEW bp, NEW M, NEW d,
         Good(c, B, K, sp, bp, M), bp \in Nat, bp \notin M, d = PushVariable(c)
  PROVE  Good(d, B, K, sp, bp + 1, M) /\ d.state = c.state
<1>1. IsCtx(c) /\ c.state \in States
  BY DEF Good
<1>2. /\ SameHeap(c, d) /\ d.mem = c.mem /\ d.obj = c.obj /\ d.sp = c.sp
      /\ d.bp = c.bp + 1 /\ d.st = [c.st EXCEPT ![c.bp] = c.obj]
  BY <1>1, PushBaseFields DEF PushVariable
<1>3. IsCtx(d) /\ d.state = c.state /\ d.chain = c.chain /\ d.ends = c.ends
  BY <1>2 DEF SameHeap
<1>4. CASE c.state = "CRASH"
  BY <1>1, <1>2, <1>3, <1>4 DEF Good
<1>5. CASE c.state # "CRASH"
  <2>1. GoodHeap(c, B, K) /\ GoodStack(c, sp, bp, M)
    BY <1>5 DEF Good
  <2>2. PICK t, o : t = d.st /\ o = c.obj
    OBVIOUS
  <2>3. /\ c.sp = sp /\ c.bp = bp /\ StackOK(c.st, sp, bp, M) /\ o \in Addresses
        /\ t = [c.st EXCEPT ![bp] = o]
    BY <2>1, <2>2, <1>2 DEF GoodStack
  <2>4. o # RetMark
    BY <2>3, Constants DEF Addresses, RetMark
  <2>5. StackOK(t, sp, bp + 1, M)
    <3>1. /\ t \in [Slots -> {RetMark} \cup Addresses]
          /\ \A s \in Slots : t[s] = IF s = bp THEN o ELSE c.st[s]
      BY <2>3 DEF StackOK
    <3>2. \A s \in Slots : s < bp + 1 => s = bp \/ s < bp
      BY DEF Slots
    <3>3. \A s \in Slots : s > sp => t[s] # RetMark
      BY <3>1, <2>3, <2>4 DEF StackOK
    <3>4. \A s \in Slots : s < bp => (t[s] = RetMark <=> s \in M)
      BY <3>1, <2>3 DEF StackOK, Slots
    <3>5. bp \in Slots => (t[bp] = RetMark <=> bp \in M)
      BY <3>1, <2>4
    <3> QED
      BY <3>1, <3>2, <3>3, <3>4, <3>5 DEF StackOK
  <2>6. GoodStack(d, sp, bp + 1, M)
    BY <2>1, <2>2, <2>3, <2>5, <1>2, <1>3 DEF GoodStack
  <2>7. GoodHeap(d, B, K)
    BY <2>1, <1>2, <1>3 DEF GoodHeap
  <2> QED
    BY <2>6, <2>7, <1>1, <1>2, <1>3 DEF Good
<1> QED
  BY <1>4, <1>5

\* A return mark is put behind the frames.
LEMMA PushMarkGood ==
  ASSUME NEW c, NEW B, NEW K, NEW sp, NEW bp, NEW M, NEW d,
         Good(c, B, K, sp, bp, M), Room(sp, bp), d = vm_push_base(c, RetMark)
  PROVE  Good(d, B, K, sp, bp + 1, M \cup {bp}) /\ d.state = c.state
<1>1. IsCtx(c) /\ c.state \in States
  BY DEF Good
<1>2. /\ SameHeap(c, d) /\ d.mem = c.mem /\ d.obj = c.obj /\ d.sp = c.sp
      /\ d.bp = c.bp + 1 /\ d.st = [c.st EXCEPT ![c.bp] = RetMark]
  BY <1>1, PushBaseFields
<1>3. IsCtx(d) /\ d.state = c.state /\ d.chain = c.chain /\ d.ends = c.ends
  BY <1>2 DEF SameHeap
<1>4. CASE c.state = "CRASH"
  BY <1>1, <1>2, <1>3, <1>4 DEF Good
<1>5. CASE c.state # "CRASH"
  <2>1. GoodHeap(c, B, K) /\ GoodStack(c, sp, bp, M)
    BY <1>5 DEF Good
  <2>2. PICK t : t = d.st
    OBVIOUS
  <2>3. /\ c.sp = sp /\ c.bp = bp /\ StackOK(c.st, sp, bp, M)
        /\ t = [c.st EXCEPT ![bp] = RetMark]
    BY <2>1, <2>2, <1>2 DEF GoodStack
  <2>4. bp \in Slots /\ bp <= sp /\ sp \in Int
    BY Constants DEF Room, Slots
  <2>5. StackOK(t, sp, bp + 1, M \cup {bp})
    <3>1. /\ t \in [Slots -> {RetMark} \cup Addresses]
          /\ \A s \in Slots : t[s] = IF s = bp THEN RetMark ELSE c.st[s]
      BY <2>3 DEF StackOK
    <3>2. \A s \in Slots : s < bp + 1 => s = bp \/ s < bp
      BY <2>4 DEF Slots
    <3>3. \A s \in Slots : s > sp => s # bp
      BY <2>4 DEF Slots
    <3>4. \A s \in Slots : s > sp => t[s] # RetMark
      BY <3>1, <3>3, <2>3 DEF StackOK
    <3>5. \A s \in Slots : s < bp => s # bp
      BY <2>4 DEF Slots
    <3>6. \A s \in Slots : s < bp => (t[s] = RetMark <=> s \in M \cup {bp})
      BY <3>1, <3>5, <2>3 DEF StackOK
    <3> QED
      BY <3>1, <3>2, <3>4, <3>6 DEF StackOK
  <2>6. GoodStack(d, sp, bp + 1, M \cup {bp})
    BY <2>1, <2>2, <2>3, <2>5, <1>2, <1>3 DEF GoodStack
  <2>7. GoodHeap(d, B, K)
    BY <2>1, <1>2, <1>3 DEF GoodHeap
  <2> QED
    BY <2>6, <2>7, <1>1, <1>2, <1>3 DEF Good
<1> QED
  BY <1>4, <1>5


Pops == INSTANCE Iteration WITH Step <- vm_pop_stack_arc

\* Up to three operands are popped.
LEMMA PopNGood ==
  ASSUME NEW c, NEW B, NEW K, NEW sp, NEW bp, NEW M, NEW k, NEW d,
         Good(c, B, K, sp, bp, M), Room(sp, bp), k \in 0 .. 3, sp + k \in Slots,
         d = PopN(c, k)
  PROVE  Good(d, B, K, sp + k, bp, M) /\ Room(sp + k, bp) /\ d.state = c.state
<1>1. PopN(c, k) = Pops!Times(c, k)
  BY Zenon DEF PopN, Pops!Times
<1>2. PICK f : f[0] = c /\ (\A j \in 1 .. k : f[j] = vm_pop_stack_arc(f[j - 1])) /\ d = f[k]
  <2>1. k \in Nat
    OBVIOUS
  <2> QED
    BY <2>1, <1>1, Pops!TimesUnrolls
<1>s. sp \in Int /\ \A j \in 0 .. k : sp + j \in Slots
  <2>1. sp \in 0 .. MaxStack - 1 /\ sp + k \in 0 .. MaxStack - 1
    BY DEF Room, Slots
  <2>2. \A j \in 0 .. k : sp + j \in 0 .. MaxStack - 1
    BY <2>1, Constants
  <2> QED
    BY <2>1, <2>2, Constants DEF Slots
<1>3. Good(f[0], B, K, sp, bp, M) /\ Room(sp, bp) /\ f[0].state = c.state
  BY <1>2
<1>4. ASSUME k >= 1
      PROVE  Good(f[1], B, K, sp + 1, bp, M) /\ Room(sp + 1, bp) /\ f[1].state = c.state
  <2>1. f[1] = vm_pop_stack_arc(f[0])
    BY <1>2, <1>4
  <2>2. sp + 1 \in Slots
    BY <1>s, <1>4
  <2> QED
    BY <2>1, <2>2, <1>3, PopGood
<1>5. ASSUME k >= 2
      PROVE  Good(f[2], B, K, sp + 2, bp, M) /\ Room(sp + 2, bp) /\ f[2].state = c.state
  <2>1. f[2] = vm_pop_stack_arc(f[1])
    BY <1>2, <1>5
  <2>2. PICK s : s = sp + 1
    OBVIOUS
  <2>3. s + 1 \in Slots /\ s + 1 = sp + 2
    BY <1>s, <1>5, <2>2
  <2>4. Good(f[1], B, K, s, bp, M) /\ Room(s, bp) /\ f[1].state = c.state
    BY <1>4, <1>5, <2>2
  <2>5. Good(f[2], B, K, s + 1, bp, M) /\ Room(s + 1, bp) /\ f[2].state = c.state
    BY <2>1, <2>3, <2>4, PopGood
  <2> QED
    BY <2>3, <2>5
<1>6. ASSUME k >= 3
      PROVE  Good(f[3], B, K, sp + 3, bp, M) /\ Room(sp + 3, bp) /\ f[3].state = c.state
  <2>1. f[3] = vm_pop_stack_arc(f[2])
    BY <1>2, <1>6
  <2>2. PICK s : s = sp + 2
    OBVIOUS
  <2>3. s + 1 \in Slots /\ s + 1 = sp + 3
    BY <1>s, <1>6, <2>2
  <2>4. Good(f[2], B, K, s, bp, M) /\ Room(s, bp) /\ f[2].state = c.state
    BY <1>5, <1>6, <2>2
  <2>5. Good(f[3], B, K, s + 1, bp, M) /\ Room(s + 1, bp) /\ f[3].state = c.state
    BY <2>1, <2>3, <2>4, PopGood
  <2> QED
    BY <2>3, <2>5
<1>7. CASE k = 0
  <2>1. sp + k = sp
    BY <1>7, <1>s
  <2> QED
    BY <2>1, <1>2, <1>3, <1>7
<1>8. CASE k = 1
  BY <1>2, <1>4, <1>8
<1>9. CASE k = 2
  BY <1>2, <1>5, <1>9
<1>10. CASE k = 3
  BY <1>2, <1>6, <1>10
<1> QED
  BY <1>7, <1>8, <1>9, <1>10

\* Fewer objects are known.
LEMMA GoodFewer ==
  ASSUME NEW c, NEW B, NEW K, NEW L, NEW sp, NEW bp, NEW M,
         Good(c, B, K, sp, bp, M), L \subseteq K
  PROVE  Good(c, B, L, sp, bp, M)
BY DEF Good, GoodHeap

\* The counter of the C variable's object is decremented.
LEMMA UncountGood ==
  ASSUME NEW c, NEW B, NEW K, NEW sp, NEW bp, NEW M, NEW d,
         Good(c, B, K, sp, bp, M), d = Uncount(c)
  PROVE  Good(d, B, K, sp, bp, M) /\ d.obj = c.obj /\ d.state = c.state
<1>1. IsCtx(c) /\ (c.state # "CRASH" => IsMem(c.mem) /\ c.obj \in Addresses)
  BY DEF Good, GoodHeap, HeapOK, GoodStack
<1>2. d.mem = Dec(c.mem, c.obj) /\ d.obj = c.obj /\ d.state = c.state
  BY <1>1 DEF Uncount, IsCtx, Fields
<1>3. SameButMem(c, d)
  BY <1>1 DEF Uncount, IsCtx, Fields, SameButMem, SameStacks
<1>4. c.state # "CRASH" => Retyped(c.mem, d.mem)
  BY <1>1, <1>2, DecRetypes
<1> QED
  BY <1>2, <1>3, <1>4, MemGood

\* A constant is loaded; its buffer is gone again.
LEMMA LoadGood ==
  ASSUME NEW c, NEW K, NEW sp, NEW bp, NEW M, NEW len, NEW d,
         Good(c, {}, K, sp, bp, M), len \in Nat, d = vm_load_constant(c, len)
  PROVE  Good(d, {}, K \cup {d.obj}, sp, bp, M) /\ IsNew(c, d, {}, K)
<1>1. PICK a : a = Alloc(c, len + 1)
  OBVIOUS
<1>2. PICK e : e = vm_create_object(a, len)
  OBVIOUS
<1>3. PICK u : u = Uncount(e)
  OBVIOUS
<1>4. d = ReleaseBuffer(u, a)
  BY <1>1, <1>2, <1>3 DEF vm_load_constant, ReadConstant
<1>5. len + 1 \in Nat \ {0}
  OBVIOUS
<1>6. Good(a, {} \cup {a.obj}, K, sp, bp, M) /\ IsNew(c, a, {}, K)
  BY <1>1, <1>5, AllocGood
<1>7. Good(a, {a.obj}, K, sp, bp, M)
  BY <1>6
<1>8. Good(e, {a.obj}, K \cup {e.obj}, sp, bp, M) /\ IsNew(a, e, {a.obj}, K)
  BY <1>2, <1>7, CreateGood
<1>9. Good(u, {a.obj}, K \cup {e.obj}, sp, bp, M) /\ u.obj = e.obj /\ u.state = e.state
  BY <1>3, <1>8, UncountGood
<1>10. /\ Good(d, {a.obj} \ {a.obj}, K \cup {e.obj}, sp, bp, M)
       /\ d.obj = u.obj
       /\ d.state # "CRASH" => u.state # "CRASH" /\ d.state = u.state
  BY <1>4, <1>9, ReleaseBufferGood
<1>11. {a.obj} \ {a.obj} = {}
  OBVIOUS
<1> QED
  BY <1>6, <1>8, <1>9, <1>10, <1>11 DEF IsNew

\* A buffer comes and goes.
LEMMA ScratchGood ==
  ASSUME NEW c, NEW K, NEW sp, NEW bp, NEW M, NEW s, NEW d,
         Good(c, {}, K, sp, bp, M), s \in Nat \ {0}, d = Scratch(c, s)
  PROVE  /\ Good(d, {}, K, sp, bp, M) /\ d.obj = c.obj
         /\ d.state # "CRASH" => c.state # "CRASH"
<1>1. PICK a : a = Alloc(c, s)
  OBVIOUS
<1>2. PICK r : r = ReleaseBuffer(a, a)
  OBVIOUS
<1>3. d = [r EXCEPT !.obj = c.obj]
  BY <1>1, <1>2 DEF Scratch
<1>4. Good(a, {} \cup {a.obj}, K, sp, bp, M) /\ IsNew(c, a, {}, K)
  BY <1>1, AllocGood
<1>5. Good(a, {a.obj}, K, sp, bp, M)
  BY <1>4
<1>6. /\ Good(r, {a.obj} \ {a.obj}, K, sp, bp, M)
      /\ r.state # "CRASH" => a.state # "CRASH" /\ r.state = a.state
  BY <1>2, <1>5, ReleaseBufferGood
<1>7. Good(r, {}, K, sp, bp, M)
  BY <1>6
<1>8. IsCtx(r) /\ (r.state # "CRASH" => c.state # "CRASH")
  BY <1>4, <1>6 DEF Good, IsNew
<1>9. c.state # "CRASH" => c.obj \in Addresses
  BY DEF Good, GoodStack
<1>10. SameButMem(r, d) /\ d.mem = r.mem /\ d.obj = c.obj /\ d.state = r.state
  BY <1>3, <1>8, <1>9 DEF IsCtx, Fields, SameButMem, SameStacks
<1>11. r.state # "CRASH" => Retyped(r.mem, d.mem)
  <2>1. r.state # "CRASH" => IsMem(r.mem)
    BY <1>7 DEF Good, GoodHeap, HeapOK
  <2> QED
    BY <2>1, <1>10, RetypedSame
<1> QED
  BY <1>7, <1>8, <1>10, <1>11, MemGood

\* A new object is pushed.
LEMMA PushNewGood ==
  ASSUME NEW c, NEW B, NEW K, NEW sp, NEW bp, NEW M, NEW len, NEW d,
         Good(c, B, K, sp, bp, M), Room(sp, bp), len \in Nat, d = PushNew(c, len)
  PROVE  Good(d, B, K \cup {d.obj}, sp - 1, bp, M) /\ IsNew(c, d, B, K)
<1>1. PICK e : e = vm_create_object(c, len)
  OBVIOUS
<1>2. d = vm_push_stack(e, e.obj)
  BY <1>1 DEF PushNew, PushObj
<1>3. Good(e, B, K \cup {e.obj}, sp, bp, M) /\ IsNew(c, e, B, K)
  BY <1>1, CreateGood
<1>4. e.state # "CRASH" => e.obj \in Addresses
  BY <1>3 DEF IsNew
<1>5. /\ Good(d, B, K \cup {e.obj}, sp - 1, bp, M)
      /\ d.obj = e.obj /\ d.state = e.state
  BY <1>2, <1>3, <1>4, PushGood
<1> QED
  BY <1>3, <1>5 DEF IsNew

\* The result of an operation is pushed.
LEMMA ComputeGood ==
  ASSUME NEW c, NEW K, NEW sp, NEW bp, NEW M, NEW len, NEW how, NEW d,
         Good(c, {}, K, sp, bp, M), Room(sp, bp), len \in Nat,
         how \in {"text", "numbers", "cast"}, d = Compute(c, len, how)
  PROVE  Good(d, {}, K, sp - 1, bp, M)
<1>1. CASE how = "text"
  <2>1. d = PushNew(c, len)
    BY <1>1 DEF Compute
  <2>2. Good(d, {}, K \cup {d.obj}, sp - 1, bp, M)
    BY <2>1, PushNewGood
  <2> QED
    BY <2>2, GoodFewer
<1>2. CASE how = "numbers"
  <2>1. PICK a : a = Alloc(c, 12)
    OBVIOUS
  <2>2. PICK e : e = PushNew(a, len)
    OBVIOUS
  <2>3. d = ReleaseBuffer(e, a)
    BY <1>2, <2>1, <2>2 DEF Compute, WithBuffer
  <2>4. Good(a, {} \cup {a.obj}, K, sp, bp, M)
    BY <2>1, AllocGood
  <2>5. Good(a, {a.obj}, K, sp, bp, M)
    BY <2>4
  <2>6. Good(e, {a.obj}, K \cup {e.obj}, sp - 1, bp, M)
    BY <2>2, <2>5, PushNewGood
  <2>7. Good(d, {a.obj} \ {a.obj}, K \cup {e.obj}, sp - 1, bp, M)
    BY <2>3, <2>6, ReleaseBufferGood
  <2>8. Good(d, {}, K \cup {e.obj}, sp - 1, bp, M)
    BY <2>7
  <2> QED
    BY <2>8, GoodFewer
<1>3. CASE how = "cast"
  <2>1. PICK a : a = Scratch(c, ObjSize + 8)
    OBVIOUS
  <2>2. d = PushNew(a, len)
    BY <1>3, <2>1 DEF Compute
  <2>3. ObjSize + 8 \in Nat \ {0}
    BY Constants
  <2>4. Good(a, {}, K, sp, bp, M)
    BY <2>1, <2>3, ScratchGood
  <2>5. Good(d, {}, K \cup {d.obj}, sp - 1, bp, M)
    BY <2>2, <2>4, PushNewGood
  <2> QED
    BY <2>5, GoodFewer
<1> QED
  BY <1>1, <1>2, <1>3


\* Only the C variable, the exception or the end of the program is set.
LEMMA SetObjGood ==
  ASSUME NEW c, NEW B, NEW K, NEW sp, NEW bp, NEW M, NEW o, NEW d,
         Good(c, B, K, sp, bp, M), c.state # "CRASH" => o \in Addresses,
         d = [c EXCEPT !.obj = o]
  PROVE  Good(d, B, K, sp, bp, M) /\ d.obj = o /\ d.state = c.state
<1>1. IsCtx(c) /\ (c.state # "CRASH" => IsMem(c.mem))
  BY DEF Good, GoodHeap, HeapOK
<1>2. SameButMem(c, d) /\ d.mem = c.mem /\ d.obj = o /\ d.state = c.state
  BY <1>1 DEF IsCtx, Fields, SameButMem, SameStacks
<1> QED
  BY <1>1, <1>2, RetypedSame, MemGood

\* An exception changes the state of the run only.
LEMMA RaiseGood ==
  ASSUME NEW c, NEW B, NEW K, NEW sp, NEW bp, NEW M, NEW d,
         Good(c, B, K, sp, bp, M), d = Raise(c)
  PROVE  Good(d, B, K, sp, bp, M)
<1>1. IsCtx(c) /\ c.state \in States
  BY DEF Good
<1>2. /\ IsCtx(d) /\ d.state = IF c.state = "RUN" THEN "EXCEPTION" ELSE c.state
      /\ d.chain = c.chain /\ d.mem = c.mem /\ d.st = c.st /\ d.sp = c.sp /\ d.bp = c.bp
      /\ d.obj = c.obj /\ d.ends = c.ends
  BY <1>1 DEF Raise, IsCtx, Fields
<1>3. d.state \in States /\ (d.state # "CRASH" => c.state # "CRASH")
  BY <1>1, <1>2 DEF States
<1>4. c.state # "CRASH" => GoodHeap(c, B, K) /\ GoodStack(c, sp, bp, M)
  BY DEF Good
<1>5. c.state # "CRASH" => GoodHeap(d, B, K) /\ GoodStack(d, sp, bp, M)
  BY <1>2, <1>4 DEF GoodHeap, GoodStack
<1> QED
  BY <1>2, <1>3, <1>5 DEF Good

\* So does its end.
LEMMA EndsGood ==
  ASSUME NEW c, NEW B, NEW K, NEW sp, NEW bp, NEW M, NEW d,
         Good(c, B, K, sp, bp, M), d = [c EXCEPT !.ends = TRUE]
  PROVE  Good(d, B, K, sp, bp, M)
<1>1. IsCtx(c) /\ c.state \in States
  BY DEF Good
<1>2. /\ IsCtx(d) /\ d.state = c.state
      /\ d.chain = c.chain /\ d.mem = c.mem /\ d.st = c.st /\ d.sp = c.sp /\ d.bp = c.bp
      /\ d.obj = c.obj /\ d.ends = TRUE
  BY <1>1 DEF IsCtx, Fields
<1>4. c.state # "CRASH" => GoodHeap(c, B, K) /\ GoodStack(c, sp, bp, M)
  BY DEF Good
<1>5. c.state # "CRASH" => GoodHeap(d, B, K) /\ GoodStack(d, sp, bp, M)
  BY <1>2, <1>4 DEF GoodHeap, GoodStack
<1> QED
  BY <1>1, <1>2, <1>5 DEF Good

\* The buffer that the C variable points to is released.
LEMMA ReleaseObjGood ==
  ASSUME NEW c, NEW B, NEW K, NEW sp, NEW bp, NEW M, NEW d,
         Good(c, B, K, sp, bp, M), c.state # "CRASH" => c.obj \in B /\ c.obj # NULL,
         d = vm_release_object(c, c.obj)
  PROVE  Good(d, B \ {c.obj}, K, sp, bp, M)
<1>1. CASE c.state # "CRASH"
  <2>1. d = ReleaseBuffer(c, c)
    BY <1>1 DEF ReleaseBuffer
  <2> QED
    BY <2>1, <1>1, ReleaseBufferGood
<1>2. CASE c.state = "CRASH"
  <2>1. IsCtx(c)
    BY DEF Good
  <2>2. PICK ch : ch = IF c.obj = NULL THEN c.chain ELSE m_free(c.chain, c.obj)
    OBVIOUS
  <2>4. d = Freed(c, ch)
    BY <2>2 DEF vm_release_object
  <2>3. /\ IsCtx(d) /\ SameStacks(c, d)
        /\ d.chain = ch /\ d.obj = c.obj /\ d.state = c.state
        /\ d.mem = Restrict(c.mem, DOMAIN c.mem \cap Bodies(ch))
    BY <2>1, <2>4, FreedFields
  <2> QED
    BY <1>2, <2>3 DEF Good, States
<1> QED
  BY <1>1, <1>2

\* Two buffers come and go.
LEMMA TwoBuffersGood ==
  ASSUME NEW c, NEW K, NEW sp, NEW bp, NEW M, NEW s, NEW t, NEW d,
         Good(c, {}, K, sp, bp, M), s \in Nat \ {0}, t \in Nat \ {0},
         d = TwoBuffers(Alloc(c, s), t)
  PROVE  Good(d, {}, K, sp, bp, M)
<1>1. PICK a : a = Alloc(c, s)
  OBVIOUS
<1>2. PICK b : b = Alloc(a, t)
  OBVIOUS
<1>3. PICK r : r = ReleaseBuffer(b, a)
  OBVIOUS
<1>4. d = vm_release_object(r, r.obj)
  BY <1>1, <1>2, <1>3 DEF TwoBuffers, ReleaseObj
<1>5. Good(a, {} \cup {a.obj}, K, sp, bp, M)
  BY <1>1, AllocGood
<1>6. Good(a, {a.obj}, K, sp, bp, M)
  BY <1>5
<1>7. Good(b, {a.obj} \cup {b.obj}, K, sp, bp, M) /\ IsNew(a, b, {a.obj}, K)
  BY <1>2, <1>6, AllocGood
<1>8. PICK B : B = {a.obj, b.obj}
  OBVIOUS
<1>9. Good(b, B, K, sp, bp, M) /\ a.obj \in B
  <2>1. {a.obj} \cup {b.obj} = {a.obj, b.obj}
    OBVIOUS
  <2> QED
    BY <2>1, <1>7, <1>8
<1>10. /\ Good(r, B \ {a.obj}, K, sp, bp, M)
       /\ r.obj = b.obj
       /\ r.state # "CRASH" => b.state # "CRASH" /\ r.state = b.state
  BY <1>3, <1>9, ReleaseBufferGood
<1>11. r.state # "CRASH" => r.obj \in B \ {a.obj} /\ r.obj # NULL
  BY <1>7, <1>8, <1>10 DEF IsNew
<1>12. Good(d, (B \ {a.obj}) \ {r.obj}, K, sp, bp, M)
  BY <1>4, <1>10, <1>11, ReleaseObjGood
<1>13. (B \ {a.obj}) \ {r.obj} = {}
  BY <1>8, <1>10
<1> QED
  BY <1>12, <1>13

\* A variable gets another object.
LEMMA StoreGood ==
  ASSUME NEW c, NEW B, NEW K, NEW sp, NEW bp, NEW M, NEW i, NEW d,
         Good(c, B, K, sp, bp, M), bp - i \in Slots, bp - i \notin M,
         d = vmd_store_variable(c, i)
  PROVE  Good(d, B, K, sp, bp, M)
<1>1. IsCtx(c) /\ c.state \in States
  BY DEF Good
<1>2. CASE c.st[c.bp - i] = c.obj
  BY <1>2 DEF vmd_store_variable
<1>3. CASE c.st[c.bp - i] # c.obj
  <2>1. /\ SameHeap(c, d) /\ d.obj = c.obj /\ d.sp = c.sp /\ d.bp = c.bp
        /\ d.mem = Inc(Dec(c.mem, c.st[c.bp - i]), c.obj)
        /\ d.st = [c.st EXCEPT ![c.bp - i] = c.obj]
    BY <1>1, <1>3 DEF vmd_store_variable, IsCtx, Fields, SameHeap
  <2>2. IsCtx(d) /\ d.state = c.state /\ d.chain = c.chain /\ d.ends = c.ends
    BY <2>1 DEF SameHeap
  <2>3. CASE c.state = "CRASH"
    BY <1>1, <2>2, <2>3 DEF Good
  <2>4. CASE c.state # "CRASH"
    <3>1. GoodHeap(c, B, K) /\ GoodStack(c, sp, bp, M)
      BY <2>4 DEF Good
    <3>2. PICK x, o, t : x = bp - i /\ o = c.obj /\ t = d.st
      OBVIOUS
    <3>3. /\ c.sp = sp /\ c.bp = bp /\ StackOK(c.st, sp, bp, M)
          /\ o \in Addresses /\ t = [c.st EXCEPT ![x] = o] /\ x \in Slots /\ x \notin M
      BY <3>1, <3>2, <2>1 DEF GoodStack
    <3>4. o # RetMark
      BY <3>3, Constants DEF Addresses, RetMark
    <3>5. StackOK(t, sp, bp, M)
      BY <3>3, <3>4 DEF StackOK
    <3>6. GoodStack(d, sp, bp, M)
      BY <3>1, <3>2, <3>3, <3>5, <2>1, <2>2 DEF GoodStack
    <3>7. HeapOK(c.chain, c.mem, B) /\ Len(c.chain) > 1 /\ K \subseteq DOMAIN c.mem
      BY <3>1 DEF GoodHeap
    <3>8. PICK m : m = Dec(c.mem, c.st[c.bp - i])
      OBVIOUS
    <3>9. Retyped(c.mem, m) /\ IsMem(m)
      BY <3>7, <3>8, DecRetypes DEF HeapOK, Retyped
    <3>10. Retyped(m, d.mem)
      BY <3>8, <3>9, <2>1, IncRetypes
    <3>11. Retyped(c.mem, d.mem)
      BY <3>9, <3>10 DEF Retyped
    <3>12. HeapOK(c.chain, d.mem, B) /\ DOMAIN d.mem = DOMAIN c.mem
      BY <3>7, <3>11, RetypedHeap DEF Retyped
    <3>13. GoodHeap(d, B, K)
      BY <3>7, <3>12, <2>2 DEF GoodHeap
    <3> QED
      BY <3>6, <3>13, <1>1, <2>2 DEF Good
  <2> QED
    BY <2>3, <2>4
<1> QED
  BY <1>2, <1>3

\* Two return marks come behind the frames.
LEMMA PushReturnGood ==
  ASSUME NEW c, NEW B, NEW K, NEW sp, NEW bp, NEW M, NEW d,
         Good(c, B, K, sp, bp, M), Room(sp, bp), bp < sp, d = PushReturn(c)
  PROVE  Good(d, B, K, sp, bp + 2, M \cup {bp, bp + 1})
<1>1. PICK e : e = vm_push_base(c, RetMark)
  OBVIOUS
<1>2. d = vm_push_base(e, RetMark)
  BY <1>1 DEF PushReturn
<1>3. PICK b : b = bp + 1
  OBVIOUS
<1>4. Good(e, B, K, sp, b, M \cup {bp})
  BY <1>1, <1>3, PushMarkGood
<1>5. Room(sp, b)
  BY <1>3 DEF Room, Slots
<1>6. Good(d, B, K, sp, b + 1, (M \cup {bp}) \cup {b})
  BY <1>2, <1>4, <1>5, PushMarkGood
<1>7. b + 1 = bp + 2
  BY <1>3 DEF Room
<1>8. (M \cup {bp}) \cup {b} = M \cup {bp, bp + 1}
  BY <1>3
<1> QED
  BY <1>6, <1>7, <1>8

\* The value that the API returns is pushed for its arguments.
LEMMA ReturnGood ==
  ASSUME NEW c, NEW B, NEW K, NEW sp, NEW bp, NEW M, NEW n, NEW o, NEW d,
         Good(c, B, K, sp, bp, M), Room(sp, bp), n \in 0 .. 3, sp + n \in Slots,
         c.state # "CRASH" => o \in Addresses, d = Return(c, n, o)
  PROVE  Good(d, B, K, sp + n - 1, bp, M)
<1>1. PICK e : e = PopN(c, n)
  OBVIOUS
<1>2. Good(e, B, K, sp + n, bp, M) /\ Room(sp + n, bp) /\ e.state = c.state
  BY <1>1, PopNGood
<1>3. d = vm_push_stack(e, o)
  BY <1>1 DEF Return
<1>4. PICK s : s = sp + n
  OBVIOUS
<1>5. Good(e, B, K, s, bp, M) /\ Room(s, bp)
  BY <1>2, <1>4
<1>6. Good(d, B, K, s - 1, bp, M)
  BY <1>2, <1>3, <1>5, PushGood
<1>7. s - 1 = sp + n - 1
  BY <1>4 DEF Room, Slots
<1> QED
  BY <1>6, <1>7


\* n operands are dropped, and stay in their slots.
LEMMA DropGood ==
  ASSUME NEW c, NEW B, NEW K, NEW sp, NEW bp, NEW M, NEW n, NEW d,
         Good(c, B, K, sp, bp, M), n \in Nat, sp \in Int, Room(sp + n, bp),
         d = Dropped(c, n)
  PROVE  Good(d, B, K, sp + n, bp, M) /\ d.state = c.state
<1>1. IsCtx(c) /\ c.state \in States
  BY DEF Good
<1>2. /\ IsCtx(d) /\ d.state = c.state
      /\ d.chain = c.chain /\ d.mem = c.mem /\ d.st = c.st /\ d.sp = c.sp + n /\ d.bp = c.bp
      /\ d.obj = c.obj /\ d.ends = c.ends
  BY <1>1 DEF Dropped, IsCtx, Fields
<1>4. c.state # "CRASH" => GoodHeap(c, B, K) /\ GoodStack(c, sp, bp, M)
  BY DEF Good
<1>5. c.state # "CRASH" => GoodHeap(d, B, K)
  BY <1>2, <1>4 DEF GoodHeap
<1>6. ASSUME c.state # "CRASH" PROVE GoodStack(d, sp + n, bp, M)
  <2>1. StackOK(c.st, sp, bp, M) /\ d.sp = sp + n
    BY <1>2, <1>4, <1>6 DEF GoodStack
  <2>2. \A s \in Slots : s > sp + n => s > sp
    BY DEF Slots
  <2>3. StackOK(c.st, sp + n, bp, M)
    BY <2>1, <2>2 DEF StackOK
  <2> QED
    BY <2>1, <2>3, <1>2, <1>4, <1>6 DEF GoodStack
<1> QED
  BY <1>1, <1>2, <1>5, <1>6 DEF Good

\* The references of the arguments are given back.
LEMMA UnrefArgumentsRetypes ==
  ASSUME NEW m, NEW c, NEW n, NEW k, IsMem(m), n \in 0 .. 2, k = UnrefArguments(m, c, n)
  PROVE  Retyped(m, k)
<1>1. PICK a, b : a = c.st[c.sp + 1] /\ b = c.st[c.sp + 2]
  OBVIOUS
<1>2. CASE n = 0
  BY <1>2, RetypedSame DEF UnrefArguments
<1>3. CASE n = 1
  <2>1. k = vm_object_unref(m, a)
    BY <1>1, <1>3 DEF UnrefArguments
  <2> QED
    BY <2>1, UnrefRetypes
<1>4. CASE n = 2
  <2>1. PICK h : h = vm_object_unref(m, a)
    OBVIOUS
  <2>2. k = vm_object_unref(h, b)
    BY <2>1, <1>1, <1>4 DEF UnrefArguments
  <2>3. Retyped(m, h)
    BY <2>1, UnrefRetypes
  <2>4. IsMem(h)
    BY <2>3 DEF Retyped
  <2>5. Retyped(h, k)
    BY <2>2, <2>4, UnrefRetypes
  <2> QED
    BY <2>3, <2>5 DEF Retyped
<1> QED
  BY <1>2, <1>3, <1>4

\* A native method of n parameters was called; its result is not yet pushed.
LEMMA NativeGood ==
  ASSUME NEW c, NEW K, NEW sp, NEW bp, NEW M, NEW n, NEW len, NEW casts, NEW d,
         Good(c, {}, K, sp, bp, M), n \in 0 .. 2, sp \in Int, Room(sp + n, bp),
         len \in Nat, casts \in BOOLEAN,
         d = vm_interface_exec_sta(c, n, len, casts)
  PROVE  Good(d, {}, K, sp + n, bp, M) /\ (d.state # "CRASH" => d.obj \in Addresses)
<1>1. PICK v : v = vm_create_object(c, 8)
  OBVIOUS
<1>2. PICK u : u = Uncount(v)
  OBVIOUS
<1>3. PICK e : e = IF casts THEN u ELSE c
  OBVIOUS
<1>4. PICK g : g = Dropped(e, n)
  OBVIOUS
<1>5. PICK h : h = vm_create_object(g, len)
  OBVIOUS
<1>6. d = [h EXCEPT !.mem = UnrefArguments(@, c, n)]
  BY <1>1, <1>2, <1>3, <1>4, <1>5 DEF vm_interface_exec_sta, CastArgument
<1>7. Good(v, {}, K \cup {v.obj}, sp, bp, M)
  BY <1>1, CreateGood
<1>8. Good(v, {}, K, sp, bp, M)
  BY <1>7, GoodFewer
<1>9. Good(u, {}, K, sp, bp, M)
  BY <1>2, <1>8, UncountGood
<1>10. Good(e, {}, K, sp, bp, M)
  BY <1>3, <1>9
<1>11. n \in Nat
  OBVIOUS
<1>12. Good(g, {}, K, sp + n, bp, M)
  BY <1>4, <1>10, <1>11, DropGood
<1>13. PICK s : s = sp + n
  OBVIOUS
<1>14. Good(g, {}, K, s, bp, M)
  BY <1>12, <1>13
<1>15. Good(h, {}, K \cup {h.obj}, s, bp, M)
  BY <1>5, <1>14, CreateGood
<1>16. Good(h, {}, K, s, bp, M)
  BY <1>15, GoodFewer
<1>17. IsCtx(h) /\ (h.state # "CRASH" => IsMem(h.mem) /\ h.obj \in Addresses)
  BY <1>16 DEF Good, GoodHeap, HeapOK, GoodStack
<1>18. /\ SameButMem(h, d) /\ d.mem = UnrefArguments(h.mem, c, n)
       /\ d.obj = h.obj /\ d.state = h.state
  BY <1>6, <1>17 DEF IsCtx, Fields, SameButMem, SameStacks
<1>19. h.state # "CRASH" => Retyped(h.mem, d.mem)
  BY <1>17, <1>18, UnrefArgumentsRetypes
<1>20. Good(d, {}, K, s, bp, M)
  BY <1>16, <1>18, <1>19, MemGood
<1> QED
  BY <1>13, <1>17, <1>18, <1>20

\* Its result is pushed.
LEMMA PushResultGood ==
  ASSUME NEW c, NEW K, NEW sp, NEW bp, NEW M, NEW n, NEW len, NEW casts, NEW d,
         Good(c, {}, K, sp, bp, M), n \in 0 .. 1, Room(sp, bp), sp + n \in Slots,
         len \in Nat, casts \in BOOLEAN,
         d = PushResult(c, n, len, casts)
  PROVE  Good(d, {}, K, sp + n - 1, bp, M)
<1>1. PICK e, s : e = vm_interface_exec_sta(c, n, len, casts) /\ s = sp + n
  OBVIOUS
<1>2. n \in 0 .. 2 /\ sp \in Int /\ Room(sp + n, bp)
  BY DEF Room, Slots
<1>3. Good(e, {}, K, sp + n, bp, M) /\ (e.state # "CRASH" => e.obj \in Addresses)
  BY <1>1, <1>2, NativeGood
<1>4. Good(e, {}, K, s, bp, M) /\ Room(s, bp)
  BY <1>1, <1>2, <1>3
<1>5. d = vm_push_stack(e, e.obj)
  BY <1>1 DEF PushResult, PushObj
<1>6. Good(d, {}, K, s - 1, bp, M)
  BY <1>3, <1>4, <1>5, PushGood
<1>7. s - 1 = sp + n - 1
  BY <1>1, <1>2
<1> QED
  BY <1>6, <1>7

\* A field of one object is set.
WithMgc(c, o, v) == [c EXCEPT !.mem[o].mgc = v]
WithHolds(c, o, v) == [c EXCEPT !.mem[o].holds = v]

\* A reference byte is written.
LEMMA SetMgcGood ==
  ASSUME NEW c, NEW B, NEW K, NEW sp, NEW bp, NEW M, NEW o, NEW v, NEW d,
         Good(c, B, K, sp, bp, M),
         c.state # "CRASH" /\ o \in DOMAIN c.mem => v \in 0 .. 255,
         d = WithMgc(c, o, v)
  PROVE  Good(d, B, K, sp, bp, M) /\ d.obj = c.obj /\ d.state = c.state
<1>1. IsCtx(c) /\ (c.state # "CRASH" => IsMem(c.mem) /\ c.obj \in Addresses)
  BY DEF Good, GoodHeap, HeapOK, GoodStack
<1>2. SameButMem(c, d) /\ d.obj = c.obj /\ d.state = c.state
  BY <1>1 DEF WithMgc, IsCtx, Fields, SameButMem, SameStacks
<1>3. d.mem = [c.mem EXCEPT ![o].mgc = v]
  BY <1>1 DEF WithMgc, IsCtx, Fields
<1>4. ASSUME c.state # "CRASH" PROVE Retyped(c.mem, d.mem)
  <2>1. PICK m, w : m = c.mem /\ w = [m[o] EXCEPT !.mgc = v]
    OBVIOUS
  <2>2. IsMem(m) /\ d.mem = [m EXCEPT ![o] = w]
    BY <2>1, <1>1, <1>3, <1>4
  <2>3. o \in DOMAIN m => w \in Objects
    <3>1. SUFFICES ASSUME o \in DOMAIN m PROVE w \in Objects
      OBVIOUS
    <3>2. m[o] \in Objects /\ v \in 0 .. 255
      BY <3>1, <2>1, <2>2, <1>4 DEF IsMem
    <3> QED
      BY <3>2, <2>1, ObjectFields
  <2>4. Retyped(m, d.mem)
    BY <2>2, <2>3, SetOne
  <2> QED
    BY <2>1, <2>4
<1>5. c.state # "CRASH" => Retyped(c.mem, d.mem)
  BY <1>4
<1>6. PICK x : x = d
  OBVIOUS
<1>7. SameButMem(c, x) /\ (c.state # "CRASH" => Retyped(c.mem, x.mem))
  BY <1>2, <1>5, <1>6, Zenon
<1>8. Good(x, B, K, sp, bp, M)
  BY <1>7, MemGood, Zenon
<1> QED
  BY <1>2, <1>6, <1>8, Zenon

\* The pointer of an enumerator is written.
LEMMA SetHoldsGood ==
  ASSUME NEW c, NEW B, NEW K, NEW sp, NEW bp, NEW M, NEW o, NEW v, NEW d,
         Good(c, B, K, sp, bp, M), v \in Addresses,
         d = WithHolds(c, o, v)
  PROVE  Good(d, B, K, sp, bp, M) /\ d.obj = c.obj /\ d.state = c.state
<1>1. IsCtx(c) /\ (c.state # "CRASH" => IsMem(c.mem) /\ c.obj \in Addresses)
  BY DEF Good, GoodHeap, HeapOK, GoodStack
<1>2. SameButMem(c, d) /\ d.obj = c.obj /\ d.state = c.state
  BY <1>1 DEF WithHolds, IsCtx, Fields, SameButMem, SameStacks
<1>3. d.mem = [c.mem EXCEPT ![o].holds = v]
  BY <1>1 DEF WithHolds, IsCtx, Fields
<1>4. ASSUME c.state # "CRASH" PROVE Retyped(c.mem, d.mem)
  <2>1. PICK m, w : m = c.mem /\ w = [m[o] EXCEPT !.holds = v]
    OBVIOUS
  <2>2. IsMem(m) /\ d.mem = [m EXCEPT ![o] = w]
    BY <2>1, <1>1, <1>3, <1>4
  <2>3. o \in DOMAIN m => w \in Objects
    BY <2>1, <2>2, ObjectFields DEF IsMem
  <2>4. Retyped(m, d.mem)
    BY <2>2, <2>3, SetOne
  <2> QED
    BY <2>1, <2>4
<1>5. c.state # "CRASH" => Retyped(c.mem, d.mem)
  BY <1>4
<1>6. PICK x : x = d
  OBVIOUS
<1>7. SameButMem(c, x) /\ (c.state # "CRASH" => Retyped(c.mem, x.mem))
  BY <1>2, <1>5, <1>6, Zenon
<1>8. Good(x, B, K, sp, bp, M)
  BY <1>7, MemGood, Zenon
<1> QED
  BY <1>2, <1>6, <1>8, Zenon

\* A counter is cleared.
LEMMA UncountedGood ==
  ASSUME NEW c, NEW B, NEW K, NEW sp, NEW bp, NEW M, NEW o, NEW d,
         Good(c, B, K, sp, bp, M), d = Uncounted(c, o)
  PROVE  Good(d, B, K, sp, bp, M) /\ d.obj = c.obj /\ d.state = c.state
<1>1. CASE o \notin DOMAIN c.mem
  BY <1>1 DEF Uncounted
<1>2. CASE o \in DOMAIN c.mem
  <2>1. PICK b, v : b = c.mem[o].mgc /\ v = b - (b % 16)
    OBVIOUS
  <2>2. d = WithMgc(c, o, v)
    BY <1>2, <2>1 DEF Uncounted, WithMgc
  <2>3. ASSUME c.state # "CRASH" PROVE v \in 0 .. 255
    <3>1. c.mem[o] \in Objects
      BY <1>2, <2>3 DEF Good, GoodHeap, HeapOK, IsMem
    <3>2. b \in 0 .. 255
      BY <3>1, <2>1, ObjectFields
    <3>3. b - (b % 16) \in 0 .. 255
      BY <3>2, Z3
    <3> QED
      BY <3>3, <2>1
  <2> QED
    BY <2>2, <2>3, SetMgcGood
<1> QED
  BY <1>1, <1>2

\* References move to another object.
LEMMA RedirectedStack ==
  ASSUME NEW st, NEW sp, NEW bp, NEW M, NEW old, NEW new, NEW t,
         StackOK(st, sp, bp, M), old \in Addresses, new \in Addresses,
         t = vm_update_mutator(st, old, new)
  PROVE  StackOK(t, sp, bp, M) /\ \A s \in Slots : t[s] = RetMark <=> st[s] = RetMark
<1>1. old # RetMark /\ new # RetMark
  BY Constants DEF Addresses, RetMark
<1>2. st \in [Slots -> {RetMark} \cup Addresses]
  BY DEF StackOK
<1>3. /\ t \in [Slots -> {RetMark} \cup Addresses]
      /\ \A s \in Slots : t[s] = RetMark <=> st[s] = RetMark
  BY <1>1, <1>2 DEF vm_update_mutator
<1> QED
  BY <1>3 DEF StackOK

\* An array is replaced by another one.
LEMMA ReplaceGood ==
  ASSUME NEW c, NEW K, NEW sp, NEW bp, NEW M, NEW o, NEW len, NEW refs, NEW d,
         Good(c, {}, K, sp, bp, M), o \in Addresses, len \in Nat, refs \in Nat,
         d = ReplaceArray(c, o, len, refs)
  PROVE  /\ Good(d, {}, (K \cup {d.obj}) \ {o}, sp, bp, M)
         /\ d.state # "CRASH" => c.state # "CRASH" /\ d.obj \in Addresses
<1>1. PICK e : e = vm_create_object(c, len)
  OBVIOUS
<1>2. PICK r : r = Referenced(e, refs)
  OBVIOUS
<1>3. PICK x : x = [r EXCEPT !.st = vm_update_mutator(@, o, r.obj)]
  OBVIOUS
<1>13. PICK z : z = Uncounted(x, o)
  OBVIOUS
<1>4. d = vm_release_object(z, o)
  BY <1>1, <1>2, <1>3, <1>13 DEF ReplaceArray, Redirect
<1>5. Good(e, {}, K \cup {e.obj}, sp, bp, M) /\ IsNew(c, e, {}, K)
  BY <1>1, CreateGood
<1>6. Good(r, {}, K \cup {e.obj}, sp, bp, M) /\ r.obj = e.obj /\ r.state = e.state
  <2>1. CASE e.obj = NULL
    BY <1>2, <1>5, <2>1 DEF Referenced
  <2>2. CASE e.obj # NULL
    <3>1. PICK v, y : v = VM_MAGIC + (refs % 16) /\ y = e.obj
      OBVIOUS
    <3>2. v \in 0 .. 255
      BY <3>1 DEF VM_MAGIC
    <3>3. r = WithMgc(e, y, v)
      BY <1>2, <2>2, <3>1 DEF Referenced, WithMgc
    <3>4. PICK L : L = K \cup {e.obj}
      OBVIOUS
    <3>5. Good(e, {}, L, sp, bp, M) /\ (e.state # "CRASH" /\ y \in DOMAIN e.mem => v \in 0 .. 255)
      BY <3>2, <3>4, <1>5
    <3>6. Good(r, {}, L, sp, bp, M) /\ r.obj = e.obj /\ r.state = e.state
      BY <3>3, <3>5, SetMgcGood
    <3> QED
      BY <3>4, <3>6
  <2> QED
    BY <2>1, <2>2
<1>7. IsCtx(r) /\ r.state \in States
  BY <1>6 DEF Good
<1>8. /\ SameHeap(r, x) /\ x.mem = r.mem /\ x.obj = r.obj /\ x.sp = r.sp /\ x.bp = r.bp
      /\ x.st = vm_update_mutator(r.st, o, r.obj)
  BY <1>3, <1>7 DEF IsCtx, Fields, SameHeap
<1>9. IsCtx(x) /\ x.state = r.state /\ x.chain = r.chain /\ x.ends = r.ends
  BY <1>8 DEF SameHeap
<1>10. Good(x, {}, K \cup {e.obj}, sp, bp, M)
  <2>1. CASE r.state = "CRASH"
    BY <2>1, <1>7, <1>9 DEF Good
  <2>2. CASE r.state # "CRASH"
    <3>1. GoodHeap(r, {}, K \cup {e.obj}) /\ GoodStack(r, sp, bp, M)
      BY <2>2, <1>6 DEF Good
    <3>2. StackOK(r.st, sp, bp, M) /\ r.obj \in Addresses
      BY <3>1 DEF GoodStack
    <3>3. StackOK(x.st, sp, bp, M)
      BY <3>2, <1>8, RedirectedStack
    <3>4. GoodStack(x, sp, bp, M)
      BY <3>1, <3>3, <1>8, <1>9 DEF GoodStack
    <3>5. GoodHeap(x, {}, K \cup {e.obj})
      BY <3>1, <1>8, <1>9 DEF GoodHeap
    <3> QED
      BY <3>4, <3>5, <1>7, <1>9 DEF Good
  <2> QED
    BY <2>1, <2>2
<1>11. Good(d, {}, (K \cup {e.obj}) \ {o}, sp, bp, M) /\ d.obj = x.obj /\ d.state = x.state
  <2>1. PICK L : L = K \cup {e.obj}
    OBVIOUS
  <2>4. Good(x, {}, L, sp, bp, M)
    BY <2>1, <1>10
  <2>5. Good(z, {}, L, sp, bp, M) /\ z.obj = x.obj /\ z.state = x.state
    BY <2>4, <1>13, UncountedGood
  <2>2. L # {} /\ o \notin {} /\ Good(z, {}, L, sp, bp, M)
    BY <2>1, <2>5
  <2>6. Good(d, {}, L \ {o}, sp, bp, M) /\ d.obj = z.obj /\ d.state = z.state
    BY <2>2, <1>4, ReleaseGood, Zenon
  <2>3. Good(d, {}, L \ {o}, sp, bp, M) /\ d.obj = x.obj /\ d.state = x.state
    BY <2>5, <2>6
  <2> QED
    BY <2>1, <2>3
<1>12. d.obj = e.obj /\ d.state = e.state
  BY <1>6, <1>8, <1>9, <1>11
<1> QED
  BY <1>5, <1>11, <1>12 DEF IsNew

\* The function object leaves the operands, the others move up.
LEMMA TakeFirstGood ==
  ASSUME NEW c, NEW K, NEW sp, NEW bp, NEW M, NEW n, NEW d,
         Good(c, {}, K, sp, bp, M), Room(sp, bp), n \in 1 .. 2, sp + n \in Slots,
         d = TakeFirstArgument(c, n)
  PROVE  Good(d, {}, K, sp + 1, bp, M) /\ Room(sp + 1, bp)
<1>1. IsCtx(c) /\ c.state \in States
  BY DEF Good
<1>2. /\ SameHeap(c, d) /\ d.obj = c.obj /\ d.bp = c.bp /\ d.sp = c.sp + 1
      /\ d.mem = Dec(c.mem, Argument(c, n, 0))
      /\ d.st = [s \in DOMAIN c.st |->
                   IF s \in c.sp + 2 .. c.sp + n THEN c.st[s - 1] ELSE c.st[s]]
  BY <1>1 DEF TakeFirstArgument, IsCtx, Fields, SameHeap
<1>3. IsCtx(d) /\ d.state = c.state /\ d.chain = c.chain /\ d.ends = c.ends
  BY <1>2 DEF SameHeap
<1>0. sp \in Nat /\ bp \in Nat /\ bp <= sp /\ n \in Nat /\ n >= 1 /\ sp + n <= MaxStack - 1
  BY Constants DEF Room, Slots
<1>4. Room(sp + 1, bp)
  BY <1>0, Constants DEF Room, Slots
<1>5. CASE c.state = "CRASH"
  BY <1>1, <1>3, <1>4, <1>5 DEF Good
<1>6. CASE c.state # "CRASH"
  <2>1. GoodHeap(c, {}, K) /\ GoodStack(c, sp, bp, M)
    BY <1>6 DEF Good
  <2>2. PICK st, t : st = c.st /\ t = d.st
    OBVIOUS
  <2>3. /\ StackOK(st, sp, bp, M) /\ c.sp = sp /\ c.bp = bp
        /\ t = [s \in DOMAIN st |-> IF s \in sp + 2 .. sp + n THEN st[s - 1] ELSE st[s]]
    BY <2>1, <2>2, <1>2 DEF GoodStack
  <2>4. st \in [Slots -> {RetMark} \cup Addresses]
    BY <2>3 DEF StackOK
  <2>5. \A s \in Slots : t[s] = IF s \in sp + 2 .. sp + n THEN st[s - 1] ELSE st[s]
    BY <2>3, <2>4
  <2>6. \A s \in Slots : s \in sp + 2 .. sp + n => s - 1 \in Slots /\ s - 1 > sp /\ ~(s < bp)
    BY <1>0, Constants DEF Slots
  <2>7. t \in [Slots -> {RetMark} \cup Addresses]
    BY <2>3, <2>4, <2>6
  <2>8. \A s \in Slots : s > sp + 1 => s > sp
    BY <1>0, Constants DEF Slots
  <2>9. \A s \in Slots : s > sp + 1 => t[s] # RetMark
    BY <2>3, <2>5, <2>6, <2>8 DEF StackOK
  <2>10. \A s \in Slots : s < bp => (t[s] = RetMark <=> s \in M)
    BY <2>3, <2>5, <2>6 DEF StackOK
  <2>11. StackOK(t, sp + 1, bp, M)
    BY <2>7, <2>9, <2>10 DEF StackOK
  <2>12. GoodStack(d, sp + 1, bp, M)
    BY <2>1, <2>2, <2>3, <2>11, <1>2, <1>3 DEF GoodStack
  <2>13. HeapOK(c.chain, c.mem, {}) /\ Len(c.chain) > 1 /\ K \subseteq DOMAIN c.mem
    BY <2>1 DEF GoodHeap
  <2>14. Retyped(c.mem, d.mem)
    <3>1. IsMem(c.mem)
      BY <2>13 DEF HeapOK
    <3> QED
      BY <3>1, <1>2, DecRetypes
  <2>15. HeapOK(c.chain, d.mem, {}) /\ DOMAIN d.mem = DOMAIN c.mem
    BY <2>13, <2>14, RetypedHeap DEF Retyped
  <2>16. GoodHeap(d, {}, K)
    BY <2>13, <2>15, <1>3 DEF GoodHeap
  <2> QED
    BY <2>12, <2>16, <1>1, <1>3, <1>4 DEF Good
<1> QED
  BY <1>5, <1>6


-----------------------------------------------------------------------------
(***************************************************************************)
(* From one instruction to the next.                                       *)
(***************************************************************************)
Running == Inv /\ ctx.state = "RUN" /\ gc.at = 0

\* The machine crashes: the heap and the stacks are those before the instruction.
LEMMA CrashKeeps ==
  ASSUME NEW x, NEW fs, NEW g, NEW y, NEW es,
         Invariant(x, fs, g), FramesOK(es), y = [x EXCEPT !.state = "CRASH"]
  PROVE  Invariant(y, es, g)
<1>1. RestInv(x) /\ HeapInv(x, fs) /\ StacksInv(x) /\ GcInv(x, g)
  BY DEF Invariant
<1>2. /\ IsCtx(y) /\ y.state = "CRASH"
      /\ y.chain = x.chain /\ y.mem = x.mem /\ y.st = x.st /\ y.sp = x.sp /\ y.bp = x.bp
      /\ y.obj = x.obj /\ y.ends = x.ends
  BY <1>1 DEF RestInv, IsCtx, Fields
<1>3. MarksOf(y) = MarksOf(x)
  BY <1>2 DEF MarksOf
<1>4. RestInv(y)
  BY <1>1, <1>2 DEF RestInv, States
<1>5. HeapInv(y, es)
  BY <1>1, <1>2 DEF HeapInv
<1>6. StacksInv(y)
  BY <1>1, <1>2, <1>3 DEF StacksInv
<1>7. FramesInv(y, es)
  BY <1>2 DEF FramesInv
<1>8. GcInv(y, g)
  BY <1>1, <1>2 DEF GcInv, Kept
<1> QED
  BY <1>4, <1>5, <1>6, <1>7, <1>8 DEF Invariant

\* The marks of a stack are those it was built with.
LEMMA MarksAre ==
  ASSUME NEW c, NEW sp, NEW bp, NEW M, StackOK(c.st, sp, bp, M), c.bp = bp,
         M \subseteq {s \in Slots : s < bp}
  PROVE  MarksOf(c) = M
BY DEF MarksOf, StackOK

\* The ends of the stacks, and where the marks may be.
Bounds(sp, bp, M) ==
  /\ sp \in Slots
  /\ bp \in 0 .. MaxStack - 2 + MostPushed
  /\ M \subseteq {s \in Slots : s < bp}

\* The end of every instruction.
LEMMA EndKeeps ==
  ASSUME Running, NEW c, NEW K, NEW sp, NEW bp, NEW M,
         Good(c, {}, K, sp, bp, M), Bounds(sp, bp, M), EndOfInstruction(c),
         FramesOK(frames'), bp < sp => Aligned(frames', bp, M)
  PROVE  Inv'
<1>1. PICK y, es, h : y = ctx' /\ es = frames' /\ h = gc'
  OBVIOUS
<1>2. SUFFICES Invariant(y, es, h)
  BY <1>1 DEF Inv
<1>3. FramesOK(es) /\ (bp < sp => Aligned(es, bp, M))
  BY <1>1
<1>4. CASE c.state = "CRASH"
  <2>1. y = [ctx EXCEPT !.state = "CRASH"] /\ h = gc
    BY <1>1, <1>4 DEF EndOfInstruction
  <2>2. Invariant(ctx, frames, gc)
    BY DEF Running, Inv
  <2> QED
    BY <2>1, <2>2, <1>3, CrashKeeps
<1>5. CASE c.state # "CRASH"
  <2>1. /\ y = [c EXCEPT !.obj = NULL, !.state = IF c.bp >= c.sp THEN "EXCEPTION" ELSE @]
        /\ h = [at |-> 1, released |-> FALSE]
    BY <1>1, <1>5 DEF EndOfInstruction
  <2>2. IsCtx(c) /\ c.state \in States /\ GoodHeap(c, {}, K) /\ GoodStack(c, sp, bp, M)
    BY <1>5 DEF Good
  <2>3. /\ IsCtx(y) /\ y.obj = NULL
        /\ y.chain = c.chain /\ y.mem = c.mem /\ y.st = c.st /\ y.sp = c.sp /\ y.bp = c.bp
        /\ y.ends = c.ends
        /\ y.state = IF c.bp >= c.sp THEN "EXCEPTION" ELSE c.state
    BY <2>1, <2>2 DEF IsCtx, Fields
  <2>4. c.sp = sp /\ c.bp = bp /\ StackOK(c.st, sp, bp, M) /\ c.ends \in BOOLEAN
    BY <2>2 DEF GoodStack
  <2>5. sp \in Int /\ bp \in Int
    BY Constants DEF Bounds, Slots, MostPushed
  <2>6. RestInv(y)
    BY <2>2, <2>3, <2>4 DEF RestInv, States
  <2>7. HeapOK(c.chain, c.mem, {}) /\ Len(c.chain) > 1
    BY <2>2 DEF GoodHeap
  <2>8. HeapInv(y, es)
    <3>1. WellFormed(c.chain)
      BY <2>7 DEF HeapOK, ListOK
    <3>2. Len(c.chain) # 1
      BY <3>1, <2>7, OneOrMore
    <3> QED
      BY <3>2, <2>3, <2>7 DEF HeapInv
  <2>9. StackOK(y.st, sp, bp, M) /\ y.bp = bp /\ y.sp = sp
    BY <2>3, <2>4
  <2>10. MarksOf(y) = M
    BY <2>9, MarksAre DEF Bounds
  <2>11. y.state = "RUN" => bp < sp
    BY <2>3, <2>4, <2>5
  <2>12. StacksInv(y)
    BY <2>9, <2>10, <2>11 DEF StacksInv, Bounds
  <2>13. FramesInv(y, es)
    BY <1>3, <2>9, <2>10, <2>11 DEF FramesInv
  <2>14. GcInv(y, h)
    BY <2>1, <2>3, <2>7 DEF GcInv
  <2> QED
    BY <2>6, <2>8, <2>12, <2>13, <2>14 DEF Invariant
<1> QED
  BY <1>4, <1>5

\* What the instructions of a function find.
LEMMA BodyStarts ==
  ASSUME Inv, NEW op, NEW k \in 0 .. 3, InBody(op, k)
  PROVE  /\ Running /\ Good(ctx, {}, DOMAIN ctx.mem, ctx.sp, ctx.bp, MarksOf(ctx))
         /\ Bounds(ctx.sp, ctx.bp, MarksOf(ctx))
         /\ Room(ctx.sp, ctx.bp) /\ ctx.bp < ctx.sp /\ ctx.sp + k \in Slots
         /\ ctx.sp - 1 \in Slots
         /\ \A i \in Locals : ctx.bp - i \in Slots /\ ctx.bp - i < ctx.bp
                              /\ ctx.bp - i \notin MarksOf(ctx)
<1>1. /\ ctx.state = "RUN" /\ gc.at = 0 /\ frames # << >>
      /\ Top.locals > 0 /\ ~Top.left /\ Depth(ctx) >= k
  BY DEF InBody, Fetch
<1>2. /\ RestInv(ctx) /\ HeapInv(ctx, frames) /\ StacksInv(ctx)
      /\ FramesInv(ctx, frames) /\ GcInv(ctx, gc)
  BY DEF Inv, Invariant
<1>3. Len(frames) \in Nat /\ Len(frames) > 0 /\ Top \in Frame
  <2>1. frames \in Seq(Frame)
    BY <1>2 DEF FramesInv, FramesOK
  <2> QED
    BY <2>1, <1>1, LenProperties, ElementOfSeq DEF Top
<1>4. /\ StackOK(ctx.st, ctx.sp, ctx.bp, MarksOf(ctx)) /\ ctx.sp \in Slots
      /\ ctx.bp \in 0 .. MaxStack - 2 + MostPushed /\ ctx.bp < ctx.sp
  BY <1>1, <1>2 DEF StacksInv
<1>5. ctx.sp \in Nat /\ ctx.sp <= MaxStack - 1 /\ ctx.bp \in Nat /\ MaxStack \in Nat
  BY <1>4, Constants DEF Slots, MostPushed
<1>6. Room(ctx.sp, ctx.bp) /\ ctx.sp + k \in Slots /\ ctx.sp - 1 \in Slots
  BY <1>1, <1>4, <1>5 DEF Room, Slots, Depth
<1>7. Bounds(ctx.sp, ctx.bp, MarksOf(ctx))
  BY <1>4 DEF Bounds, MarksOf
<1>8. ctx.obj \in Addresses /\ ctx.ends \in BOOLEAN /\ IsCtx(ctx) /\ ctx.state \in States
  BY <1>2, Constants DEF RestInv, NULL, Addresses
<1>9. GoodStack(ctx, ctx.sp, ctx.bp, MarksOf(ctx))
  BY <1>4, <1>8 DEF GoodStack
<1>10. HeapOK(ctx.chain, ctx.mem, {}) /\ Len(ctx.chain) > 1
  <2>1. HeapOK(ctx.chain, ctx.mem, {}) /\ Len(ctx.chain) # 1
    BY <1>1, <1>2, <1>3 DEF HeapInv, Top
  <2>2. WellFormed(ctx.chain)
    BY <2>1 DEF HeapOK, ListOK
  <2> QED
    BY <2>1, <2>2, OneOrMore
<1>11. Good(ctx, {}, DOMAIN ctx.mem, ctx.sp, ctx.bp, MarksOf(ctx))
  BY <1>8, <1>9, <1>10 DEF Good, GoodHeap
<1>12. ASSUME NEW i \in Locals
       PROVE  ctx.bp - i \in Slots /\ ctx.bp - i < ctx.bp /\ ctx.bp - i \notin MarksOf(ctx)
  <2>1. PICK n : n = Len(frames)
    OBVIOUS
  <2>2. n \in 1 .. Len(frames) /\ Top = frames[n]
    BY <2>1, <1>3 DEF Top
  <2>3. Aligned(frames, ctx.bp, MarksOf(ctx))
    BY <1>1, <1>2 DEF FramesInv
  <2>4. /\ \A s \in frames[n].base .. End(frames[n]) - 1 : s \notin MarksOf(ctx)
        /\ End(frames[n]) = ctx.bp
    BY <2>1, <2>2, <2>3 DEF Aligned
  <2>5. /\ frames[n].base \in 2 .. MaxStack /\ frames[n].locals \in 0 .. MaxLocals
        /\ i \in 1 .. frames[n].locals
    BY <2>2, <1>3 DEF Frame, Locals
  <2>6. /\ i \in Int
        /\ frames[n].base <= ctx.bp - i
        /\ ctx.bp - i \in frames[n].base .. End(frames[n]) - 1
    <3>1. End(frames[n]) = frames[n].base + frames[n].locals
      BY <2>2, <1>1 DEF End
    <3>2. ctx.bp = frames[n].base + frames[n].locals
      BY <3>1, <2>4
    <3>3. i \in Int /\ ctx.bp - i \in frames[n].base .. ctx.bp - 1
      BY <3>2, <2>5, Constants
    <3> QED
      BY <3>3, <2>4
  <2>7. ctx.bp - i \in Slots /\ ctx.bp - i < ctx.bp
    BY <2>5, <2>6, <1>4, <1>5 DEF Slots
  <2> QED
    BY <2>4, <2>6, <2>7
<1> QED
  BY <1>1, <1>4, <1>6, <1>7, <1>11, <1>12 DEF Running

\* An instruction that changes no frame.
LEMMA QuietKeeps ==
  ASSUME Running, Bounds(ctx.sp, ctx.bp, MarksOf(ctx)), NEW c, NEW K, NEW sp,
         Good(c, {}, K, sp, ctx.bp, MarksOf(ctx)), sp \in Slots, Execute(c)
  PROVE  Inv'
<1>1. EndOfInstruction(c) /\ frames' = frames
  BY DEF Execute
<1>2. FramesInv(ctx, frames) /\ ctx.state = "RUN"
  BY DEF Running, Inv, Invariant
<1>3. FramesOK(frames') /\ Aligned(frames', ctx.bp, MarksOf(ctx))
  BY <1>1, <1>2 DEF FramesInv
<1>4. Bounds(sp, ctx.bp, MarksOf(ctx))
  BY DEF Bounds
<1> QED
  BY <1>1, <1>3, <1>4, EndKeeps


-----------------------------------------------------------------------------
(***************************************************************************)
(* The instructions that leave the frames alone.                           *)
(***************************************************************************)
\* An instruction with k operands starts.
Ready(k) ==
  /\ Running /\ ctx.state = "RUN"
  /\ Good(ctx, {}, DOMAIN ctx.mem, ctx.sp, ctx.bp, MarksOf(ctx))
  /\ Bounds(ctx.sp, ctx.bp, MarksOf(ctx))
  /\ Room(ctx.sp, ctx.bp) /\ ctx.bp < ctx.sp
  /\ ctx.sp - 1 \in Slots /\ \A j \in 0 .. k : ctx.sp + j \in Slots
  /\ \A j \in 1 .. k : ctx.st[ctx.sp + j] \in Addresses
  /\ \A i \in Locals : /\ ctx.bp - i \in Slots /\ ctx.bp - i \notin MarksOf(ctx)
                       /\ ctx.st[ctx.bp - i] \in Addresses

\* An instruction in the body of a function finds its operands.
LEMMA BodyReady ==
  ASSUME Inv, NEW op, NEW k \in 0 .. 3, InBody(op, k)
  PROVE  Ready(k)
<1>1. /\ Running /\ Good(ctx, {}, DOMAIN ctx.mem, ctx.sp, ctx.bp, MarksOf(ctx))
      /\ Bounds(ctx.sp, ctx.bp, MarksOf(ctx))
      /\ Room(ctx.sp, ctx.bp) /\ ctx.bp < ctx.sp /\ ctx.sp + k \in Slots
      /\ ctx.sp - 1 \in Slots
      /\ \A i \in Locals : ctx.bp - i \in Slots /\ ctx.bp - i < ctx.bp
                           /\ ctx.bp - i \notin MarksOf(ctx)
  BY BodyStarts
<1>2. ctx.state = "RUN"
  BY <1>1 DEF Running
<1>3. StackOK(ctx.st, ctx.sp, ctx.bp, MarksOf(ctx))
  BY <1>1, <1>2 DEF Good, GoodStack
<1>4. \A i \in Locals : ctx.st[ctx.bp - i] \in Addresses
  BY <1>1, <1>3, VariableAddress
<1>5. ctx.sp \in Nat
  BY <1>1 DEF Room, Slots
<1>6. \A j \in 0 .. k : ctx.sp + j \in Slots
  BY <1>1, <1>5, Constants DEF Slots
<1>7. \A j \in 1 .. k : ctx.sp + j \in Slots /\ ctx.sp + j > ctx.sp
  BY <1>5, <1>6
<1>8. \A j \in 1 .. k : ctx.st[ctx.sp + j] \in Addresses
  BY <1>3, <1>7, OperandAddress
<1> QED
  BY <1>1, <1>2, <1>4, <1>6, <1>8 DEF Ready

\* An instruction that leaves the frames alone ends in the invariant.
LEMMA QuietEnds ==
  ASSUME NEW k, Ready(k), NEW c, NEW K, NEW sp,
         Good(c, {}, K, sp, ctx.bp, MarksOf(ctx)), sp \in Slots, Execute(c)
  PROVE  Inv'
<1>1. Running /\ Bounds(ctx.sp, ctx.bp, MarksOf(ctx))
  BY DEF Ready
<1> QED
  BY <1>1, QuietKeeps

\* OBJPUSH counts and pushes a variable.
LEMMA KeepsOBJPUSH ==
  ASSUME Inv, OBJPUSH
  PROVE  Inv'
<1>1. Ready(0)
  BY BodyReady DEF OBJPUSH
<1>2. PICK i \in Locals : Execute(vm_push_stack_arc(ctx, ctx.st[ctx.bp - i]))
  BY DEF OBJPUSH
<1>3. PICK c : c = vm_push_stack_arc(ctx, ctx.st[ctx.bp - i])
  OBVIOUS
<1>4. /\ Good(ctx, {}, DOMAIN ctx.mem, ctx.sp, ctx.bp, MarksOf(ctx))
      /\ Room(ctx.sp, ctx.bp) /\ ctx.st[ctx.bp - i] \in Addresses /\ ctx.sp - 1 \in Slots
  BY <1>1 DEF Ready
<1>5. Good(c, {}, DOMAIN ctx.mem, ctx.sp - 1, ctx.bp, MarksOf(ctx))
  BY <1>3, <1>4, PushArcGood
<1> QED
  BY <1>1, <1>2, <1>3, <1>4, <1>5, QuietEnds

\* OBJSTORE writes a variable and keeps the operand.
LEMMA KeepsOBJSTORE ==
  ASSUME Inv, OBJSTORE
  PROVE  Inv'
<1>1. Ready(1)
  BY BodyReady DEF OBJSTORE
<1>2. PICK i \in Locals :
        Execute(vmd_store_variable([ctx EXCEPT !.obj = ctx.st[ctx.sp + 1]], i))
  BY DEF OBJSTORE
<1>3. PICK e : e = [ctx EXCEPT !.obj = ctx.st[ctx.sp + 1]]
  OBVIOUS
<1>4. PICK c : c = vmd_store_variable(e, i)
  OBVIOUS
<1>5. /\ Good(ctx, {}, DOMAIN ctx.mem, ctx.sp, ctx.bp, MarksOf(ctx))
      /\ ctx.st[ctx.sp + 1] \in Addresses /\ ctx.sp \in Slots
      /\ ctx.bp - i \in Slots /\ ctx.bp - i \notin MarksOf(ctx)
  BY <1>1 DEF Ready, Room
<1>6. Good(e, {}, DOMAIN ctx.mem, ctx.sp, ctx.bp, MarksOf(ctx))
  BY <1>3, <1>5, SetObjGood
<1>7. Good(c, {}, DOMAIN ctx.mem, ctx.sp, ctx.bp, MarksOf(ctx))
  BY <1>4, <1>5, <1>6, StoreGood
<1>8. Execute(c)
  BY <1>2, <1>3, <1>4
<1> QED
  BY <1>1, <1>5, <1>7, <1>8, QuietEnds

\* OBJPOP writes a variable.
LEMMA KeepsOBJPOP ==
  ASSUME Inv, OBJPOP
  PROVE  Inv'
<1>1. Ready(1)
  BY BodyReady DEF OBJPOP
<1>2. PICK i \in Locals : Execute(vmd_store_variable(vm_pop_stack_arc(ctx), i))
  BY DEF OBJPOP
<1>3. PICK e : e = vm_pop_stack_arc(ctx)
  OBVIOUS
<1>4. PICK c : c = vmd_store_variable(e, i)
  OBVIOUS
<1>5. /\ Good(ctx, {}, DOMAIN ctx.mem, ctx.sp, ctx.bp, MarksOf(ctx)) /\ Room(ctx.sp, ctx.bp)
      /\ ctx.sp + 1 \in Slots
      /\ ctx.bp - i \in Slots /\ ctx.bp - i \notin MarksOf(ctx)
  BY <1>1 DEF Ready
<1>6. Good(e, {}, DOMAIN ctx.mem, ctx.sp + 1, ctx.bp, MarksOf(ctx))
  BY <1>3, <1>5, PopGood
<1>7. Good(c, {}, DOMAIN ctx.mem, ctx.sp + 1, ctx.bp, MarksOf(ctx))
  BY <1>4, <1>5, <1>6, StoreGood
<1>8. Execute(c)
  BY <1>2, <1>3, <1>4
<1> QED
  BY <1>1, <1>5, <1>7, <1>8, QuietEnds

\* OBJDUP pushes an operand again.
LEMMA KeepsOBJDUP ==
  ASSUME Inv, OBJDUP
  PROVE  Inv'
<1>1. Ready(1)
  BY BodyReady DEF OBJDUP
<1>2. PICK c : c = vm_push_stack_arc(ctx, ctx.st[ctx.sp + 1])
  OBVIOUS
<1>3. Execute(c)
  BY <1>2 DEF OBJDUP
<1>4. /\ Good(ctx, {}, DOMAIN ctx.mem, ctx.sp, ctx.bp, MarksOf(ctx))
      /\ Room(ctx.sp, ctx.bp) /\ ctx.st[ctx.sp + 1] \in Addresses /\ ctx.sp - 1 \in Slots
  BY <1>1 DEF Ready
<1>5. Good(c, {}, DOMAIN ctx.mem, ctx.sp - 1, ctx.bp, MarksOf(ctx))
  BY <1>2, <1>4, PushArcGood
<1> QED
  BY <1>1, <1>3, <1>4, <1>5, QuietEnds

\* What is deleted is an object, or the program may delete anything.
LEMMA KeepsOBJDEL ==
  ASSUME RootKept, Inv, OBJDEL
  PROVE  Inv'
<1>1. Ready(1)
  BY BodyReady DEF OBJDEL
<1>2. PICK e, o, K : e = vm_pop_stack_arc(ctx) /\ o = ctx.st[ctx.sp + 1] /\ K = DOMAIN ctx.mem
  OBVIOUS
<1>3. PICK c : c = vm_release_object(e, o)
  OBVIOUS
<1>4. Execute(c)
  BY <1>2, <1>3 DEF OBJDEL
<1>5. /\ Good(ctx, {}, K, ctx.sp, ctx.bp, MarksOf(ctx)) /\ Room(ctx.sp, ctx.bp)
      /\ ctx.sp + 1 \in Slots
  BY <1>1, <1>2 DEF Ready
<1>6. Good(e, {}, K, ctx.sp + 1, ctx.bp, MarksOf(ctx))
  BY <1>2, <1>5, PopGood
<1>7. K # {} \/ RootTaken
  BY <1>2 DEF OBJDEL, IsOnlyReference, RootKept
<1>8. Good(c, {}, K \ {o}, ctx.sp + 1, ctx.bp, MarksOf(ctx))
  BY <1>3, <1>6, <1>7, ReleaseGood
<1> QED
  BY <1>1, <1>4, <1>5, <1>8, QuietEnds

\* JFALSE pops its condition.
LEMMA KeepsJFALSE ==
  ASSUME Inv, JFALSE
  PROVE  Inv'
<1>1. Ready(1)
  BY BodyReady DEF JFALSE
<1>2. PICK c : c = vm_pop_stack_arc(ctx)
  OBVIOUS
<1>3. Execute(c)
  BY <1>2 DEF JFALSE
<1>4. /\ Good(ctx, {}, DOMAIN ctx.mem, ctx.sp, ctx.bp, MarksOf(ctx)) /\ Room(ctx.sp, ctx.bp)
      /\ ctx.sp + 1 \in Slots
  BY <1>1 DEF Ready
<1>5. Good(c, {}, DOMAIN ctx.mem, ctx.sp + 1, ctx.bp, MarksOf(ctx))
  BY <1>2, <1>4, PopGood
<1> QED
  BY <1>1, <1>3, <1>4, <1>5, QuietEnds

\* JMP moves no object.
LEMMA KeepsJMP ==
  ASSUME Inv, JMP
  PROVE  Inv'
<1>1. Ready(0) /\ Execute(ctx)
  BY BodyReady DEF JMP
<1>2. /\ Good(ctx, {}, DOMAIN ctx.mem, ctx.sp, ctx.bp, MarksOf(ctx)) /\ ctx.sp \in Slots
  BY <1>1 DEF Ready, Room
<1> QED
  BY <1>1, <1>2, QuietEnds

\* SWITCH pops its value.
LEMMA KeepsSWITCH ==
  ASSUME Inv, SWITCH
  PROVE  Inv'
<1>1. Ready(1)
  BY BodyReady DEF SWITCH
<1>2. PICK e : e = vm_pop_stack_arc(ctx)
  OBVIOUS
<1>3. PICK len \in Loadable :
        \E c \in {vm_load_constant(e, len), ReleaseObj(vm_load_constant(vm_load_constant(e, len), len))} :
          Execute(vm_release_object(c, vm_load_constant(e, len).obj))
  BY <1>2 DEF SWITCH
<1>4. PICK table : table = vm_load_constant(e, len)
  OBVIOUS
<1>5. PICK case : case = vm_load_constant(table, len)
  OBVIOUS
<1>6. PICK r : r = ReleaseObj(case)
  OBVIOUS
<1>7. PICK c \in {table, r} : Execute(vm_release_object(c, table.obj))
  BY <1>3, <1>4, <1>5, <1>6
<1>8. /\ Good(ctx, {}, DOMAIN ctx.mem, ctx.sp, ctx.bp, MarksOf(ctx)) /\ Room(ctx.sp, ctx.bp)
      /\ ctx.sp + 1 \in Slots /\ len \in Nat
  BY <1>1, Constants DEF Ready
<1>9. PICK sp, bp, M : sp = ctx.sp + 1 /\ bp = ctx.bp /\ M = MarksOf(ctx)
  OBVIOUS
<1>10. Good(e, {}, DOMAIN ctx.mem, sp, bp, M)
  BY <1>2, <1>8, <1>9, PopGood
<1>11. Good(e, {}, {}, sp, bp, M)
  BY <1>10, GoodFewer
<1>12. Good(table, {}, {} \cup {table.obj}, sp, bp, M)
  BY <1>4, <1>8, <1>11, LoadGood
<1>13. Good(table, {}, {table.obj}, sp, bp, M)
  BY <1>12
<1>14. Good(case, {}, {table.obj} \cup {case.obj}, sp, bp, M)
       /\ IsNew(table, case, {}, {table.obj})
  BY <1>5, <1>8, <1>13, LoadGood
<1>15. Good(r, {}, ({table.obj} \cup {case.obj}) \ {case.obj}, sp, bp, M) /\ r.state = case.state
  <2>1. PICK K : K = {table.obj} \cup {case.obj}
    OBVIOUS
  <2>2. K # {} /\ case.obj \notin {} /\ Good(case, {}, K, sp, bp, M)
    BY <2>1, <1>14
  <2>3. r = vm_release_object(case, case.obj)
    BY <1>6 DEF ReleaseObj
  <2>4. Good(r, {}, K \ {case.obj}, sp, bp, M) /\ r.state = case.state
    <3>1. PICK o : o = case.obj
      OBVIOUS
    <3>2. /\ K # {} /\ o \notin {} /\ Good(case, {}, K, sp, bp, M)
          /\ r = vm_release_object(case, o)
      BY <3>1, <2>2, <2>3
    <3>3. Good(r, {}, K \ {o}, sp, bp, M) /\ r.state = case.state
      BY <3>2, ReleaseGood
    <3> QED
      BY <3>1, <3>3
  <2> QED
    BY <2>1, <2>4
<1>16. Good(r, {}, {table.obj}, sp, bp, M)
  <2>1. CASE r.state = "CRASH"
    BY <2>1, <1>15 DEF Good
  <2>2. CASE r.state # "CRASH"
    <3>1. case.obj # table.obj
      BY <2>2, <1>14, <1>15 DEF IsNew
    <3>2. ({table.obj} \cup {case.obj}) \ {case.obj} = {table.obj}
      BY <3>1
    <3> QED
      BY <3>2, <1>15
  <2> QED
    BY <2>1, <2>2
<1>17. Good(c, {}, {table.obj}, sp, bp, M)
  BY <1>7, <1>13, <1>16
<1>18. PICK d, o : d = vm_release_object(c, table.obj) /\ o = table.obj
  OBVIOUS
<1>19. Good(d, {}, {o} \ {o}, sp, bp, M)
  <2>1. {o} # {} /\ o \notin {} /\ Good(c, {}, {o}, sp, bp, M) /\ d = vm_release_object(c, o)
    BY <1>17, <1>18
  <2> QED
    BY <2>1, ReleaseGood
<1>20. Execute(d)
  BY <1>7, <1>18
<1>21. sp \in Slots /\ Good(d, {}, {o} \ {o}, sp, ctx.bp, MarksOf(ctx))
  BY <1>8, <1>9, <1>19
<1> QED
  BY <1>1, <1>20, <1>21, QuietEnds


\* OBJCONST releases the buffer of its constant.
LEMMA KeepsOBJCONST ==
  ASSUME Inv, OBJCONST
  PROVE  Inv'
<1>1. Ready(0)
  BY BodyReady DEF OBJCONST
<1>2. PICK len \in Loadable : Execute(PushCounted(vm_load_constant(ctx, len)))
  BY DEF OBJCONST
<1>3. PICK e, K : e = vm_load_constant(ctx, len) /\ K = DOMAIN ctx.mem
  OBVIOUS
<1>4. PICK c : c = vm_push_stack_arc(e, e.obj)
  OBVIOUS
<1>5. /\ Good(ctx, {}, K, ctx.sp, ctx.bp, MarksOf(ctx))
      /\ Room(ctx.sp, ctx.bp) /\ ctx.sp - 1 \in Slots /\ len \in Nat
  BY <1>1, <1>3, Constants DEF Ready
<1>6. Good(e, {}, K \cup {e.obj}, ctx.sp, ctx.bp, MarksOf(ctx)) /\ IsNew(ctx, e, {}, K)
  BY <1>3, <1>5, LoadGood
<1>7. Good(c, {}, K \cup {e.obj}, ctx.sp - 1, ctx.bp, MarksOf(ctx))
  BY <1>4, <1>5, <1>6, PushArcGood DEF IsNew
<1>8. Execute(c)
  BY <1>2, <1>3, <1>4 DEF PushCounted
<1> QED
  BY <1>1, <1>5, <1>7, <1>8, QuietEnds

\* A crash inside an instruction.
LEMMA CrashEnds ==
  ASSUME NEW k, Ready(k), Crash
  PROVE  Inv'
<1>1. PICK c : c = [ctx EXCEPT !.state = "CRASH"]
  OBVIOUS
<1>2. IsCtx(ctx) /\ ctx.sp \in Slots
  BY DEF Ready, Good, Room
<1>3. IsCtx(c) /\ c.state = "CRASH"
  BY <1>1, <1>2 DEF IsCtx, Fields
<1>4. Good(c, {}, {}, ctx.sp, ctx.bp, MarksOf(ctx))
  BY <1>3 DEF Good, States
<1>5. Execute(c)
  BY <1>1 DEF Crash
<1> QED
  BY <1>2, <1>4, <1>5, QuietEnds

\* Only the exception, and possibly the end, is noted.
LEMMA RaiseEnds ==
  ASSUME NEW k, Ready(k), NEW c, NEW K, NEW sp,
         Good(c, {}, K, sp, ctx.bp, MarksOf(ctx)), sp \in Slots,
         Execute(Raise(c)) \/ Execute([Raise(c) EXCEPT !.ends = TRUE])
  PROVE  Inv'
<1>1. PICK r : r = Raise(c)
  OBVIOUS
<1>2. Good(r, {}, K, sp, ctx.bp, MarksOf(ctx))
  BY <1>1, RaiseGood
<1>3. CASE Execute(r)
  BY <1>2, <1>3, QuietEnds
<1>4. CASE Execute([r EXCEPT !.ends = TRUE])
  <2>1. PICK d : d = [r EXCEPT !.ends = TRUE]
    OBVIOUS
  <2>2. Good(d, {}, K, sp, ctx.bp, MarksOf(ctx))
    BY <2>1, <1>2, EndsGood
  <2> QED
    BY <2>1, <2>2, <1>4, QuietEnds
<1> QED
  BY <1>1, <1>3, <1>4

\* A constant that is too long is not loaded.
LEMMA KeepsConstantTooLong ==
  ASSUME Inv, ConstantTooLong
  PROVE  Inv'
<1>1. ASSUME NEW op, InBody(op, 0), Crash \/ Execute([Raise(ctx) EXCEPT !.ends = TRUE])
      PROVE  Inv'
  <2>1. Ready(0)
    BY <1>1, BodyReady
  <2>2. /\ Good(ctx, {}, DOMAIN ctx.mem, ctx.sp, ctx.bp, MarksOf(ctx))
        /\ ctx.sp \in Slots
    BY <2>1 DEF Ready, Room
  <2> QED
    BY <1>1, <2>1, <2>2, CrashEnds, RaiseEnds
<1>2. ASSUME NEW op, InBody(op, 1),
             \/ Crash
             \/ Execute(Raise(vm_pop_stack_arc(ctx)))
             \/ Execute([Raise(vm_pop_stack_arc(ctx)) EXCEPT !.ends = TRUE])
      PROVE  Inv'
  <2>1. Ready(1)
    BY <1>2, BodyReady
  <2>2. PICK e, sp : e = vm_pop_stack_arc(ctx) /\ sp = ctx.sp + 1
    OBVIOUS
  <2>3. /\ Good(ctx, {}, DOMAIN ctx.mem, ctx.sp, ctx.bp, MarksOf(ctx))
        /\ Room(ctx.sp, ctx.bp) /\ ctx.sp + 1 \in Slots
    BY <2>1 DEF Ready
  <2>4. Good(e, {}, DOMAIN ctx.mem, ctx.sp + 1, ctx.bp, MarksOf(ctx))
    BY <2>2, <2>3, PopGood
  <2>5. Good(e, {}, DOMAIN ctx.mem, sp, ctx.bp, MarksOf(ctx)) /\ sp \in Slots
    BY <2>2, <2>3, <2>4
  <2>6. Crash \/ Execute(Raise(e)) \/ Execute([Raise(e) EXCEPT !.ends = TRUE])
    BY <1>2, <2>2
  <2> QED
    BY <2>1, <2>5, <2>6, CrashEnds, RaiseEnds
<1> QED
  BY <1>1, <1>2 DEF ConstantTooLong

\* F2O creates a function object.
LEMMA KeepsF2O ==
  ASSUME Inv, F2O
  PROVE  Inv'
<1>1. Ready(0)
  BY BodyReady DEF F2O
<1>2. PICK c, K : c = PushNew(ctx, FuncLen) /\ K = DOMAIN ctx.mem
  OBVIOUS
<1>3. /\ Good(ctx, {}, K, ctx.sp, ctx.bp, MarksOf(ctx))
      /\ Room(ctx.sp, ctx.bp) /\ ctx.sp - 1 \in Slots /\ FuncLen \in Nat
  BY <1>1, <1>2, Constants DEF Ready
<1>4. Good(c, {}, K \cup {c.obj}, ctx.sp - 1, ctx.bp, MarksOf(ctx))
  BY <1>2, <1>3, PushNewGood
<1>5. Execute(c)
  BY <1>2 DEF F2O
<1> QED
  BY <1>1, <1>3, <1>4, <1>5, QuietEnds

\* k operands are popped and a result is pushed.
LEMMA PopAndCompute ==
  ASSUME NEW k, k \in 1 .. 3, Ready(k), NEW len, len \in Nat, NEW how,
         how \in {"text", "numbers", "cast"}, NEW c, c = Compute(PopN(ctx, k), len, how)
  PROVE  /\ Good(c, {}, DOMAIN ctx.mem, ctx.sp + k - 1, ctx.bp, MarksOf(ctx))
         /\ ctx.sp + k - 1 \in Slots
<1>1. PICK e, s : e = PopN(ctx, k) /\ s = ctx.sp + k
  OBVIOUS
<1>2. /\ Good(ctx, {}, DOMAIN ctx.mem, ctx.sp, ctx.bp, MarksOf(ctx))
      /\ Room(ctx.sp, ctx.bp) /\ k \in 0 .. 3 /\ ctx.sp + k \in Slots
  BY DEF Ready
<1>3. Good(e, {}, DOMAIN ctx.mem, ctx.sp + k, ctx.bp, MarksOf(ctx)) /\ Room(ctx.sp + k, ctx.bp)
  BY <1>1, <1>2, PopNGood
<1>4. Good(e, {}, DOMAIN ctx.mem, s, ctx.bp, MarksOf(ctx)) /\ Room(s, ctx.bp)
  BY <1>1, <1>3
<1>5. c = Compute(e, len, how)
  BY <1>1
<1>6. Good(c, {}, DOMAIN ctx.mem, s - 1, ctx.bp, MarksOf(ctx))
  BY <1>4, <1>5, ComputeGood
<1>7. s - 1 = ctx.sp + k - 1 /\ ctx.sp + k - 1 \in Slots
  BY <1>1, <1>2, Constants DEF Room, Slots
<1> QED
  BY <1>6, <1>7

\* Operators on values release their buffers.
LEMMA KeepsOperation ==
  ASSUME Inv, vm_operation_object
  PROVE  Inv'
<1>1. PICK k \in 1 .. 2, len \in Lens, how \in {"text", "numbers", "cast"} :
        InBody("OPERATE", k) /\ Execute(Compute(PopN(ctx, k), len, how))
  BY DEF vm_operation_object
<1>2. k \in 0 .. 3 /\ k \in 1 .. 3 /\ len \in Nat
  BY Constants
<1>3. Ready(k)
  BY <1>1, <1>2, BodyReady
<1>4. PICK c : c = Compute(PopN(ctx, k), len, how)
  OBVIOUS
<1>5. /\ Good(c, {}, DOMAIN ctx.mem, ctx.sp + k - 1, ctx.bp, MarksOf(ctx))
      /\ ctx.sp + k - 1 \in Slots
  BY <1>2, <1>3, <1>4, PopAndCompute
<1> QED
  BY <1>1, <1>3, <1>4, <1>5, QuietEnds

\* So do comparisons.
LEMMA KeepsCompare ==
  ASSUME Inv, vm_compare_object
  PROVE  Inv'
<1>1. PICK len \in Lens, how \in {"text", "numbers", "cast"} :
        InBody("OPERATE", 2) /\ Execute(Compute(PopN(ctx, 2), len, how))
  BY DEF vm_compare_object
<1>2. 2 \in 0 .. 3 /\ 2 \in 1 .. 3 /\ len \in Nat
  BY Constants
<1>3. Ready(2)
  BY <1>1, <1>2, BodyReady
<1>4. PICK c : c = Compute(PopN(ctx, 2), len, how)
  OBVIOUS
<1>5. /\ Good(c, {}, DOMAIN ctx.mem, ctx.sp + 2 - 1, ctx.bp, MarksOf(ctx))
      /\ ctx.sp + 2 - 1 \in Slots
  BY <1>2, <1>3, <1>4, PopAndCompute
<1> QED
  BY <1>1, <1>3, <1>4, <1>5, QuietEnds

\* So does an operator that raises.
LEMMA KeepsOperationFails ==
  ASSUME Inv, OperationFails
  PROVE  Inv'
<1>1. PICK len \in Lens, how \in {"text", "numbers"} :
        InBody("OPERATE", 2) /\ Execute(Raise(Compute(PopN(ctx, 2), len, how)))
  BY DEF OperationFails
<1>2. 2 \in 0 .. 3 /\ 2 \in 1 .. 3 /\ len \in Nat /\ how \in {"text", "numbers", "cast"}
  BY Constants
<1>3. Ready(2)
  BY <1>1, <1>2, BodyReady
<1>4. PICK e : e = Compute(PopN(ctx, 2), len, how)
  OBVIOUS
<1>5. /\ Good(e, {}, DOMAIN ctx.mem, ctx.sp + 2 - 1, ctx.bp, MarksOf(ctx))
      /\ ctx.sp + 2 - 1 \in Slots
  BY <1>2, <1>3, <1>4, PopAndCompute
<1>6. PICK c : c = Raise(e)
  OBVIOUS
<1>7. Good(c, {}, DOMAIN ctx.mem, ctx.sp + 2 - 1, ctx.bp, MarksOf(ctx))
  BY <1>5, <1>6, RaiseGood
<1>8. Execute(c)
  BY <1>1, <1>4, <1>6
<1> QED
  BY <1>3, <1>5, <1>7, <1>8, QuietEnds

\* A number that overruns its buffer ends the run.
LEMMA KeepsNumberOverruns ==
  ASSUME Inv, NumberOverruns
  PROVE  Inv'
<1>1. InBody("OPERATE", 2) /\ Crash
  BY DEF NumberOverruns
<1>2. Ready(2)
  BY <1>1, BodyReady
<1> QED
  BY <1>1, <1>2, CrashEnds

\* OBJSZ pushes a length.
LEMMA KeepsOBJSZ ==
  ASSUME Inv, OBJSZ
  PROVE  Inv'
<1>1. PICK len \in Lens : InBody("OPERATE", 1) /\ Execute(PushNew(PopN(ctx, 1), len))
  BY DEF OBJSZ
<1>2. 1 \in 0 .. 3 /\ 1 \in 1 .. 3 /\ len \in Nat
  BY Constants
<1>3. Ready(1)
  BY <1>1, <1>2, BodyReady
<1>4. PICK c : c = Compute(PopN(ctx, 1), len, "text")
  OBVIOUS
<1>5. /\ Good(c, {}, DOMAIN ctx.mem, ctx.sp + 1 - 1, ctx.bp, MarksOf(ctx))
      /\ ctx.sp + 1 - 1 \in Slots
  BY <1>2, <1>3, <1>4, PopAndCompute
<1>6. c = PushNew(PopN(ctx, 1), len)
  BY <1>4 DEF Compute
<1>7. Execute(c)
  BY <1>1, <1>6
<1> QED
  BY <1>3, <1>5, <1>7, QuietEnds

\* The length that is read at an address is a number.
LEMMA LengthsRead ==
  ASSUME Inv, NEW o, NEW n \in LensAt(o)
  PROVE  n \in Nat
<1>1. CASE o \notin DOMAIN ctx.mem
  BY <1>1, Constants DEF LensAt
<1>2. CASE o \in DOMAIN ctx.mem
  <2>1. HeapOK(ctx.chain, ctx.mem, {}) /\ WellFormed(ctx.chain)
    BY DEF Inv, Invariant, HeapInv, HeapOK, ListOK
  <2>2. PICK g \in Blocks(ctx.chain) : Body(g) = o
    BY <1>2, <2>1 DEF HeapOK, Taken
  <2>3. g.size >= ObjSize
    BY <1>2, <2>1, <2>2 DEF HeapOK
  <2>4. Len(ctx.chain) \in Nat /\ \A i \in 1 .. Len(ctx.chain) : ctx.chain[i].size \in Nat
    BY <2>1, WellFormedFacts
  <2>5. PICK i \in 1 .. Len(ctx.chain) - 1 : g = ctx.chain[i]
    BY <2>2 DEF Blocks
  <2>6. i \in 1 .. Len(ctx.chain) /\ Body(ctx.chain[i]) = o
    BY <2>2, <2>4, <2>5
  <2>7. PICK j : j = CHOOSE x \in 1 .. Len(ctx.chain) : Body(ctx.chain[x]) = o
    OBVIOUS
  <2>8. j \in 1 .. Len(ctx.chain) /\ Body(ctx.chain[j]) = o
    BY <2>6, <2>7
  <2>9. i = j
    <3>1. Body(ctx.chain[i]) = Body(ctx.chain[j])
      BY <2>6, <2>8
    <3> QED
      BY <3>1, <2>1, <2>6, <2>8, BodyUnique
  <2>10. LenOf(ctx, o) = ctx.chain[j].size - ObjSize
    BY <2>7 DEF LenOf
  <2>11. ctx.chain[j].size \in Nat /\ ctx.chain[j].size >= ObjSize
    BY <2>3, <2>4, <2>5, <2>8, <2>9
  <2>12. LenOf(ctx, o) \in Nat
    BY <2>10, <2>11, Constants
  <2> QED
    BY <1>2, <2>12 DEF LensAt
<1> QED
  BY <1>1, <1>2

\* OBJSUB releases its two buffers.
LEMMA KeepsOBJSUB ==
  ASSUME Inv, OBJSUB
  PROVE  Inv'
<1>1. Ready(3)
  BY BodyReady DEF OBJSUB
<1>2. PICK len \in Lens,
           m \in LensAt(ctx.st[ctx.sp + 2]), n \in LensAt(ctx.st[ctx.sp + 1]) :
        Execute(PushNew(TwoBuffers(Alloc(PopN(ctx, 3), m + 1), n + 1), len))
  BY DEF OBJSUB
<1>3. m \in Nat /\ n \in Nat /\ len \in Nat
  BY LengthsRead, Constants
<1>4. PICK e, K, s : e = PopN(ctx, 3) /\ K = DOMAIN ctx.mem /\ s = ctx.sp + 3
  OBVIOUS
<1>5. PICK t : t = TwoBuffers(Alloc(e, m + 1), n + 1)
  OBVIOUS
<1>6. PICK c : c = PushNew(t, len)
  OBVIOUS
<1>7. /\ Good(ctx, {}, K, ctx.sp, ctx.bp, MarksOf(ctx))
      /\ Room(ctx.sp, ctx.bp) /\ 3 \in 0 .. 3 /\ ctx.sp + 3 \in Slots
  BY <1>1, <1>4 DEF Ready
<1>8. Good(e, {}, K, ctx.sp + 3, ctx.bp, MarksOf(ctx)) /\ Room(ctx.sp + 3, ctx.bp)
  BY <1>4, <1>7, PopNGood
<1>9. Good(e, {}, K, s, ctx.bp, MarksOf(ctx)) /\ Room(s, ctx.bp)
  BY <1>4, <1>8
<1>10. m + 1 \in Nat \ {0} /\ n + 1 \in Nat \ {0}
  BY <1>3
<1>11. Good(t, {}, K, s, ctx.bp, MarksOf(ctx))
  BY <1>5, <1>9, <1>10, TwoBuffersGood
<1>12. Good(c, {}, K \cup {c.obj}, s - 1, ctx.bp, MarksOf(ctx))
  BY <1>3, <1>6, <1>9, <1>11, PushNewGood
<1>13. s - 1 \in Slots
  BY <1>4, <1>7, Constants DEF Room, Slots
<1>14. Execute(c)
  BY <1>2, <1>4, <1>5, <1>6
<1> QED
  BY <1>1, <1>12, <1>13, <1>14, QuietEnds

\* A native method is called, or none is found.
LEMMA KeepsNativeCall ==
  ASSUME NEW k, Ready(k), NEW c, NEW K, NEW sp,
         Good(c, {}, K, sp, ctx.bp, MarksOf(ctx)), Room(sp, ctx.bp), sp - 1 \in Slots,
         \/ \E n \in 0 .. 1, len \in Lens, casts \in BOOLEAN :
              sp + n \in Slots /\ Execute(PushResult(c, n, len, casts))
         \/ Execute(PushNew(c, 0))
  PROVE  Inv'
<1>1. ASSUME NEW n \in 0 .. 1, NEW len \in Lens, NEW casts \in BOOLEAN,
             sp + n \in Slots, Execute(PushResult(c, n, len, casts))
      PROVE  Inv'
  <2>1. PICK d : d = PushResult(c, n, len, casts)
    OBVIOUS
  <2>2. len \in Nat
    BY Constants
  <2>3. Good(d, {}, K, sp + n - 1, ctx.bp, MarksOf(ctx))
    BY <1>1, <2>1, <2>2, PushResultGood
  <2>4. sp + n - 1 \in Slots
    BY <1>1, Constants DEF Room, Slots
  <2> QED
    BY <1>1, <2>1, <2>3, <2>4, QuietEnds
<1>2. ASSUME Execute(PushNew(c, 0)) PROVE Inv'
  <2>1. PICK d : d = PushNew(c, 0)
    OBVIOUS
  <2>2. Good(d, {}, K \cup {d.obj}, sp - 1, ctx.bp, MarksOf(ctx))
    BY <2>1, PushNewGood
  <2> QED
    BY <1>2, <2>1, <2>2, QuietEnds
<1> QED
  BY <1>1, <1>2

\* An operator of a native instance calls it with one argument.
LEMMA KeepsNativeOperator ==
  ASSUME Inv, NativeOperator
  PROVE  Inv'
<1>1. Ready(2)
  BY BodyReady DEF NativeOperator
<1>2. PICK e, K, s : e = PopN(ctx, 2) /\ K = DOMAIN ctx.mem /\ s = ctx.sp + 2
  OBVIOUS
<1>3. PICK c, o : c = vm_push_stack_arc(e, o) /\ o = ctx.st[ctx.sp + 1]
  OBVIOUS
<1>4. \/ \E len \in Lens, casts \in BOOLEAN : Execute(PushResult(c, 1, len, casts))
      \/ Execute(PushNew(c, 0))
  BY <1>2, <1>3 DEF NativeOperator
<1>5. /\ Good(ctx, {}, K, ctx.sp, ctx.bp, MarksOf(ctx)) /\ o \in Addresses
      /\ Room(ctx.sp, ctx.bp) /\ 2 \in 0 .. 3 /\ ctx.sp + 2 \in Slots /\ ctx.bp < ctx.sp
      /\ ctx.sp + 1 \in Slots /\ ctx.sp \in Slots
  BY <1>1, <1>2, <1>3 DEF Ready, Room
<1>6. Good(e, {}, K, ctx.sp + 2, ctx.bp, MarksOf(ctx)) /\ Room(ctx.sp + 2, ctx.bp)
  BY <1>2, <1>5, PopNGood
<1>7. Good(e, {}, K, s, ctx.bp, MarksOf(ctx)) /\ Room(s, ctx.bp)
  BY <1>2, <1>6
<1>8. Good(c, {}, K, s - 1, ctx.bp, MarksOf(ctx))
  BY <1>3, <1>5, <1>7, PushArcGood
<1>9. PICK sp : sp = s - 1
  OBVIOUS
<1>10. Good(c, {}, K, sp, ctx.bp, MarksOf(ctx))
  BY <1>8, <1>9
<1>11. Room(sp, ctx.bp) /\ sp - 1 \in Slots /\ sp + 1 \in Slots
  BY <1>2, <1>5, <1>9, Constants DEF Room, Slots
<1>12. \/ \E n \in 0 .. 1, len \in Lens, casts \in BOOLEAN :
            sp + n \in Slots /\ Execute(PushResult(c, n, len, casts))
       \/ Execute(PushNew(c, 0))
  <2>1. 1 \in 0 .. 1
    OBVIOUS
  <2> QED
    BY <1>4, <1>11, <2>1
<1> QED
  BY <1>1, <1>10, <1>11, <1>12, KeepsNativeCall


-----------------------------------------------------------------------------
(***************************************************************************)
(* Frames come and go.                                                     *)
(***************************************************************************)
LEMMA FrameFacts ==
  ASSUME NEW fs, FramesOK(fs), NEW k \in 1 .. Len(fs)
  PROVE  /\ Len(fs) \in Nat /\ fs[k] \in Frame
         /\ fs[k].base \in Nat /\ fs[k].base >= 2 /\ fs[k].locals \in Nat
         /\ fs[k].base <= End(fs[k])
<1>1. fs \in Seq(Frame) /\ Len(fs) \in Nat
  BY LenProperties DEF FramesOK
<1>2. fs[k] \in Frame
  BY <1>1, ElementOfSeq
<1>3. fs[k].base \in Nat /\ fs[k].base >= 2 /\ fs[k].locals \in Nat /\ fs[k].left \in BOOLEAN
  BY <1>2, Constants DEF Frame
<1>4. fs[k].base <= End(fs[k])
  BY <1>3 DEF End
<1> QED
  BY <1>1, <1>2, <1>3, <1>4

\* A new frame behind its return marks.
Enters(fs, bp, M, gs, bq, N) ==
  /\ bp \in Nat /\ bp + 2 <= MaxStack
  /\ gs = Append(fs, Entered(bp + 2)) /\ bq = bp + 2 /\ N = M \cup {bp, bp + 1}

\* A new frame behind two new return marks.
LEMMA AlignedEnter ==
  ASSUME NEW fs, NEW bp, NEW M, NEW gs, NEW bq, NEW N,
         FramesOK(fs), Aligned(fs, bp, M), Enters(fs, bp, M, gs, bq, N)
  PROVE  FramesOK(gs) /\ Aligned(gs, bq, N)
<1>0. /\ bp \in Nat /\ bp + 2 <= MaxStack
      /\ gs = Append(fs, Entered(bp + 2)) /\ bq = bp + 2 /\ N = M \cup {bp, bp + 1}
  BY DEF Enters
<1>1. fs \in Seq(Frame)
  BY DEF FramesOK
<1>2. PICK e : e = Entered(bp + 2)
  OBVIOUS
<1>3. e \in Frame /\ e.base = bp + 2 /\ e.locals = 0 /\ e.left = FALSE /\ End(e) = bp + 2
  BY <1>0, <1>2, Constants DEF Entered, Frame, End
<1>4. /\ gs \in Seq(Frame) /\ Len(gs) = Len(fs) + 1 /\ Len(fs) \in Nat
      /\ \A k \in 1 .. Len(fs) : gs[k] = fs[k]
      /\ gs[Len(fs) + 1] = e
  BY <1>0, <1>1, <1>2, <1>3, AppendProperties, LenProperties
<1>5. \A k \in 1 .. Len(gs) : k \in 1 .. Len(fs) \/ k = Len(fs) + 1
  BY <1>4
<1>6. FramesOK(gs)
  BY <1>3, <1>4, <1>5 DEF FramesOK
<1>7. N = M \cup {bp, bp + 1} /\ bp \in Nat
  BY <1>0
<1>8. ASSUME NEW k \in 1 .. Len(gs)
      PROVE  /\ gs[k].base - 1 \in N /\ gs[k].base - 2 \in N
             /\ \A s \in gs[k].base .. End(gs[k]) - 1 : s \notin N
             /\ End(gs[k]) <= bp + 2
             /\ \A l \in k + 1 .. Len(gs) : End(gs[k]) <= gs[l].base - 2
             /\ End(gs[k]) = IF k = Len(gs) THEN bp + 2 ELSE gs[k + 1].base - 2
  <2>1. CASE k = Len(fs) + 1
    BY <2>1, <1>0, <1>3, <1>4
  <2>2. CASE k \in 1 .. Len(fs)
    <3>1. gs[k] = fs[k] /\ k # Len(gs) /\ k + 1 \in 1 .. Len(gs)
      BY <2>2, <1>4
    <3>2. PICK b, n, f : b = fs[k].base /\ n = End(fs[k]) /\ f = fs[k]
      OBVIOUS
    <3>3. b \in Nat /\ f.locals \in Nat /\ n \in Nat /\ b <= n
      <4>1. fs[k].base \in Nat /\ fs[k].locals \in Nat /\ fs[k].base <= End(fs[k])
        BY <2>2, FrameFacts
      <4> QED
        BY <4>1, <3>2 DEF End
    <3>4. /\ b - 1 \in M /\ b - 2 \in M
          /\ \A s \in b .. n - 1 : s \notin M
          /\ n <= bp
          /\ \A l \in k + 1 .. Len(fs) : n <= fs[l].base - 2
          /\ n = IF k = Len(fs) THEN bp ELSE fs[k + 1].base - 2
      BY <2>2, <3>2 DEF Aligned
    <3>5. \A s \in b .. n - 1 : s \notin N
      BY <3>3, <3>4, <1>7
    <3>6. n <= bp + 2
      BY <3>3, <3>4, <1>0
    <3>7. \A l \in k + 1 .. Len(gs) : n <= gs[l].base - 2
      <4> SUFFICES ASSUME NEW l \in k + 1 .. Len(gs) PROVE n <= gs[l].base - 2
        OBVIOUS
      <4>1. CASE l = Len(fs) + 1
        BY <4>1, <3>3, <3>4, <1>0, <1>3, <1>4
      <4>2. CASE l # Len(fs) + 1
        <5>1. l \in k + 1 .. Len(fs) /\ l \in 1 .. Len(fs)
          BY <4>2, <2>2, <1>4
        <5> QED
          BY <5>1, <3>4, <1>4
      <4> QED
        BY <4>1, <4>2
    <3>8. n = gs[k + 1].base - 2
      <4>1. CASE k = Len(fs)
        BY <4>1, <3>3, <3>4, <1>0, <1>3, <1>4
      <4>2. CASE k # Len(fs)
        <5>1. k + 1 \in 1 .. Len(fs)
          BY <4>2, <2>2, <1>4
        <5> QED
          BY <5>1, <4>2, <3>4, <1>4
      <4> QED
        BY <4>1, <4>2
    <3> QED
      BY <3>1, <3>2, <3>4, <3>5, <3>6, <3>7, <3>8, <1>7
  <2> QED
    BY <2>1, <2>2, <1>5
<1>9. Aligned(gs, bp + 2, N)
  BY <1>8 DEF Aligned
<1> QED
  BY <1>0, <1>6, <1>9

\* The last frame gets its variables, loses them, or is left.
LEMMA LastChanges ==
  ASSUME NEW fs, NEW gs, NEW bp, NEW bq, NEW M, NEW N, NEW n,
         FramesOK(fs), FramesOK(gs), Aligned(fs, bp, M), n = Len(fs), n > 0,
         Len(gs) = Len(fs), \A k \in 1 .. n - 1 : gs[k] = fs[k],
         gs[n].base = fs[n].base, End(gs[n]) = bq, bq \in Nat, bq >= gs[n].base,
         \A s \in M : s < gs[n].base => s \in N,
         \A s \in N : s \in M /\ s < gs[n].base
  PROVE  Aligned(gs, bq, N)
<1>0. n \in Nat /\ n \in 1 .. n /\ n \in 1 .. Len(fs)
  BY LenProperties DEF FramesOK
<1>n. gs[n].base \in Nat /\ End(fs[n]) \in Nat /\ fs[n].base <= End(fs[n])
  <2>1. fs[n].base \in Nat /\ fs[n].locals \in Nat /\ fs[n].base <= End(fs[n])
    BY <1>0, FrameFacts
  <2> QED
    BY <2>1 DEF End
<1>1. ASSUME NEW k \in 1 .. Len(gs)
      PROVE  /\ gs[k].base - 1 \in N /\ gs[k].base - 2 \in N
             /\ \A s \in gs[k].base .. End(gs[k]) - 1 : s \notin N
             /\ End(gs[k]) <= bq
             /\ \A l \in k + 1 .. Len(gs) : End(gs[k]) <= gs[l].base - 2
             /\ End(gs[k]) = IF k = Len(gs) THEN bq ELSE gs[k + 1].base - 2
  <2>1. CASE k = n
    <3>1. fs[n].base - 1 \in M /\ fs[n].base - 2 \in M
      BY <1>0 DEF Aligned
    <3>2. gs[n].base - 1 \in N /\ gs[n].base - 2 \in N
      BY <3>1, <1>n
    <3>3. \A s \in gs[n].base .. End(gs[n]) - 1 : s \notin N
      BY <1>n
    <3>4. \A l \in k + 1 .. Len(gs) : FALSE
      BY <2>1, <1>0
    <3> QED
      BY <2>1, <3>2, <3>3, <3>4
  <2>2. CASE k # n
    <3>1. k \in 1 .. n - 1 /\ gs[k] = fs[k] /\ k \in 1 .. Len(fs) /\ n \in k + 1 .. Len(fs)
      BY <2>2, <1>0
    <3>2. PICK b, e : b = fs[k].base /\ e = End(fs[k])
      OBVIOUS
    <3>3. b \in Nat /\ e \in Nat /\ b <= e
      <4>1. fs[k].base \in Nat /\ fs[k].locals \in Nat /\ fs[k].base <= End(fs[k])
        BY <3>1, FrameFacts
      <4> QED
        BY <4>1, <3>2 DEF End
    <3>4. /\ b - 1 \in M /\ b - 2 \in M
          /\ \A s \in b .. e - 1 : s \notin M
          /\ \A l \in k + 1 .. Len(fs) : e <= fs[l].base - 2
          /\ e = IF k = Len(fs) THEN bp ELSE fs[k + 1].base - 2
      BY <3>1, <3>2 DEF Aligned
    <3>5. e <= gs[n].base - 2
      BY <3>1, <3>4
    <3>6. b - 1 \in N /\ b - 2 \in N /\ e <= bq
      <4>1. b - 1 < gs[n].base /\ b - 2 < gs[n].base /\ e <= bq
        BY <3>3, <3>5, <1>n
      <4> QED
        BY <4>1, <3>4
    <3>7. \A s \in b .. e - 1 : s \notin N
      BY <3>4
    <3>8. \A l \in k + 1 .. Len(gs) : gs[l].base = fs[l].base
      <4> SUFFICES ASSUME NEW l \in k + 1 .. Len(gs) PROVE gs[l].base = fs[l].base
        OBVIOUS
      <4>1. l = n \/ l \in 1 .. n - 1
        BY <3>1, <1>0
      <4> QED
        BY <4>1
    <3>9. e = gs[k + 1].base - 2 /\ k # Len(gs)
      <4>1. k + 1 \in k + 1 .. Len(gs) /\ k # Len(fs)
        BY <3>1, <1>0
      <4> QED
        BY <4>1, <3>4, <3>8
    <3> QED
      BY <3>1, <3>2, <3>4, <3>6, <3>7, <3>8, <3>9
  <2> QED
    BY <2>1, <2>2
<1> QED
  BY <1>1 DEF Aligned


\* The caller's frame is the last one again.
LEMMA AlignedReturn ==
  ASSUME NEW fs, NEW gs, NEW bp, NEW M, NEW N, NEW n,
         FramesOK(fs), Aligned(fs, bp, M), n = Len(fs), n > 0,
         End(fs[n]) = fs[n].base, gs = SubSeq(fs, 1, n - 1),
         \A s \in M : s < bp - 2 => s \in N,
         \A s \in N : s \in M
  PROVE  FramesOK(gs) /\ Aligned(gs, bp - 2, N)
<1>0. n \in Nat /\ n \in 1 .. Len(fs) /\ fs \in Seq(Frame)
  BY LenProperties DEF FramesOK
<1>1. fs[n].base = bp /\ bp \in Nat
  <2>1. End(fs[n]) = bp
    BY <1>0 DEF Aligned
  <2>2. fs[n].base \in Nat
    BY <1>0, FrameFacts
  <2> QED
    BY <2>1, <2>2
<1>2. /\ gs \in Seq(Frame) /\ Len(gs) = n - 1
      /\ \A k \in 1 .. n - 1 : gs[k] = fs[k]
  <2>1. 1 \in 1 .. Len(fs) + 1 /\ n - 1 \in 0 .. Len(fs) /\ 1 <= n - 1 + 1
    BY <1>0
  <2> QED
    BY <2>1, <1>0, SubSeqProperties
<1>3. FramesOK(gs)
  BY <1>0, <1>2 DEF FramesOK
<1>4. ASSUME NEW k \in 1 .. Len(gs)
      PROVE  /\ gs[k].base - 1 \in N /\ gs[k].base - 2 \in N
             /\ \A s \in gs[k].base .. End(gs[k]) - 1 : s \notin N
             /\ End(gs[k]) <= bp - 2
             /\ \A l \in k + 1 .. Len(gs) : End(gs[k]) <= gs[l].base - 2
             /\ End(gs[k]) = IF k = Len(gs) THEN bp - 2 ELSE gs[k + 1].base - 2
  <2>1. k \in 1 .. n - 1 /\ gs[k] = fs[k] /\ k \in 1 .. Len(fs) /\ n \in k + 1 .. Len(fs)
    BY <1>0, <1>2
  <2>2. PICK b, e : b = fs[k].base /\ e = End(fs[k])
    OBVIOUS
  <2>3. b \in Nat /\ e \in Nat /\ b <= e
    <3>1. fs[k].base \in Nat /\ fs[k].locals \in Nat /\ fs[k].base <= End(fs[k])
      BY <2>1, FrameFacts
    <3> QED
      BY <3>1, <2>2 DEF End
  <2>4. /\ b - 1 \in M /\ b - 2 \in M
        /\ \A s \in b .. e - 1 : s \notin M
        /\ \A l \in k + 1 .. Len(fs) : e <= fs[l].base - 2
        /\ e = IF k = Len(fs) THEN bp ELSE fs[k + 1].base - 2
    BY <2>1, <2>2 DEF Aligned
  <2>5. e <= bp - 2
    BY <2>1, <2>4, <1>1
  <2>6. b - 1 \in N /\ b - 2 \in N
    <3>1. b - 1 < bp - 2 /\ b - 2 < bp - 2
      BY <2>3, <2>5, <1>1
    <3> QED
      BY <3>1, <2>4
  <2>7. \A s \in b .. e - 1 : s \notin N
    BY <2>4
  <2>8. \A l \in k + 1 .. Len(gs) : e <= gs[l].base - 2
    <3> SUFFICES ASSUME NEW l \in k + 1 .. Len(gs) PROVE e <= gs[l].base - 2
      OBVIOUS
    <3>1. l \in k + 1 .. Len(fs) /\ l \in 1 .. n - 1
      BY <2>1, <1>0, <1>2
    <3> QED
      BY <3>1, <2>4, <1>2
  <2>9. e = IF k = Len(gs) THEN bp - 2 ELSE gs[k + 1].base - 2
    <3>1. CASE k = Len(gs)
      <4>1. k + 1 = n /\ k # Len(fs)
        BY <3>1, <1>0, <1>2
      <4> QED
        BY <4>1, <3>1, <2>4, <1>1
    <3>2. CASE k # Len(gs)
      <4>1. k + 1 \in 1 .. n - 1 /\ k # Len(fs)
        BY <3>2, <2>1, <1>0, <1>2
      <4> QED
        BY <4>1, <3>2, <2>4, <1>2
    <3> QED
      BY <3>1, <3>2
  <2> QED
    BY <2>1, <2>2, <2>5, <2>6, <2>7, <2>8, <2>9
<1> QED
  BY <1>3, <1>4 DEF Aligned

\* A function is entered.
LEMMA EnterKeeps ==
  ASSUME NEW k, Ready(k), NEW c, NEW K, NEW sp,
         Good(c, {}, K, sp, ctx.bp, MarksOf(ctx)), Room(sp, ctx.bp), ctx.bp < sp,
         EnterFrame(PushReturn(c))
  PROVE  Inv'
<1>1. PICK d, bp, M : d = PushReturn(c) /\ bp = ctx.bp /\ M = MarksOf(ctx)
  OBVIOUS
<1>2. EndOfInstruction(d) /\ frames' = Append(frames, Entered(bp + 2))
  BY <1>1 DEF EnterFrame
<1>3. Good(c, {}, K, sp, bp, M) /\ Room(sp, bp) /\ bp < sp
  BY <1>1
<1>4. Good(d, {}, K, sp, bp + 2, M \cup {bp, bp + 1})
  BY <1>1, <1>3, PushReturnGood
<1>5. Running /\ FramesInv(ctx, frames) /\ ctx.state = "RUN"
  BY DEF Ready, Running, Inv, Invariant
<1>6. FramesOK(frames) /\ Aligned(frames, bp, M)
  BY <1>1, <1>5 DEF FramesInv
<1>7. bp \in Nat /\ sp \in Nat /\ sp <= MaxStack - 1 /\ bp + 2 <= MaxStack
  BY <1>3, Constants DEF Room, Slots
<1>8. FramesOK(frames') /\ Aligned(frames', bp + 2, M \cup {bp, bp + 1})
  <2>1. PICK fs, gs, bq, N : /\ fs = frames /\ gs = frames' /\ bq = bp + 2
                             /\ N = M \cup {bp, bp + 1}
    OBVIOUS
  <2>2. Enters(fs, bp, M, gs, bq, N)
    BY <2>1, <1>2, <1>7 DEF Enters
  <2>3. FramesOK(fs) /\ Aligned(fs, bp, M)
    BY <2>1, <1>6
  <2>4. FramesOK(gs) /\ Aligned(gs, bq, N)
    BY <2>2, <2>3, AlignedEnter
  <2> QED
    BY <2>1, <2>4
<1>9. Bounds(sp, bp + 2, M \cup {bp, bp + 1})
  <2>1. M \subseteq {s \in Slots : s < bp}
    BY <1>1 DEF MarksOf
  <2>2. sp \in Slots /\ bp + 2 \in 0 .. MaxStack - 2 + MostPushed
    BY <1>3, <1>7, Constants DEF Room, MostPushed
  <2>3. bp \in Slots /\ bp + 1 \in Slots /\ bp < bp + 2 /\ bp + 1 < bp + 2
    BY <1>7, Constants DEF Slots
  <2>4. \A s \in Slots : s < bp => s < bp + 2
    BY <1>7 DEF Slots
  <2> QED
    BY <2>1, <2>2, <2>3, <2>4 DEF Bounds
<1> QED
  BY <1>2, <1>4, <1>5, <1>8, <1>9, EndKeeps

\* CALL enters a frame.
LEMMA KeepsCALL ==
  ASSUME Inv, CALL
  PROVE  Inv'
<1>1. Ready(0) /\ EnterFrame(PushReturn(ctx))
  BY BodyReady DEF CALL
<1>2. /\ Good(ctx, {}, DOMAIN ctx.mem, ctx.sp, ctx.bp, MarksOf(ctx))
      /\ Room(ctx.sp, ctx.bp) /\ ctx.bp < ctx.sp
  BY <1>1 DEF Ready
<1> QED
  BY <1>1, <1>2, EnterKeeps

\* EXTCALL calls a native method, enters a frame, or ends the run.
LEMMA KeepsEXTCALL ==
  ASSUME Inv, EXTCALL
  PROVE  Inv'
<1>1. Ready(1)
  BY BodyReady DEF EXTCALL
<1>2. PICK e, K, sp : e = vm_pop_stack_arc(ctx) /\ K = DOMAIN ctx.mem /\ sp = ctx.sp + 1
  OBVIOUS
<1>3. PICK len \in Loadable :
        \E c \in {vm_load_constant(e, len)} :
          \/ vm_interface_exec(c)
          \/ EnterFrame(PushReturn(Scratch(c, len + 1)))
          \/ Execute([Scratch(c, len + 1) EXCEPT !.ends = TRUE])
          \/ Execute([Raise(c) EXCEPT !.ends = TRUE])
  BY <1>2 DEF EXTCALL
<1>4. PICK c : c = vm_load_constant(e, len)
  OBVIOUS
<1>5. PICK u : u = Scratch(c, len + 1)
  OBVIOUS
<1>6. \/ vm_interface_exec(c)
      \/ EnterFrame(PushReturn(u))
      \/ Execute([u EXCEPT !.ends = TRUE])
      \/ Execute([Raise(c) EXCEPT !.ends = TRUE])
  BY <1>3, <1>4, <1>5
<1>7. /\ Good(ctx, {}, K, ctx.sp, ctx.bp, MarksOf(ctx))
      /\ Room(ctx.sp, ctx.bp) /\ ctx.sp + 1 \in Slots /\ ctx.bp < ctx.sp /\ ctx.sp \in Nat
      /\ ctx.bp \in Nat /\ len \in Nat
  BY <1>1, <1>2, Constants DEF Ready, Room, Slots
<1>8. Good(e, {}, K, ctx.sp + 1, ctx.bp, MarksOf(ctx)) /\ Room(ctx.sp + 1, ctx.bp)
  BY <1>2, <1>7, PopGood
<1>9. Good(e, {}, K, sp, ctx.bp, MarksOf(ctx)) /\ Room(sp, ctx.bp)
  BY <1>2, <1>8
<1>10. sp \in Slots /\ sp - 1 \in Slots /\ ctx.bp < sp
  BY <1>2, <1>7, Constants DEF Slots
<1>11. Good(c, {}, K \cup {c.obj}, sp, ctx.bp, MarksOf(ctx))
  BY <1>4, <1>7, <1>9, LoadGood
<1>12. PICK L : L = K \cup {c.obj}
  OBVIOUS
<1>13. Good(c, {}, L, sp, ctx.bp, MarksOf(ctx))
  BY <1>11, <1>12
<1>14. len + 1 \in Nat \ {0}
  BY <1>7
<1>15. Good(u, {}, L, sp, ctx.bp, MarksOf(ctx))
  BY <1>5, <1>13, <1>14, ScratchGood
<1>16. CASE vm_interface_exec(c)
  <2>1. CASE c.state = "CRASH"
    <3>1. Good(c, {}, L, ctx.sp, ctx.bp, MarksOf(ctx))
      BY <2>1, <1>13 DEF Good
    <3>2. ctx.sp - 1 \in Slots /\ \A n \in 0 .. 1 : ctx.sp + n \in Slots
      BY <1>1 DEF Ready
    <3>3. \/ \E n \in 0 .. 1, l \in Lens, casts \in BOOLEAN :
               ctx.sp + n \in Slots /\ Execute(PushResult(c, n, l, casts))
          \/ Execute(PushNew(c, 0))
      BY <1>16, <3>2 DEF vm_interface_exec
    <3> QED
      BY <1>1, <1>7, <3>1, <3>2, <3>3, KeepsNativeCall
  <2>2. CASE c.state # "CRASH"
    <3>1. c.sp = sp
      BY <2>2, <1>13 DEF Good, GoodStack
    <3>2. \A n \in 0 .. 1 : n <= Depth(c) => sp + n \in Slots
      BY <3>1, <1>10, Constants DEF Depth, Slots
    <3>3. \/ \E n \in 0 .. 1, l \in Lens, casts \in BOOLEAN :
               sp + n \in Slots /\ Execute(PushResult(c, n, l, casts))
          \/ Execute(PushNew(c, 0))
      BY <1>16, <3>2 DEF vm_interface_exec
    <3> QED
      BY <1>1, <1>9, <1>10, <1>13, <3>3, KeepsNativeCall
  <2> QED
    BY <2>1, <2>2
<1>17. CASE EnterFrame(PushReturn(u))
  BY <1>1, <1>9, <1>10, <1>15, <1>17, EnterKeeps
<1>18. CASE Execute([u EXCEPT !.ends = TRUE])
  <2>1. PICK d : d = [u EXCEPT !.ends = TRUE]
    OBVIOUS
  <2>2. Good(d, {}, L, sp, ctx.bp, MarksOf(ctx))
    BY <2>1, <1>15, EndsGood
  <2> QED
    BY <2>1, <2>2, <1>1, <1>10, <1>18, QuietEnds
<1>19. CASE Execute([Raise(c) EXCEPT !.ends = TRUE])
  <2>1. PICK r : r = Raise(c)
    OBVIOUS
  <2>2. PICK d : d = [r EXCEPT !.ends = TRUE]
    OBVIOUS
  <2>3. Good(r, {}, L, sp, ctx.bp, MarksOf(ctx))
    BY <2>1, <1>13, RaiseGood
  <2>4. Good(d, {}, L, sp, ctx.bp, MarksOf(ctx))
    BY <2>2, <2>3, EndsGood
  <2>5. Execute(d)
    BY <2>1, <2>2, <1>19
  <2> QED
    BY <2>4, <2>5, <1>1, <1>10, QuietEnds
<1> QED
  BY <1>6, <1>16, <1>17, <1>18, <1>19


\* OBJNEW releases the buffer of the class name.
LEMMA KeepsOBJNEW ==
  ASSUME Inv, OBJNEW
  PROVE  Inv'
<1>1. Ready(0)
  BY BodyReady DEF OBJNEW
<1>2. PICK len \in Loadable :
        \E name \in {vm_load_constant(ctx, len)} :
          \/ Execute(vm_release_object(PushCounted(vm_load_class(Alloc(name, len + 1))),
                                       name.obj))
          \/ Execute([Raise(Scratch(name, len + 1)) EXCEPT !.ends = TRUE])
  BY DEF OBJNEW
<1>3. PICK name : name = vm_load_constant(ctx, len)
  OBVIOUS
<1>4. PICK o, sp, bp, M : o = name.obj /\ sp = ctx.sp /\ bp = ctx.bp /\ M = MarksOf(ctx)
  OBVIOUS
<1>5. /\ Good(ctx, {}, DOMAIN ctx.mem, sp, bp, M)
      /\ Room(sp, bp) /\ sp - 1 \in Slots /\ sp \in Slots
      /\ len \in Nat /\ len + 1 \in Nat \ {0} /\ IfaceLen \in Nat
  BY <1>1, <1>4, Constants DEF Ready, Room
<1>6. Good(ctx, {}, {}, sp, bp, M)
  BY <1>5, GoodFewer
<1>7. Good(name, {}, {} \cup {o}, sp, bp, M)
  BY <1>3, <1>4, <1>5, <1>6, LoadGood
<1>8. Good(name, {}, {o}, sp, bp, M)
  BY <1>7
<1>9. CASE Execute([Raise(Scratch(name, len + 1)) EXCEPT !.ends = TRUE])
  <2>1. PICK u : u = Scratch(name, len + 1)
    OBVIOUS
  <2>2. PICK r : r = Raise(u)
    OBVIOUS
  <2>3. PICK d : d = [r EXCEPT !.ends = TRUE]
    OBVIOUS
  <2>4. Good(u, {}, {o}, sp, bp, M)
    BY <2>1, <1>5, <1>8, ScratchGood
  <2>5. Good(r, {}, {o}, sp, bp, M)
    BY <2>2, <2>4, RaiseGood
  <2>6. Good(d, {}, {o}, sp, bp, M)
    BY <2>3, <2>5, EndsGood
  <2>7. Execute(d) /\ Good(d, {}, {o}, sp, ctx.bp, MarksOf(ctx))
    BY <2>1, <2>2, <2>3, <2>6, <1>4, <1>9
  <2> QED
    BY <2>7, <1>1, <1>5, QuietEnds
<1>10. CASE Execute(vm_release_object(PushCounted(vm_load_class(Alloc(name, len + 1))), o))
  <2>1. PICK a : a = Alloc(name, len + 1)
    OBVIOUS
  <2>2. PICK r : r = vm_create_object(a, IfaceLen)
    OBVIOUS
  <2>3. PICK l : l = ReleaseBuffer(r, a)
    OBVIOUS
  <2>4. PICK c : c = vm_push_stack_arc(l, l.obj)
    OBVIOUS
  <2>5. PICK d : d = vm_release_object(c, o)
    OBVIOUS
  <2>6. Good(a, {} \cup {a.obj}, {o}, sp, bp, M) /\ IsNew(name, a, {}, {o})
    BY <2>1, <1>5, <1>8, AllocGood
  <2>7. Good(a, {a.obj}, {o}, sp, bp, M)
    BY <2>6
  <2>8. Good(r, {a.obj}, {o} \cup {r.obj}, sp, bp, M) /\ IsNew(a, r, {a.obj}, {o})
    BY <2>2, <2>7, <1>5, CreateGood
  <2>9. PICK K : K = {o} \cup {r.obj}
    OBVIOUS
  <2>10. Good(r, {a.obj}, K, sp, bp, M) /\ (r.state # "CRASH" => a.obj \in {a.obj})
    BY <2>8, <2>9
  <2>11. /\ Good(l, {a.obj} \ {a.obj}, K, sp, bp, M) /\ l.obj = r.obj
         /\ l.state # "CRASH" => r.state # "CRASH"
    BY <2>3, <2>10, ReleaseBufferGood
  <2>12. Good(l, {}, K, sp, bp, M) /\ (l.state # "CRASH" => l.obj \in Addresses)
    BY <2>8, <2>11 DEF IsNew
  <2>13. Good(c, {}, K, sp - 1, bp, M)
    BY <2>4, <2>12, <1>5, PushArcGood
  <2>14. K # {} /\ o \notin {}
    BY <2>9
  <2>15. Good(d, {}, K \ {o}, sp - 1, bp, M)
    BY <2>5, <2>13, <2>14, ReleaseGood
  <2>16. Execute(d)
    BY <2>1, <2>2, <2>3, <2>4, <2>5, <1>10 DEF PushCounted, vm_load_class
  <2>17. Good(d, {}, K \ {o}, sp - 1, ctx.bp, MarksOf(ctx))
    BY <2>15, <1>4
  <2> QED
    BY <2>16, <2>17, <1>1, <1>5, QuietEnds
<1> QED
  BY <1>2, <1>3, <1>4, <1>9, <1>10

\* What a system call with n arguments starts with.
Called(n, r, K) ==
  /\ Ready(n) /\ Good(ctx, {}, DOMAIN ctx.mem, ctx.sp, ctx.bp, MarksOf(ctx))
  /\ Good(r, {}, K, ctx.sp, ctx.bp, MarksOf(ctx)) /\ DOMAIN ctx.mem \subseteq K
  /\ r.state # "CRASH" => r.obj \in Addresses
  /\ Room(ctx.sp, ctx.bp) /\ ctx.bp < ctx.sp
  /\ ctx.sp + n \in Slots /\ ctx.sp + n - 1 \in Slots
  /\ n > 0 => Argument(ctx, n, 0) \in Addresses

\* A system call creates its return value and finds its arguments.
LEMMA SyscallStarts ==
  ASSUME Inv, NEW op, NEW n \in 0 .. 3, InBody(op, n), NEW r, r = vm_syscall(ctx)
  PROVE  Called(n, r, DOMAIN ctx.mem \cup {r.obj})
<1>1. Ready(n)
  BY BodyReady
<1>2. PICK K : K = DOMAIN ctx.mem
  OBVIOUS
<1>3. /\ Good(ctx, {}, K, ctx.sp, ctx.bp, MarksOf(ctx)) /\ Room(ctx.sp, ctx.bp)
      /\ ctx.bp < ctx.sp /\ ctx.sp + n \in Slots /\ 0 \in Nat
  BY <1>1, <1>2 DEF Ready
<1>4. ctx.sp + n - 1 \in Slots
  <2>1. ctx.sp - 1 \in Slots /\ ctx.sp \in Slots
    BY <1>1 DEF Ready, Room
  <2> QED
    BY <2>1, <1>3, Constants DEF Slots
<1>5. Good(r, {}, K \cup {r.obj}, ctx.sp, ctx.bp, MarksOf(ctx)) /\ IsNew(ctx, r, {}, K)
  BY <1>3, CreateGood DEF vm_syscall
<1>6. n > 0 => Argument(ctx, n, 0) \in Addresses
  <2>1. n > 0 => n \in 1 .. n
    OBVIOUS
  <2>2. n > 0 => ctx.st[ctx.sp + n] \in Addresses
    BY <2>1, <1>1 DEF Ready
  <2>3. ctx.sp + n - 0 = ctx.sp + n
    BY <1>3, Constants DEF Slots
  <2> QED
    BY <2>2, <2>3 DEF Argument
<1> QED
  BY <1>1, <1>2, <1>3, <1>4, <1>5, <1>6 DEF Called, IsNew

\* A system call returns o.
LEMMA SyscallReturns ==
  ASSUME NEW n, n \in 0 .. 3, NEW r, NEW K, Called(n, r, K), NEW e, NEW J, NEW o,
         Good(e, {}, J, ctx.sp, ctx.bp, MarksOf(ctx)), e.state # "CRASH" => o \in Addresses,
         Execute(Return(e, n, o))
  PROVE  Inv'
<1>1. PICK d : d = Return(e, n, o)
  OBVIOUS
<1>2. /\ Ready(n) /\ Room(ctx.sp, ctx.bp) /\ ctx.sp + n \in Slots
      /\ ctx.sp + n - 1 \in Slots
  BY DEF Called
<1>3. Good(d, {}, J, ctx.sp + n - 1, ctx.bp, MarksOf(ctx))
  BY <1>1, <1>2, ReturnGood
<1> QED
  BY <1>1, <1>2, <1>3, QuietEnds

\* A system call raises an exception.
LEMMA SyscallRaises ==
  ASSUME NEW n, n \in 0 .. 3, NEW r, NEW K, Called(n, r, K), NEW e, NEW J,
         Good(e, {}, J, ctx.sp, ctx.bp, MarksOf(ctx)), Execute(Raise(PopN(e, n)))
  PROVE  Inv'
<1>1. PICK p : p = PopN(e, n)
  OBVIOUS
<1>2. PICK d : d = Raise(p)
  OBVIOUS
<1>3. Ready(n) /\ Room(ctx.sp, ctx.bp) /\ ctx.sp + n \in Slots
  BY DEF Called
<1>4. Good(p, {}, J, ctx.sp + n, ctx.bp, MarksOf(ctx))
  BY <1>1, <1>3, PopNGood
<1>5. Good(d, {}, J, ctx.sp + n, ctx.bp, MarksOf(ctx))
  BY <1>2, <1>4, RaiseGood
<1> QED
  BY <1>1, <1>2, <1>3, <1>5, QuietEnds

\* A system call that returns a value.
LEMMA KeepsSyscall ==
  ASSUME Inv, Syscall
  PROVE  Inv'
<1>1. PICK n \in 0 .. 2 :
        /\ InBody("SYSCALL", n)
        /\ \/ Execute(ReturnObj(vm_syscall(ctx), n))
           \/ \E len \in Lens : Execute(ReturnObj(vm_create_object(vm_syscall(ctx), len), n))
  BY DEF Syscall
<1>2. n \in 0 .. 3
  OBVIOUS
<1>3. PICK r : r = vm_syscall(ctx)
  OBVIOUS
<1>4. PICK K : K = DOMAIN ctx.mem \cup {r.obj}
  OBVIOUS
<1>5. Called(n, r, K)
  BY <1>1, <1>2, <1>3, <1>4, SyscallStarts
<1>6. /\ Good(r, {}, K, ctx.sp, ctx.bp, MarksOf(ctx))
      /\ r.state # "CRASH" => r.obj \in Addresses
  BY <1>5 DEF Called
<1>7. CASE Execute(ReturnObj(r, n))
  BY <1>2, <1>5, <1>6, <1>7, SyscallReturns DEF ReturnObj
<1>8. CASE \E len \in Lens : Execute(ReturnObj(vm_create_object(r, len), n))
  <2>1. PICK len \in Lens : Execute(ReturnObj(vm_create_object(r, len), n))
    BY <1>8
  <2>2. PICK e : e = vm_create_object(r, len)
    OBVIOUS
  <2>3. len \in Nat
    BY Constants
  <2>4. Good(e, {}, K \cup {e.obj}, ctx.sp, ctx.bp, MarksOf(ctx)) /\ IsNew(r, e, {}, K)
    BY <2>2, <2>3, <1>6, CreateGood
  <2>5. (e.state # "CRASH" => e.obj \in Addresses) /\ Execute(Return(e, n, e.obj))
    BY <2>1, <2>2, <2>4 DEF IsNew, ReturnObj
  <2> QED
    BY <2>4, <2>5, <1>2, <1>5, SyscallReturns
<1> QED
  BY <1>1, <1>3, <1>7, <1>8

\* A system call that raises.
LEMMA KeepsSyscallFails ==
  ASSUME Inv, SyscallFails
  PROVE  Inv'
<1>1. PICK n \in 0 .. 2 :
        /\ InBody("SYSCALL", n)
        /\ \E c \in {ctx, vm_syscall(ctx)} : Execute(Raise(PopN(c, n)))
  BY DEF SyscallFails
<1>2. n \in 0 .. 3
  OBVIOUS
<1>3. PICK r : r = vm_syscall(ctx)
  OBVIOUS
<1>4. Called(n, r, DOMAIN ctx.mem \cup {r.obj})
  BY <1>1, <1>2, <1>3, SyscallStarts
<1>5. /\ Good(ctx, {}, DOMAIN ctx.mem, ctx.sp, ctx.bp, MarksOf(ctx))
      /\ Good(r, {}, DOMAIN ctx.mem \cup {r.obj}, ctx.sp, ctx.bp, MarksOf(ctx))
  BY <1>4 DEF Called
<1>6. CASE Execute(Raise(PopN(ctx, n)))
  BY <1>2, <1>4, <1>5, <1>6, SyscallRaises
<1>7. CASE Execute(Raise(PopN(r, n)))
  BY <1>2, <1>4, <1>5, <1>7, SyscallRaises
<1> QED
  BY <1>1, <1>3, <1>6, <1>7

\* va_set_var returns its first argument.
LEMMA KeepsSetVar ==
  ASSUME Inv, SetVar
  PROVE  Inv'
<1>1. PICK r, o : r = vm_syscall(ctx) /\ o = Argument(ctx, 3, 0)
  OBVIOUS
<1>2. InBody("SETVAR", 3) /\ Execute(Return([r EXCEPT !.mem[o].mgc = IncCounter(@)], 3, o))
  BY <1>1 DEF SetVar
<1>3. PICK K : K = DOMAIN ctx.mem \cup {r.obj}
  OBVIOUS
<1>4. Called(3, r, K)
  BY <1>1, <1>2, <1>3, SyscallStarts
<1>5. Good(r, {}, K, ctx.sp, ctx.bp, MarksOf(ctx)) /\ o \in Addresses
  BY <1>1, <1>4 DEF Called
<1>6. PICK v : v = IncCounter(r.mem[o].mgc)
  OBVIOUS
<1>7. PICK d : d = WithMgc(r, o, v)
  OBVIOUS
<1>8. d = [r EXCEPT !.mem[o].mgc = IncCounter(@)]
  BY <1>6, <1>7 DEF WithMgc
<1>9. r.state # "CRASH" /\ o \in DOMAIN r.mem => v \in 0 .. 255
  <2>1. SUFFICES ASSUME r.state # "CRASH", o \in DOMAIN r.mem PROVE v \in 0 .. 255
    OBVIOUS
  <2>2. r.mem[o] \in Objects
    BY <2>1, <1>5 DEF Good, GoodHeap, HeapOK, IsMem
  <2>3. PICK b \in 0 .. 255 : b = r.mem[o].mgc
    BY <2>2, ObjectFields
  <2>4. (b - (b % 16)) + ((b + 1) % 16) \in 0 .. 255
    BY Bytes
  <2> QED
    BY <2>3, <2>4, <1>6 DEF IncCounter
<1>10. Good(d, {}, K, ctx.sp, ctx.bp, MarksOf(ctx))
  BY <1>5, <1>7, <1>9, SetMgcGood
<1>11. Execute(Return(d, 3, o)) /\ 3 \in 0 .. 3
  BY <1>2, <1>8
<1> QED
  BY <1>4, <1>5, <1>10, <1>11, SyscallReturns


\* An enumerator is created and references its array.
LEMMA KeepsArgFirst ==
  ASSUME Inv, ArgFirst
  PROVE  Inv'
<1>1. PICK r, o : r = vm_syscall(ctx) /\ o = Argument(ctx, 1, 0)
  OBVIOUS
<1>2. PICK q : q = [r EXCEPT !.mem = vm_object_ref(@, o)]
  OBVIOUS
<1>3. PICK e : e = vm_create_object(q, EnumLen)
  OBVIOUS
<1>4. PICK h : h = Holding(e, o)
  OBVIOUS
<1>5. InBody("FIRST", 1) /\ IsArray(ctx, o) /\ Execute(Return(h, 1, h.obj))
  BY <1>1, <1>2, <1>3, <1>4 DEF ArgFirst, ReturnObj
<1>6. PICK K : K = DOMAIN ctx.mem \cup {r.obj}
  OBVIOUS
<1>7. Called(1, r, K) /\ 1 \in 0 .. 3 /\ o \in K
  BY <1>1, <1>5, <1>6, SyscallStarts DEF IsArray
<1>8. Good(r, {}, K, ctx.sp, ctx.bp, MarksOf(ctx)) /\ o \in Addresses
  BY <1>1, <1>7 DEF Called
<1>9. Good(q, {}, K, ctx.sp, ctx.bp, MarksOf(ctx))
  <2>1. IsCtx(r) /\ (r.state # "CRASH" => IsMem(r.mem) /\ r.obj \in Addresses /\ o \in DOMAIN r.mem)
    BY <1>7, <1>8 DEF Good, GoodHeap, HeapOK, GoodStack
  <2>2. SameButMem(r, q) /\ q.mem = vm_object_ref(r.mem, o)
    BY <2>1, <1>2 DEF IsCtx, Fields, SameButMem, SameStacks
  <2>3. r.state # "CRASH" => Retyped(r.mem, q.mem)
    BY <2>1, <2>2, RefRetypes
  <2>4. PICK x : x = q
    OBVIOUS
  <2>5. SameButMem(r, x) /\ (r.state # "CRASH" => Retyped(r.mem, x.mem))
    BY <2>2, <2>3, <2>4, Zenon
  <2>6. Good(x, {}, K, ctx.sp, ctx.bp, MarksOf(ctx))
    BY <2>5, <1>8, MemGood, Zenon
  <2> QED
    BY <2>4, <2>6, Zenon
<1>10. EnumLen \in Nat
  BY Constants
<1>11. Good(e, {}, K \cup {e.obj}, ctx.sp, ctx.bp, MarksOf(ctx)) /\ IsNew(q, e, {}, K)
  BY <1>3, <1>9, <1>10, CreateGood
<1>12. PICK L : L = K \cup {e.obj}
  OBVIOUS
<1>13. Good(e, {}, L, ctx.sp, ctx.bp, MarksOf(ctx)) /\ (e.state # "CRASH" => e.obj \in Addresses)
  BY <1>11, <1>12 DEF IsNew
<1>14. Good(h, {}, L, ctx.sp, ctx.bp, MarksOf(ctx)) /\ h.obj = e.obj /\ h.state = e.state
  <2>1. CASE e.obj = NULL
    BY <2>1, <1>4, <1>13 DEF Holding
  <2>2. CASE e.obj # NULL
    <3>1. h = WithHolds(e, e.obj, o)
      BY <2>2, <1>4 DEF Holding, WithHolds
    <3> QED
      BY <3>1, <1>8, <1>13, SetHoldsGood
  <2> QED
    BY <2>1, <2>2
<1>15. h.state # "CRASH" => h.obj \in Addresses
  BY <1>13, <1>14
<1> QED
  BY <1>5, <1>7, <1>14, <1>15, SyscallReturns

\* An array has a counter.
LEMMA CountIsNat ==
  ASSUME Inv, NEW o, IsArray(ctx, o)
  PROVE  Count(ctx.mem[o]) \in Nat
<1>1. ctx.mem[o] \in Objects
  BY DEF Inv, Invariant, HeapInv, HeapOK, IsMem, IsArray
<1>2. PICK b \in 0 .. 255 : b = ctx.mem[o].mgc
  BY <1>1, ObjectFields
<1>3. b % 16 \in 0 .. 15
  BY Bytes
<1> QED
  BY <1>2, <1>3 DEF Count

\* va_arg_add replaces the array by a longer one.
LEMMA KeepsArgAdd ==
  ASSUME Inv, ArgAdd
  PROVE  Inv'
<1>1. PICK n \in 2 .. 3, len \in Lens \ {0} :
        /\ InBody("ARGADD", n)
        /\ \E o \in {Argument(ctx, n, 0)} :
             /\ MayChange(o)
             /\ Execute(ReturnObj(ReplaceArray(vm_syscall(ctx), o, len,
                                               Count(ctx.mem[o]) + 1), n))
  BY DEF ArgAdd
<1>2. PICK r, o : r = vm_syscall(ctx) /\ o = Argument(ctx, n, 0)
  OBVIOUS
<1>3. PICK refs : refs = Count(ctx.mem[o]) + 1
  OBVIOUS
<1>4. PICK d : d = ReplaceArray(r, o, len, refs)
  OBVIOUS
<1>5. IsArray(ctx, o) /\ Execute(Return(d, n, d.obj))
  BY <1>1, <1>2, <1>3, <1>4 DEF MayChange, ReturnObj
<1>6. n \in 0 .. 3 /\ n > 0
  OBVIOUS
<1>7. PICK K : K = DOMAIN ctx.mem \cup {r.obj}
  OBVIOUS
<1>8. Called(n, r, K)
  BY <1>1, <1>2, <1>6, <1>7, SyscallStarts
<1>9. Good(r, {}, K, ctx.sp, ctx.bp, MarksOf(ctx)) /\ o \in Addresses
  BY <1>2, <1>6, <1>8 DEF Called
<1>10. len \in Nat /\ refs \in Nat
  BY <1>3, <1>5, CountIsNat, Constants
<1>11. /\ Good(d, {}, (K \cup {d.obj}) \ {o}, ctx.sp, ctx.bp, MarksOf(ctx))
       /\ d.state # "CRASH" => d.obj \in Addresses
  BY <1>4, <1>9, <1>10, ReplaceGood
<1> QED
  BY <1>5, <1>6, <1>8, <1>11, SyscallReturns

\* va_arg_pop replaces it by a shorter one.
LEMMA KeepsArgPop ==
  ASSUME Inv, ArgPop
  PROVE  Inv'
<1>1. PICK len \in Lens \ {0}, o \in {Argument(ctx, 1, 0)} :
        /\ MayChange(o)
        /\ \E elem \in {vm_create_object(vm_syscall(ctx), n) : n \in Lens} :
             Execute(Return(ReplaceArray(elem, o, len, Count(ctx.mem[o])), 1, elem.obj))
  BY DEF ArgPop
<1>2. InBody("ARGADD", 1)
  BY DEF ArgPop
<1>3. PICK r : r = vm_syscall(ctx)
  OBVIOUS
<1>4. PICK n \in Lens :
        Execute(Return(ReplaceArray(vm_create_object(r, n), o, len, Count(ctx.mem[o])), 1,
                       vm_create_object(r, n).obj))
  BY <1>1, <1>3
<1>5. PICK elem : elem = vm_create_object(r, n)
  OBVIOUS
<1>6. PICK refs : refs = Count(ctx.mem[o])
  OBVIOUS
<1>7. PICK d : d = ReplaceArray(elem, o, len, refs)
  OBVIOUS
<1>8. IsArray(ctx, o) /\ Execute(Return(d, 1, elem.obj))
  BY <1>1, <1>4, <1>5, <1>6, <1>7 DEF MayChange
<1>9. PICK K : K = DOMAIN ctx.mem \cup {r.obj}
  OBVIOUS
<1>10. Called(1, r, K) /\ 1 \in 0 .. 3
  BY <1>2, <1>3, <1>9, SyscallStarts
<1>11. Good(r, {}, K, ctx.sp, ctx.bp, MarksOf(ctx)) /\ o \in Addresses
  BY <1>10 DEF Called
<1>12. len \in Nat /\ refs \in Nat /\ n \in Nat
  BY <1>6, <1>8, CountIsNat, Constants
<1>13. Good(elem, {}, K \cup {elem.obj}, ctx.sp, ctx.bp, MarksOf(ctx)) /\ IsNew(r, elem, {}, K)
  BY <1>5, <1>11, <1>12, CreateGood
<1>14. PICK L : L = K \cup {elem.obj}
  OBVIOUS
<1>15. Good(elem, {}, L, ctx.sp, ctx.bp, MarksOf(ctx))
  BY <1>13, <1>14
<1>16. /\ Good(d, {}, (L \cup {d.obj}) \ {o}, ctx.sp, ctx.bp, MarksOf(ctx))
       /\ d.state # "CRASH" => elem.state # "CRASH"
  BY <1>7, <1>11, <1>12, <1>15, ReplaceGood
<1>17. d.state # "CRASH" => elem.obj \in Addresses
  BY <1>13, <1>16 DEF IsNew
<1> QED
  BY <1>8, <1>10, <1>16, <1>17, SyscallReturns

\* Three operands are popped, the first one right above the frames.
LEMMA PopThreeGood ==
  ASSUME NEW c, NEW B, NEW K, NEW sp, NEW bp, NEW M, NEW d,
         Good(c, B, K, sp, bp, M), sp \in Int, Room(sp + 1, bp), sp + 3 \in Slots,
         d = PopN(c, 3)
  PROVE  Good(d, B, K, sp + 3, bp, M) /\ Room(sp + 3, bp) /\ d.state = c.state
<1>1. PopN(c, 3) = Pops!Times(c, 3)
  BY Zenon DEF PopN, Pops!Times
<1>2. PICK f : f[0] = c /\ (\A j \in 1 .. 3 : f[j] = vm_pop_stack_arc(f[j - 1])) /\ d = f[3]
  <2>1. 3 \in Nat
    OBVIOUS
  <2> QED
    BY <2>1, <1>1, Pops!TimesUnrolls
<1>3. /\ f[1] = vm_pop_stack_arc(c) /\ f[2] = vm_pop_stack_arc(f[1])
      /\ d = vm_pop_stack_arc(f[2])
  <2>1. 1 \in 1 .. 3 /\ 2 \in 1 .. 3 /\ 3 \in 1 .. 3 /\ 1 - 1 = 0 /\ 2 - 1 = 1 /\ 3 - 1 = 2
    OBVIOUS
  <2> QED
    BY <2>1, <1>2
<1>4. PICK s, t : s = sp + 1 /\ t = sp + 2
  OBVIOUS
<1>5. /\ Room(s, bp) /\ s + 1 = t /\ t + 1 = sp + 3
      /\ s + 1 \in Slots /\ t + 1 \in Slots
  BY <1>4, Constants DEF Room, Slots
<1>6. Good(f[1], B, K, sp + 1, bp, M) /\ f[1].state = c.state
  BY <1>3, PopLowGood
<1>7. Good(f[1], B, K, s, bp, M)
  BY <1>4, <1>6
<1>8. Good(f[2], B, K, s + 1, bp, M) /\ Room(s + 1, bp) /\ f[2].state = f[1].state
  BY <1>3, <1>5, <1>7, PopGood
<1>9. Good(f[2], B, K, t, bp, M) /\ Room(t, bp)
  BY <1>5, <1>8
<1>10. Good(d, B, K, t + 1, bp, M) /\ Room(t + 1, bp) /\ d.state = f[2].state
  BY <1>3, <1>5, <1>9, PopGood
<1> QED
  BY <1>5, <1>6, <1>8, <1>10

\* The arguments that are pushed once more.
LEMMA PushAgainGood ==
  ASSUME NEW c, NEW K, NEW sp, NEW bp, NEW M, NEW n, NEW k, NEW d,
         Good(c, {}, K, sp, bp, M), Room(sp, bp), bp < sp, n \in 1 .. 3, k \in 0 .. 2,
         k < n, c.state # "CRASH" => \A j \in 1 .. n - 1 : Argument(c, n, j) \in Addresses,
         d = PushAgain(c, n, k)
  PROVE  Good(d, {}, K, sp - k, bp, M)
<1>1. sp \in Int /\ bp \in Int /\ Room(sp - 1, bp)
  BY Constants DEF Room, Slots
<1>2. CASE k = 0
  <2>1. d = c /\ sp - k = sp
    BY <1>1, <1>2 DEF PushAgain
  <2> QED
    BY <2>1
<1>3. CASE k = 1
  <2>1. PICK a : a = Argument(c, n, 1)
    OBVIOUS
  <2>2. c.state # "CRASH" => a \in Addresses
    BY <1>3, <2>1
  <2>3. d = vm_push_stack_arc(c, a)
    BY <1>3, <2>1 DEF PushAgain
  <2>4. Good(d, {}, K, sp - 1, bp, M)
    BY <2>2, <2>3, PushArcGood
  <2> QED
    BY <1>3, <2>4
<1>4. CASE k = 2
  <2>1. PICK a, b : a = Argument(c, n, 1) /\ b = Argument(c, n, 2)
    OBVIOUS
  <2>2. c.state # "CRASH" => a \in Addresses /\ b \in Addresses
    BY <1>4, <2>1
  <2>3. PICK e, s : e = vm_push_stack_arc(c, b) /\ s = sp - 1
    OBVIOUS
  <2>4. d = vm_push_stack_arc(e, a)
    BY <1>4, <2>1, <2>3 DEF PushAgain
  <2>5. Good(e, {}, K, sp - 1, bp, M) /\ e.state = c.state
    BY <2>2, <2>3, PushArcGood
  <2>6. Good(e, {}, K, s, bp, M) /\ Room(s, bp) /\ (e.state # "CRASH" => a \in Addresses)
    BY <2>2, <2>3, <2>5, <1>1
  <2>7. Good(d, {}, K, s - 1, bp, M)
    BY <2>4, <2>6, PushArcGood
  <2>8. s - 1 = sp - k
    BY <1>1, <1>4, <2>3
  <2> QED
    BY <2>7, <2>8
<1> QED
  BY <1>2, <1>3, <1>4

\* An API of arrays calls a method of a native instance.
LEMMA KeepsArgNative ==
  ASSUME Inv, ArgNative
  PROVE  Inv'
<1>1. PICK n \in 1 .. 3, k \in 0 .. 2 :
        /\ k = n - 1 \/ (n = 3 /\ k = 1)
        /\ InBody("NATIVE", n)
        /\ \E c \in {PushAgain(vm_syscall(ctx), n, k)} :
             \/ \E len \in Lens, casts \in BOOLEAN :
                  Execute(ReturnObj(vm_interface_exec_sta(c, k, len, casts), n))
             \/ Execute(ReturnObj(vm_create_object(c, 0), n))
  BY DEF ArgNative
<1>2. PICK r : r = vm_syscall(ctx)
  OBVIOUS
<1>3. PICK c : c = PushAgain(r, n, k)
  OBVIOUS
<1>4. \/ \E len \in Lens, casts \in BOOLEAN :
           Execute(ReturnObj(vm_interface_exec_sta(c, k, len, casts), n))
      \/ Execute(ReturnObj(vm_create_object(c, 0), n))
  BY <1>1, <1>2, <1>3
<1>5. PICK K, sp, bp, M :
        K = DOMAIN ctx.mem \cup {r.obj} /\ sp = ctx.sp /\ bp = ctx.bp /\ M = MarksOf(ctx)
  OBVIOUS
<1>6. n \in 0 .. 3 /\ k < n
  BY <1>1
<1>7. Called(n, r, K)
  BY <1>1, <1>2, <1>5, <1>6, SyscallStarts
<1>8. /\ Ready(n) /\ Good(r, {}, K, sp, bp, M) /\ Room(sp, bp) /\ bp < sp
      /\ sp + n \in Slots /\ sp + n - 1 \in Slots /\ sp \in Int /\ bp \in Int
  BY <1>5, <1>7 DEF Called, Room, Slots
<1>9. r.state # "CRASH" => \A j \in 1 .. n - 1 : Argument(r, n, j) \in Addresses
  <2> SUFFICES ASSUME r.state # "CRASH", NEW j \in 1 .. n - 1
               PROVE  Argument(r, n, j) \in Addresses
    OBVIOUS
  <2>1. StackOK(r.st, sp, bp, M) /\ r.sp = sp
    BY <1>8 DEF Good, GoodStack
  <2>2. PICK s : s = sp + n - j
    OBVIOUS
  <2>3. s \in Slots /\ s > sp
    BY <2>2, <1>8, Constants DEF Room, Slots
  <2>4. r.st[s] \in Addresses
    BY <2>1, <2>3, OperandAddress
  <2> QED
    BY <2>1, <2>2, <2>4 DEF Argument
<1>10. Good(c, {}, K, sp - k, bp, M)
  BY <1>3, <1>6, <1>8, <1>9, PushAgainGood
<1>11. PICK low : low = sp - k
  OBVIOUS
<1>12. /\ Good(c, {}, K, low, bp, M) /\ low \in Int /\ low + k = sp
       /\ Room(low + k, bp)
  BY <1>8, <1>10, <1>11
<1>13. ASSUME NEW len \in Lens, NEW casts \in BOOLEAN,
              Execute(ReturnObj(vm_interface_exec_sta(c, k, len, casts), n))
       PROVE  Inv'
  <2>1. PICK e : e = vm_interface_exec_sta(c, k, len, casts)
    OBVIOUS
  <2>2. len \in Nat
    BY Constants
  <2>3. Good(e, {}, K, low + k, bp, M) /\ (e.state # "CRASH" => e.obj \in Addresses)
    BY <2>1, <2>2, <1>12, NativeGood
  <2>4. Good(e, {}, K, ctx.sp, ctx.bp, MarksOf(ctx))
    BY <2>3, <1>5, <1>12
  <2>5. Execute(Return(e, n, e.obj))
    BY <1>13, <2>1 DEF ReturnObj
  <2> QED
    BY <2>3, <2>4, <2>5, <1>6, <1>7, SyscallReturns
<1>14. ASSUME Execute(ReturnObj(vm_create_object(c, 0), n)) PROVE Inv'
  <2>1. PICK e, o : e = vm_create_object(c, 0) /\ o = e.obj
    OBVIOUS
  <2>2. Good(e, {}, K \cup {e.obj}, low, bp, M) /\ IsNew(c, e, {}, K)
    BY <2>1, <1>12, CreateGood
  <2>3. Good(e, {}, K, low, bp, M)
    BY <2>2, GoodFewer
  <2>4. PICK p : p = PopN(e, n)
    OBVIOUS
  <2>5. PICK d : d = vm_push_stack(p, o)
    OBVIOUS
  <2>6. Execute(d)
    BY <1>14, <2>1, <2>4, <2>5 DEF ReturnObj, Return
  <2>7. e.state # "CRASH" => o \in Addresses
    BY <2>1, <2>2 DEF IsNew
  <2>8. PICK s : s = low + n
    OBVIOUS
  <2>9. s \in Slots /\ s - 1 \in Slots /\ Room(s, bp)
    BY <2>8, <1>6, <1>8, <1>11, Constants DEF Room, Slots
  <2>10. Good(p, {}, K, low + n, bp, M) /\ p.state = e.state
    <3>1. CASE k = 2
      <4>1. n = 3
        BY <3>1, <1>1
      <4>2. Room(low + 1, bp) /\ low + 3 \in Slots
        BY <3>1, <4>1, <1>8, <1>11, <2>8, <2>9, Constants DEF Room, Slots
      <4>3. p = PopN(e, 3)
        BY <4>1, <2>4
      <4>4. Good(p, {}, K, low + 3, bp, M) /\ p.state = e.state
        BY <4>2, <4>3, <2>3, <1>12, PopThreeGood
      <4> QED
        BY <4>1, <4>4
    <3>2. CASE k # 2
      <4>1. Room(low, bp) /\ low + n \in Slots
        BY <3>2, <1>8, <1>11, <2>8, <2>9, Constants DEF Room, Slots
      <4> QED
        BY <4>1, <2>3, <2>4, <1>6, PopNGood
    <3> QED
      BY <3>1, <3>2
  <2>11. Good(p, {}, K, s, bp, M) /\ (p.state # "CRASH" => o \in Addresses)
    BY <2>7, <2>8, <2>10
  <2>12. Good(d, {}, K, s - 1, bp, M)
    BY <2>5, <2>9, <2>11, PushGood
  <2>13. Good(d, {}, K, s - 1, ctx.bp, MarksOf(ctx))
    BY <2>12, <1>5
  <2> QED
    BY <2>6, <2>9, <2>13, <1>8, QuietEnds
<1> QED
  BY <1>4, <1>13, <1>14

\* va_sys_exec enters the frame of a function object.
LEMMA KeepsSysExec ==
  ASSUME Inv, SysExec
  PROVE  Inv'
<1>1. PICK n \in 1 .. 2 :
        InBody("EXEC", n) /\ EnterFrame(PushReturn(TakeFirstArgument(vm_syscall(ctx), n)))
  BY DEF SysExec
<1>2. PICK r : r = vm_syscall(ctx)
  OBVIOUS
<1>3. PICK d : d = TakeFirstArgument(r, n)
  OBVIOUS
<1>4. PICK K : K = DOMAIN ctx.mem \cup {r.obj}
  OBVIOUS
<1>5. n \in 0 .. 3
  OBVIOUS
<1>6. Called(n, r, K)
  BY <1>1, <1>2, <1>4, <1>5, SyscallStarts
<1>7. /\ Good(r, {}, K, ctx.sp, ctx.bp, MarksOf(ctx)) /\ Ready(n)
      /\ Room(ctx.sp, ctx.bp) /\ ctx.bp < ctx.sp /\ ctx.sp + n \in Slots
  BY <1>6 DEF Called
<1>8. Good(d, {}, K, ctx.sp + 1, ctx.bp, MarksOf(ctx)) /\ Room(ctx.sp + 1, ctx.bp)
  BY <1>3, <1>7, TakeFirstGood
<1>9. ctx.bp < ctx.sp + 1
  BY <1>7, Constants DEF Room, Slots
<1>10. EnterFrame(PushReturn(d))
  BY <1>1, <1>2, <1>3
<1> QED
  BY <1>7, <1>8, <1>9, <1>10, EnterKeeps

\* va_sys_exec with the wrong number of arguments raises.
LEMMA KeepsSysExecMismatch ==
  ASSUME Inv, SysExecMismatch
  PROVE  Inv'
<1>1. PICK n \in 1 .. 2 :
        /\ InBody("EXEC", n)
        /\ Execute(Raise(PopN([vm_syscall(ctx) EXCEPT !.mem = Dec(@, Argument(ctx, n, 0))], n)))
  BY DEF SysExecMismatch
<1>2. PICK r, o : r = vm_syscall(ctx) /\ o = Argument(ctx, n, 0)
  OBVIOUS
<1>3. PICK q : q = [r EXCEPT !.mem = Dec(@, o)]
  OBVIOUS
<1>4. PICK K : K = DOMAIN ctx.mem \cup {r.obj}
  OBVIOUS
<1>5. n \in 0 .. 3
  OBVIOUS
<1>6. Called(n, r, K)
  BY <1>1, <1>2, <1>4, <1>5, SyscallStarts
<1>7. Good(r, {}, K, ctx.sp, ctx.bp, MarksOf(ctx))
  BY <1>6 DEF Called
<1>8. Good(q, {}, K, ctx.sp, ctx.bp, MarksOf(ctx))
  <2>1. IsCtx(r) /\ (r.state # "CRASH" => IsMem(r.mem) /\ r.obj \in Addresses)
    BY <1>7 DEF Good, GoodHeap, HeapOK, GoodStack
  <2>2. SameButMem(r, q) /\ q.mem = Dec(r.mem, o)
    BY <2>1, <1>3 DEF IsCtx, Fields, SameButMem, SameStacks
  <2>3. r.state # "CRASH" => Retyped(r.mem, q.mem)
    BY <2>1, <2>2, DecRetypes
  <2>4. PICK x : x = q
    OBVIOUS
  <2>5. SameButMem(r, x) /\ (r.state # "CRASH" => Retyped(r.mem, x.mem))
    BY <2>2, <2>3, <2>4, Zenon
  <2>6. Good(x, {}, K, ctx.sp, ctx.bp, MarksOf(ctx))
    BY <2>5, <1>7, MemGood, Zenon
  <2> QED
    BY <2>4, <2>6, Zenon
<1>9. Execute(Raise(PopN(q, n)))
  BY <1>1, <1>2, <1>3
<1> QED
  BY <1>5, <1>6, <1>8, <1>9, SyscallRaises


-----------------------------------------------------------------------------
(***************************************************************************)
(* The variables of a function.                                            *)
(***************************************************************************)
Stores == INSTANCE Iteration WITH Step <- StoreOne

\* One variable is stored, on a heap that may still be empty.
LEMMA StoreOneGood ==
  ASSUME NEW c, NEW sp, NEW bp, NEW M, NEW d,
         IsCtx(c), c.state \in States,
         c.state # "CRASH" => HeapOK(c.chain, c.mem, {}) /\ GoodStack(c, sp, bp, M),
         bp \in Nat, bp \notin M, d = StoreOne(c)
  PROVE  Good(d, {}, {}, sp, bp + 1, M)
<1>1. PICK e : e = vm_create_object(c, 0)
  OBVIOUS
<1>2. /\ 0 \in Nat
      /\ c.state # "CRASH" =>
           HeapOK(c.chain, c.mem, {}) /\ {} \subseteq DOMAIN c.mem /\ GoodStack(c, sp, bp, M)
  OBVIOUS
<1>3. Good(e, {}, {} \cup {e.obj}, sp, bp, M)
  BY <1>1, <1>2, CreateFirst
<1>4. Good(e, {}, {}, sp, bp, M)
  BY <1>3, GoodFewer
<1>5. d = PushVariable(e)
  BY <1>1 DEF StoreOne
<1> QED
  BY <1>4, <1>5, PushVariableGood

\* INS_SCTX: n variables are stored.
LEMMA StoreContextGood ==
  ASSUME NEW c, NEW sp, NEW bp, NEW M, NEW n, NEW d,
         IsCtx(c), c.state \in States,
         c.state # "CRASH" => HeapOK(c.chain, c.mem, {}) /\ GoodStack(c, sp, bp, M),
         bp \in Nat, \A s \in M : s \in Nat /\ s < bp, n \in Nat \ {0}, d = StoreContext(c, n)
  PROVE  Good(d, {}, {}, sp, bp + n, M)
<1>1. StoreContext(c, n) = Stores!Times(c, n)
  BY Zenon DEF StoreContext, Stores!Times
<1>2. PICK f : f[0] = c /\ (\A j \in 1 .. n : f[j] = StoreOne(f[j - 1])) /\ d = f[n]
  BY <1>1, Stores!TimesUnrolls
<1> DEFINE T == {j \in 1 .. n : ~Good(f[j], {}, {}, sp, bp + j, M)}
<1>3. SUFFICES T = {}
  BY <1>2
<1>4. SUFFICES ASSUME T # {} PROVE FALSE
  OBVIOUS
<1>5. T \in SUBSET Nat
  OBVIOUS
<1>6. PICK m \in T : \A k \in T : m <= k
  BY <1>4, <1>5, Stores!LeastPass
<1>7. m \in 1 .. n /\ f[m] = StoreOne(f[m - 1])
  BY <1>2
<1>8. \A j \in Nat : bp + j \notin M
  OBVIOUS
<1>9. CASE m = 1
  <2>1. f[1] = StoreOne(c) /\ bp \notin M
    BY <1>2, <1>7, <1>9
  <2>2. Good(f[1], {}, {}, sp, bp + 1, M)
    BY <2>1, StoreOneGood
  <2> QED
    BY <2>2, <1>9
<1>10. CASE m # 1
  <2>1. m - 1 \in 1 .. n /\ m - 1 \notin T
    BY <1>6, <1>7, <1>10
  <2>2. PICK bq, e : bq = bp + (m - 1) /\ e = f[m - 1]
    OBVIOUS
  <2>3. Good(e, {}, {}, sp, bq, M)
    BY <2>1, <2>2
  <2>4. bq \in Nat /\ bq \notin M /\ bq + 1 = bp + m
    BY <2>1, <2>2, <1>7, <1>8
  <2>5. /\ IsCtx(e) /\ e.state \in States
        /\ e.state # "CRASH" => HeapOK(e.chain, e.mem, {}) /\ GoodStack(e, sp, bq, M)
    BY <2>3 DEF Good, GoodHeap
  <2>6. PICK g : g = f[m]
    OBVIOUS
  <2>7. g = StoreOne(e)
    BY <2>2, <2>6, <1>7
  <2>8. Good(g, {}, {}, sp, bq + 1, M)
    BY <2>4, <2>5, <2>7, StoreOneGood
  <2> QED
    BY <2>4, <2>6, <2>8
<1> QED
  BY <1>9, <1>10


\* A variable is popped and an empty object left in its slot.
LEMMA LeaveEmptyGood ==
  ASSUME NEW c, NEW K, NEW sp, NEW bp, NEW M, NEW d,
         Good(c, {}, K, sp, bp, M), bp \in Nat, d = LeaveEmpty(c)
  PROVE  Good(d, {}, K, sp, bp, M)
<1>1. IsCtx(c) /\ c.state \in States
  BY DEF Good
<1>2. /\ IsCtx(d) /\ d.chain = c.chain /\ d.state = c.state /\ d.ends = c.ends
      /\ d.obj = c.obj /\ d.sp = c.sp /\ d.bp = c.bp
      /\ d.mem = Dec(c.mem, c.st[c.bp]) /\ d.st = [c.st EXCEPT ![c.bp] = c.obj]
  BY <1>1 DEF LeaveEmpty, IsCtx, Fields
<1>3. ASSUME c.state # "CRASH"
      PROVE  GoodHeap(d, {}, K) /\ GoodStack(d, sp, bp, M)
  <2>1. GoodHeap(c, {}, K) /\ GoodStack(c, sp, bp, M)
    BY <1>3 DEF Good
  <2>2. IsMem(c.mem) /\ HeapOK(c.chain, c.mem, {})
    BY <2>1 DEF GoodHeap, HeapOK
  <2>3. PICK m : m = d.mem
    OBVIOUS
  <2>4. Retyped(c.mem, m)
    BY <2>2, <2>3, <1>2, DecRetypes
  <2>5. HeapOK(c.chain, m, {}) /\ DOMAIN m = DOMAIN c.mem
    BY <2>2, <2>4, RetypedHeap DEF Retyped
  <2>6. GoodHeap(d, {}, K)
    BY <2>1, <2>3, <2>5, <1>2 DEF GoodHeap
  <2>7. StackOK(c.st, sp, bp, M) /\ c.obj \in Addresses /\ c.bp = bp
    BY <2>1 DEF GoodStack
  <2>8. PICK t : t = [c.st EXCEPT ![bp] = c.obj]
    OBVIOUS
  <2>9. StackOK(t, sp, bp, M)
    <3>1. c.obj # RetMark
      BY <2>7, Constants DEF Addresses, RetMark
    <3>2. t \in [Slots -> {RetMark} \cup Addresses]
      BY <2>7, <2>8 DEF StackOK
    <3>3. \A s \in Slots : t[s] = IF s = bp THEN c.obj ELSE c.st[s]
      BY <2>7, <2>8 DEF StackOK
    <3>4. \A s \in Slots : s < bp => s # bp
      BY DEF Slots
    <3> QED
      BY <3>1, <3>2, <3>3, <3>4, <2>7 DEF StackOK
  <2>10. GoodStack(d, sp, bp, M)
    BY <2>1, <2>7, <2>8, <2>9, <1>2 DEF GoodStack
  <2> QED
    BY <2>6, <2>10
<1>4. d.state # "CRASH" => GoodHeap(d, {}, K) /\ GoodStack(d, sp, bp, M)
  BY <1>2, <1>3
<1> QED
  BY <1>1, <1>2, <1>4 DEF Good

\* One pass of the loop of INS_RCTX.
LEMMA RestoreOneGood ==
  ASSUME NEW c, NEW sp, NEW bp, NEW M, NEW d,
         Good(c, {}, {}, sp, bp, M), bp \in Nat \ {0}, d = RestoreOne(c)
  PROVE  Good(d, {}, {}, sp, bp - 1, M)
<1>1. PICK e, bq : e = [c EXCEPT !.bp = @ - 1] /\ bq = bp - 1
  OBVIOUS
<1>2. Good(e, {}, {}, sp, bq, M)
  <2>1. IsCtx(c) /\ c.state \in States
    BY DEF Good
  <2>2. /\ IsCtx(e) /\ e.chain = c.chain /\ e.state = c.state /\ e.ends = c.ends
        /\ e.obj = c.obj /\ e.sp = c.sp /\ e.bp = c.bp - 1
        /\ e.mem = c.mem /\ e.st = c.st
    BY <2>1, <1>1 DEF IsCtx, Fields
  <2>3. \A s \in Slots : s < bq => s < bp
    BY <1>1 DEF Slots
  <2>4. ASSUME c.state # "CRASH" PROVE GoodHeap(e, {}, {}) /\ GoodStack(e, sp, bq, M)
    <3>1. GoodHeap(c, {}, {}) /\ GoodStack(c, sp, bp, M)
      BY <2>4 DEF Good
    <3>2. GoodHeap(e, {}, {})
      BY <3>1, <2>2 DEF GoodHeap
    <3>3. StackOK(c.st, sp, bq, M)
      BY <3>1, <2>3 DEF GoodStack, StackOK
    <3> QED
      BY <3>1, <3>2, <3>3, <2>2, <1>1 DEF GoodStack
  <2>5. e.state # "CRASH" => GoodHeap(e, {}, {}) /\ GoodStack(e, sp, bq, M)
    BY <2>2, <2>4
  <2> QED
    BY <2>1, <2>2, <2>5 DEF Good
<1>3. PICK g : g = vm_create_object(e, 0)
  OBVIOUS
<1>4. 0 \in Nat /\ bq \in Nat
  BY <1>1
<1>5. Good(g, {}, {} \cup {g.obj}, sp, bq, M)
  BY <1>2, <1>3, <1>4, CreateGood
<1>6. Good(g, {}, {}, sp, bq, M)
  BY <1>5, GoodFewer
<1>7. d = LeaveEmpty(g)
  BY <1>1, <1>3 DEF RestoreOne
<1>8. Good(d, {}, {}, sp, bq, M)
  BY <1>4, <1>6, <1>7, LeaveEmptyGood
<1> QED
  BY <1>1, <1>8

Restores == INSTANCE Iteration WITH Step <- RestoreOne

\* INS_RCTX: n variables are popped.
LEMMA RestoreContextGood ==
  ASSUME NEW c, NEW sp, NEW bp, NEW M, NEW n, NEW d,
         Good(c, {}, {}, sp, bp, M), n \in Nat, bp \in Nat, n <= bp, d = RestoreContext(c, n)
  PROVE  Good(d, {}, {}, sp, bp - n, M)
<1>1. RestoreContext(c, n) = Restores!Times(c, n)
  BY Zenon DEF RestoreContext, Restores!Times
<1>2. PICK f : f[0] = c /\ (\A j \in 1 .. n : f[j] = RestoreOne(f[j - 1])) /\ d = f[n]
  BY <1>1, Restores!TimesUnrolls
<1> DEFINE T == {j \in 0 .. n : ~Good(f[j], {}, {}, sp, bp - j, M)}
<1>3. SUFFICES T = {}
  BY <1>2
<1>4. SUFFICES ASSUME T # {} PROVE FALSE
  OBVIOUS
<1>5. T \in SUBSET Nat
  OBVIOUS
<1>6. PICK m \in T : \A k \in T : m <= k
  BY <1>4, <1>5, Restores!LeastPass
<1>7. CASE m = 0
  <2>1. bp - 0 = bp
    OBVIOUS
  <2> QED
    BY <2>1, <1>2, <1>7
<1>8. CASE m # 0
  <2>1. m \in 1 .. n /\ m - 1 \in 0 .. n /\ m - 1 \notin T
    BY <1>6, <1>8
  <2>2. PICK bq, e, g : bq = bp - (m - 1) /\ e = f[m - 1] /\ g = f[m]
    OBVIOUS
  <2>3. Good(e, {}, {}, sp, bq, M) /\ g = RestoreOne(e)
    BY <2>1, <2>2, <1>2
  <2>4. bq \in Nat \ {0} /\ bq - 1 = bp - m
    BY <2>1, <2>2
  <2>5. Good(g, {}, {}, sp, bq - 1, M)
    BY <2>3, <2>4, RestoreOneGood
  <2> QED
    BY <2>2, <2>4, <2>5
<1> QED
  BY <1>7, <1>8


\* What every instruction finds.
Fetched(sp, bp, M, n) ==
  /\ Running /\ IsCtx(ctx) /\ ctx.state \in States /\ ctx.state = "RUN"
  /\ HeapOK(ctx.chain, ctx.mem, {}) /\ GoodStack(ctx, sp, bp, M)
  /\ FramesOK(frames) /\ Aligned(frames, bp, M)
  /\ sp \in Slots /\ bp \in Nat /\ bp < sp /\ M \subseteq {s \in Slots : s < bp}
  /\ n = Len(frames) /\ n \in Nat /\ n > 0 /\ n \in 1 .. Len(frames)
  /\ Top = frames[n] /\ frames[n] \in Frame /\ End(frames[n]) = bp

\* Each instruction starts with the stacks of the invariant.
LEMMA FetchStarts ==
  ASSUME Inv, NEW op, Fetch(op)
  PROVE  Fetched(ctx.sp, ctx.bp, MarksOf(ctx), Len(frames))
<1>1. ctx.state = "RUN" /\ gc.at = 0 /\ frames # << >>
  BY DEF Fetch
<1>2. /\ RestInv(ctx) /\ HeapInv(ctx, frames) /\ StacksInv(ctx)
      /\ FramesInv(ctx, frames)
  BY DEF Inv, Invariant
<1>3. PICK n : n = Len(frames)
  OBVIOUS
<1>4. n \in Nat /\ n > 0 /\ n \in 1 .. Len(frames) /\ frames[n] \in Frame
  <2>1. frames \in Seq(Frame)
    BY <1>2 DEF FramesInv, FramesOK
  <2>2. n \in Nat /\ n > 0
    BY <2>1, <1>1, <1>3, LenProperties
  <2>3. n \in 1 .. Len(frames)
    BY <2>2, <1>3
  <2> QED
    BY <2>1, <2>2, <2>3, ElementOfSeq
<1>5. /\ StackOK(ctx.st, ctx.sp, ctx.bp, MarksOf(ctx)) /\ ctx.sp \in Slots
      /\ ctx.bp \in Nat /\ ctx.bp < ctx.sp
  BY <1>1, <1>2, Constants DEF StacksInv, MostPushed
<1>6. ctx.obj \in Addresses /\ ctx.ends \in BOOLEAN /\ IsCtx(ctx) /\ ctx.state \in States
  BY <1>2, Constants DEF RestInv, NULL, Addresses
<1>7. GoodStack(ctx, ctx.sp, ctx.bp, MarksOf(ctx))
  BY <1>5, <1>6 DEF GoodStack
<1>8. HeapOK(ctx.chain, ctx.mem, {})
  BY <1>2 DEF HeapInv
<1>9. FramesOK(frames) /\ Aligned(frames, ctx.bp, MarksOf(ctx))
  BY <1>1, <1>2 DEF FramesInv
<1>10. End(frames[n]) = ctx.bp
  BY <1>3, <1>4, <1>9 DEF Aligned
<1>11. MarksOf(ctx) \subseteq {s \in Slots : s < ctx.bp}
  BY DEF MarksOf
<1>12. Running /\ Top = frames[n]
  BY <1>1, <1>3 DEF Running, Top
<1> QED
  BY <1>1, <1>3, <1>4, <1>5, <1>6, <1>7, <1>8, <1>9, <1>10, <1>11, <1>12 DEF Fetched

\* The last frame is replaced by f.
Replaces(fs, gs, n, f) ==
  /\ n = Len(fs) /\ n \in Nat /\ n > 0
  /\ f \in Frame /\ (f.left => f.locals > 0) /\ gs = [fs EXCEPT ![n] = f]

\* The last frame is replaced.
LEMMA LastReplaced ==
  ASSUME NEW fs, NEW gs, NEW f, NEW n, FramesOK(fs), Replaces(fs, gs, n, f)
  PROVE  /\ FramesOK(gs) /\ Len(gs) = Len(fs)
         /\ \A k \in 1 .. n - 1 : gs[k] = fs[k]
         /\ gs[n] = f
<1> USE DEF Replaces
<1>1. fs \in Seq(Frame) /\ \A k \in 1 .. n : fs[k].left => fs[k].locals > 0
  BY DEF FramesOK
<1>2. gs \in Seq(Frame) /\ Len(gs) = Len(fs) /\ \A k \in 1 .. n : gs[k] = IF k = n THEN f ELSE fs[k]
  BY <1>1
<1>3. \A k \in 1 .. n : gs[k].left => gs[k].locals > 0
  BY <1>1, <1>2
<1>4. \A k \in 1 .. n - 1 : k \in 1 .. n /\ k # n
  OBVIOUS
<1>5. n \in 1 .. n
  OBVIOUS
<1> QED
  BY <1>2, <1>3, <1>4, <1>5 DEF FramesOK

\* SCTX creates the variables of a frame, maybe beyond the operands.
LEMMA KeepsSCTX ==
  ASSUME Inv, SCTX
  PROVE  Inv'
<1>1. PICK l \in 1 .. MaxLocals :
        /\ EndOfInstruction(StoreContext(ctx, l))
        /\ frames' = [frames EXCEPT ![Len(frames)].locals = l]
  BY DEF SCTX
<1>2. PICK sp, bp, M, n : sp = ctx.sp /\ bp = ctx.bp /\ M = MarksOf(ctx) /\ n = Len(frames)
  OBVIOUS
<1>3. Fetched(sp, bp, M, n) /\ Top.locals = 0
  BY <1>2, FetchStarts DEF SCTX
<1>4. PICK d : d = StoreContext(ctx, l)
  OBVIOUS
<1>5. /\ IsCtx(ctx) /\ ctx.state \in States /\ bp \in Nat
      /\ ctx.state # "CRASH" => HeapOK(ctx.chain, ctx.mem, {}) /\ GoodStack(ctx, sp, bp, M)
  BY <1>3 DEF Fetched
<1>6. \A s \in M : s \in Nat /\ s < bp
  BY <1>3 DEF Fetched, Slots
<1>7. l \in Nat \ {0} /\ l <= MaxLocals
  BY Constants
<1>8. Good(d, {}, {}, sp, bp + l, M)
  BY <1>4, <1>5, <1>6, <1>7, StoreContextGood
<1>9. PICK fs, gs, f : fs = frames /\ gs = frames' /\ f = [fs[n] EXCEPT !.locals = l]
  OBVIOUS
<1>10. gs = [fs EXCEPT ![n] = f]
  BY <1>1, <1>2, <1>9
<1>11. /\ FramesOK(fs) /\ Aligned(fs, bp, M) /\ n = Len(fs) /\ n \in Nat /\ n > 0
       /\ fs[n] \in Frame /\ End(fs[n]) = bp /\ fs[n].locals = 0 /\ n \in 1 .. Len(fs)
  BY <1>3, <1>9 DEF Fetched
<1>12. fs[n].left = FALSE /\ fs[n].base = bp
  <2>1. fs[n].left \in BOOLEAN /\ fs[n].base \in 2 .. MaxStack
    BY <1>11 DEF Frame
  <2>2. ~fs[n].left
    BY <1>11 DEF FramesOK
  <2> QED
    BY <2>1, <2>2, <1>11 DEF End
<1>13. f \in Frame /\ f.left = FALSE /\ f.base = bp /\ f.locals = l
  BY <1>9, <1>11, <1>12, <1>7, Constants DEF Frame
<1>14. /\ FramesOK(gs) /\ Len(gs) = Len(fs)
       /\ \A k \in 1 .. n - 1 : gs[k] = fs[k]
       /\ gs[n] = f
  <2>1. f.left => f.locals > 0
    BY <1>7, <1>13
  <2>2. PICK x : x = gs
    OBVIOUS
  <2>3. x = [fs EXCEPT ![n] = f]
    BY <2>2, <1>10, Zenon
  <2>4. Replaces(fs, x, n, f)
    BY <2>1, <2>3, <1>11, <1>13, Zenon DEF Replaces
  <2>5. /\ FramesOK(x) /\ Len(x) = Len(fs)
        /\ \A k \in 1 .. n - 1 : x[k] = fs[k]
        /\ x[n] = f
    BY <2>4, <1>11, LastReplaced
  <2> QED
    BY <2>2, <2>5, Zenon
<1>15. Aligned(gs, bp + l, M)
  <2>1. PICK bq : bq = bp + l
    OBVIOUS
  <2>2. gs[n].base = fs[n].base /\ End(gs[n]) = bq /\ bq \in Nat /\ bq >= gs[n].base
    BY <2>1, <1>5, <1>7, <1>12, <1>13, <1>14 DEF End
  <2>3. /\ \A s \in M : s < gs[n].base => s \in M
        /\ \A s \in M : s \in M /\ s < gs[n].base
    BY <1>6, <1>13, <1>14
  <2>4. Aligned(gs, bq, M)
    BY <2>2, <2>3, <1>11, <1>14, LastChanges
  <2> QED
    BY <2>1, <2>4
<1>16. Bounds(sp, bp + l, M)
  <2>1. sp \in Slots /\ bp < sp /\ M \subseteq {s \in Slots : s < bp}
    BY <1>3 DEF Fetched
  <2>2. sp \in Nat /\ sp <= MaxStack - 1
    BY <2>1, Constants DEF Slots
  <2>3. l <= MostPushed /\ MostPushed \in Nat
    BY <1>7, Constants DEF MostPushed
  <2>4. bp + l \in 0 .. MaxStack - 2 + MostPushed
    BY <2>1, <2>2, <2>3, <1>5, <1>7, Constants
  <2>5. \A s \in Slots : s < bp => s < bp + l
    BY <1>5, <1>7 DEF Slots
  <2> QED
    BY <2>1, <2>4, <2>5 DEF Bounds
<1>17. Running /\ EndOfInstruction(d) /\ FramesOK(frames') /\ Aligned(frames', bp + l, M)
  BY <1>1, <1>3, <1>4, <1>9, <1>14, <1>15 DEF Fetched
<1> QED
  BY <1>8, <1>16, <1>17, EndKeeps

\* Only the marks below bp matter.
LEMMA GoodMarks ==
  ASSUME NEW c, NEW B, NEW K, NEW sp, NEW bp, NEW M, NEW N,
         Good(c, B, K, sp, bp, M), N = {s \in M : s < bp}
  PROVE  Good(c, B, K, sp, bp, N)
<1>1. ASSUME NEW st, StackOK(st, sp, bp, M) PROVE StackOK(st, sp, bp, N)
  BY <1>1 DEF StackOK
<1> QED
  BY <1>1 DEF Good, GoodStack

\* RCTX removes the variables of a frame.
LEMMA KeepsRCTX ==
  ASSUME Inv, RCTX
  PROVE  Inv'
<1>1. /\ EndOfInstruction(RestoreContext(ctx, Top.locals))
      /\ frames' = [frames EXCEPT ![Len(frames)].left = TRUE]
      /\ InBody("SCTX", 0) /\ Fetch("SCTX") /\ Top.locals > 0 /\ ~Top.left
  BY DEF RCTX, InBody
<1>2. PICK sp, bp, M, n : sp = ctx.sp /\ bp = ctx.bp /\ M = MarksOf(ctx) /\ n = Len(frames)
  OBVIOUS
<1>3. Fetched(sp, bp, M, n) /\ Ready(0)
  BY <1>1, <1>2, FetchStarts, BodyReady
<1>4. PICK fs, gs, f, l, base : /\ fs = frames /\ gs = frames' /\ f = [fs[n] EXCEPT !.left = TRUE]
                                /\ l = fs[n].locals /\ base = fs[n].base
  OBVIOUS
<1>5. /\ FramesOK(fs) /\ Aligned(fs, bp, M) /\ n = Len(fs) /\ n \in Nat /\ n > 0
      /\ fs[n] \in Frame /\ End(fs[n]) = bp /\ Top = fs[n]
      /\ sp \in Slots /\ bp \in Nat /\ bp < sp /\ M \subseteq {s \in Slots : s < bp} /\ Running
  BY <1>3, <1>4 DEF Fetched
<1>6. l \in Nat /\ l > 0 /\ base \in Nat /\ base \in 2 .. MaxStack /\ bp = base + l
  BY <1>1, <1>4, <1>5, Constants DEF Frame, End
<1>7. PICK d, N : d = RestoreContext(ctx, l) /\ N = {s \in M : s < base}
  OBVIOUS
<1>8. Good(ctx, {}, {}, sp, bp, M)
  BY <1>2, <1>3, GoodFewer DEF Ready
<1>9. l <= bp /\ bp - l = base
  BY <1>6
<1>10. Good(d, {}, {}, sp, bp - l, M)
  BY <1>5, <1>6, <1>7, <1>8, <1>9, RestoreContextGood
<1>11. Good(d, {}, {}, sp, base, M)
  BY <1>9, <1>10
<1>12. Good(d, {}, {}, sp, base, N)
  BY <1>7, <1>11, GoodMarks
<1>13. f \in Frame /\ f.left = TRUE /\ f.base = base /\ f.locals = l
  BY <1>4, <1>5 DEF Frame
<1>14. gs = [fs EXCEPT ![n] = f]
  BY <1>1, <1>2, <1>4
<1>15. /\ FramesOK(gs) /\ Len(gs) = Len(fs)
       /\ \A k \in 1 .. n - 1 : gs[k] = fs[k]
       /\ gs[n] = f
  <2>1. f.left => f.locals > 0
    BY <1>6, <1>13
  <2>2. PICK x : x = gs
    OBVIOUS
  <2>3. x = [fs EXCEPT ![n] = f]
    BY <2>2, <1>14, Zenon
  <2>4. Replaces(fs, x, n, f)
    BY <2>1, <2>3, <1>5, <1>13, Zenon DEF Replaces
  <2>5. /\ FramesOK(x) /\ Len(x) = Len(fs)
        /\ \A k \in 1 .. n - 1 : x[k] = fs[k]
        /\ x[n] = f
    BY <2>4, <1>5, LastReplaced
  <2> QED
    BY <2>2, <2>5, Zenon
<1>16. Aligned(gs, base, N)
  <2>1. gs[n].base = fs[n].base /\ End(gs[n]) = base /\ base \in Nat /\ base >= gs[n].base
    BY <1>4, <1>6, <1>13, <1>15 DEF End
  <2>2. /\ \A s \in M : s < gs[n].base => s \in N
        /\ \A s \in N : s \in M /\ s < gs[n].base
    BY <1>7, <1>13, <1>15
  <2> QED
    BY <2>1, <2>2, <1>5, <1>15, LastChanges
<1>17. Bounds(sp, base, N)
  <2>1. N \subseteq {s \in Slots : s < base}
    BY <1>5, <1>7
  <2>2. base \in 0 .. MaxStack - 2 + MostPushed
    BY <1>6, Constants DEF MostPushed
  <2> QED
    BY <2>1, <2>2, <1>5 DEF Bounds
<1>18. EndOfInstruction(d) /\ FramesOK(frames') /\ Aligned(frames', base, N)
  BY <1>1, <1>4, <1>5, <1>7, <1>15, <1>16
<1> QED
  BY <1>5, <1>12, <1>17, <1>18, EndKeeps

\* RET removes a frame and its return marks.
LEMMA KeepsRET ==
  ASSUME Inv, RET
  PROVE  Inv'
<1>1. PICK d : d = [ctx EXCEPT !.bp = @ - 2, !.ends = Len(frames) = 1]
  OBVIOUS
<1>2. /\ Fetch("SCTX") /\ Top.left /\ EndOfInstruction(d)
      /\ frames' = SubSeq(frames, 1, Len(frames) - 1)
  BY <1>1 DEF RET
<1>3. PICK sp, bp, M, n : sp = ctx.sp /\ bp = ctx.bp /\ M = MarksOf(ctx) /\ n = Len(frames)
  OBVIOUS
<1>4. Fetched(sp, bp, M, n)
  BY <1>2, <1>3, FetchStarts
<1>5. PICK fs, gs, bq, N : fs = frames /\ gs = frames' /\ bq = bp - 2 /\ N = {s \in M : s < bq}
  OBVIOUS
<1>6. /\ FramesOK(fs) /\ Aligned(fs, bp, M) /\ n = Len(fs) /\ n \in Nat /\ n > 0
      /\ fs[n] \in Frame /\ End(fs[n]) = bp /\ fs[n].left /\ n \in 1 .. Len(fs)
      /\ sp \in Slots /\ bp \in Nat /\ bp < sp /\ M \subseteq {s \in Slots : s < bp} /\ Running
  BY <1>2, <1>4, <1>5 DEF Fetched
<1>7. End(fs[n]) = fs[n].base /\ bp \in 2 .. MaxStack /\ fs[n].locals > 0
  BY <1>6 DEF Frame, End, FramesOK
<1>8. gs = SubSeq(fs, 1, n - 1)
  BY <1>2, <1>5, <1>6
<1>9. /\ \A s \in M : s < bp - 2 => s \in N
      /\ \A s \in N : s \in M
  BY <1>5
<1>10. FramesOK(gs) /\ Aligned(gs, bp - 2, N)
  BY <1>6, <1>7, <1>8, <1>9, AlignedReturn
<1>11. /\ IsCtx(ctx) /\ ctx.state \in States /\ ctx.state = "RUN"
       /\ HeapOK(ctx.chain, ctx.mem, {}) /\ GoodStack(ctx, sp, bp, M)
  BY <1>4 DEF Fetched
<1>12. Len(ctx.chain) > 1
  <2>1. HeapInv(ctx, fs)
    BY <1>5, <1>6 DEF Running, Inv, Invariant
  <2>2. Len(ctx.chain) # 1
    <3>1. fs[n].locals # 0
      BY <1>6, <1>7 DEF Frame
    <3> QED
      BY <2>1, <3>1, <1>6, <1>11 DEF HeapInv
  <2>3. WellFormed(ctx.chain)
    BY <1>11 DEF HeapOK, ListOK
  <2> QED
    BY <2>2, <2>3, OneOrMore
<1>13. /\ IsCtx(d) /\ d.chain = ctx.chain /\ d.state = ctx.state /\ d.ends \in BOOLEAN
       /\ d.obj = ctx.obj /\ d.sp = ctx.sp /\ d.bp = ctx.bp - 2
       /\ d.mem = ctx.mem /\ d.st = ctx.st
  BY <1>1, <1>11 DEF IsCtx, Fields
<1>14. Good(d, {}, {}, sp, bq, M)
  <2>1. GoodHeap(d, {}, {})
    BY <1>11, <1>12, <1>13 DEF GoodHeap
  <2>2. \A s \in Slots : s < bq => s < bp
    BY <1>5, <1>6 DEF Slots
  <2>3. StackOK(ctx.st, sp, bq, M)
    BY <2>2, <1>11 DEF GoodStack, StackOK
  <2>4. GoodStack(d, sp, bq, M)
    BY <2>3, <1>3, <1>5, <1>11, <1>13 DEF GoodStack
  <2> QED
    BY <2>1, <2>4, <1>11, <1>13 DEF Good
<1>15. Good(d, {}, {}, sp, bq, N)
  BY <1>5, <1>14, GoodMarks
<1>16. Bounds(sp, bq, N)
  <2>1. N \subseteq {s \in Slots : s < bq}
    BY <1>5, <1>6
  <2>2. bq \in 0 .. MaxStack - 2 + MostPushed
    BY <1>5, <1>7, Constants DEF MostPushed
  <2> QED
    BY <2>1, <2>2, <1>6 DEF Bounds
<1>17. FramesOK(frames') /\ Aligned(frames', bq, N)
  BY <1>5, <1>10
<1> QED
  BY <1>2, <1>6, <1>15, <1>16, <1>17, EndKeeps


-----------------------------------------------------------------------------
(***************************************************************************)
(* The collector.                                                          *)
(***************************************************************************)

\* The same objects lie in the same order, perhaps at other addresses.
Moved(ch, m, d, n) ==
  /\ Len(d) = Len(ch)
  /\ \A j \in 1 .. Len(ch) - 1 :
       /\ Body(d[j]) \in DOMAIN n <=> Body(ch[j]) \in DOMAIN m
       /\ Body(ch[j]) \in DOMAIN m => n[Body(d[j])] = m[Body(ch[j])]

\* What the heap holds, by the position in the list.
LEMMA TakenAt ==
  ASSUME NEW ch, NEW m, HeapOK(ch, m, {})
  PROVE  /\ \A j \in 1 .. Len(ch) - 1 : Body(ch[j]) \in DOMAIN m <=> ch[j].size > 0
         /\ \A x \in DOMAIN m : \E j \in 1 .. Len(ch) - 1 : x = Body(ch[j])
<1>1. WellFormed(ch) /\ Taken(ch) = DOMAIN m
  BY DEF HeapOK, ListOK
<1>2. ASSUME NEW x
      PROVE  x \in DOMAIN m <=> \E j \in 1 .. Len(ch) - 1 : x = Body(ch[j]) /\ ch[j].size > 0
  BY <1>1 DEF Taken, Blocks
<1>3. ASSUME NEW j \in 1 .. Len(ch) - 1, NEW k \in 1 .. Len(ch) - 1, Body(ch[j]) = Body(ch[k])
      PROVE  j = k
  <2>1. Len(ch) \in Nat
    BY <1>1, WellFormedFacts
  <2>2. j \in 1 .. Len(ch) /\ k \in 1 .. Len(ch)
    BY <2>1
  <2> QED
    BY <2>2, <1>1, <1>3, BodyUnique
<1> QED
  BY <1>2, <1>3

\* What MoveObject makes of the objects.
MovedMem(m, old, new) ==
  [o \in (DOMAIN m \ {old}) \cup {new} |-> IF o = new THEN m[old] ELSE m[o]]

\* m_shift_next_chunk moves an object: only its address changes.
LEMMA ShiftHeap ==
  ASSUME NEW ch, NEW m, NEW i, NEW d, NEW n, NEW old, NEW new,
         HeapOK(ch, m, {}), i \in 1 .. Len(ch), i + 1 < Len(ch),
         d = m_shift_next_chunk(ch, i), old = Body(ch[i + 1]), new = Body(d[i + 1]),
         old \in DOMAIN m, n = MovedMem(m, old, new)
  PROVE  HeapOK(d, n, {}) /\ Moved(ch, m, d, n) /\ new \in Addresses /\ d[i] = ch[i]
<1>1. WellFormed(ch) /\ ch[Len(ch)].size = 0 /\ IsMem(m)
      /\ (RootTaken /\ Len(ch) > 1 => ch[1].size > 0)
  BY DEF HeapOK, ListOK
<1>2. Len(ch) \in Nat /\ i \in Nat /\ i >= 1
  BY <1>1, WellFormedFacts
<1>3. /\ WellFormed(d) /\ Len(d) = Len(ch) /\ d[i + 1].size = ch[i + 1].size
      /\ \A j \in 1 .. Len(ch) : j # i + 1 => d[j] = ch[j]
  BY <1>1, ShiftWellFormed
<1>4. PICK k, l : k = i + 1 /\ l = Len(ch)
  OBVIOUS
<1>5. k \in 1 .. l - 1 /\ k # 1 /\ k # l /\ l \in 1 .. l /\ 1 \in 1 .. l /\ \A j \in 1 .. l - 1 : j \in 1 .. l
  BY <1>2, <1>4
<1>6. /\ Len(d) = l /\ d[k].size = ch[k].size /\ \A j \in 1 .. l : j # k => d[j] = ch[j]
      /\ old = Body(ch[k]) /\ new = Body(d[k])
  BY <1>3, <1>4
<1>7. /\ \A j \in 1 .. l - 1 : Body(ch[j]) \in DOMAIN m <=> ch[j].size > 0
      /\ \A x \in DOMAIN m : \E j \in 1 .. l - 1 : x = Body(ch[j])
  BY <1>4, TakenAt
<1>8. \A j \in 1 .. l : j # k => Body(ch[j]) # old /\ Body(ch[j]) # new
  <2> SUFFICES ASSUME NEW j \in 1 .. l, j # k PROVE Body(ch[j]) # old /\ Body(ch[j]) # new
    OBVIOUS
  <2>1. k \in 1 .. Len(ch) /\ j \in 1 .. Len(ch) /\ k \in 1 .. Len(d) /\ j \in 1 .. Len(d)
    BY <1>4, <1>5, <1>6
  <2>2. Body(ch[j]) # Body(ch[k])
    BY <2>1, <1>1, BodyUnique
  <2>3. Body(d[j]) # Body(d[k])
    BY <2>1, <1>3, BodyUnique
  <2> QED
    BY <2>2, <2>3, <1>6
<1>9. DOMAIN n = (DOMAIN m \ {old}) \cup {new} /\ n[new] = m[old]
      /\ \A x \in DOMAIN m : x # old /\ x # new => n[x] = m[x]
  BY DEF MovedMem
<1>10. Moved(ch, m, d, n)
  <2>1. ASSUME NEW j \in 1 .. l - 1
        PROVE  /\ Body(d[j]) \in DOMAIN n <=> Body(ch[j]) \in DOMAIN m
               /\ Body(ch[j]) \in DOMAIN m => n[Body(d[j])] = m[Body(ch[j])]
    <3>1. CASE j = k
      BY <3>1, <1>6, <1>9
    <3>2. CASE j # k
      <4>1. PICK b : b = Body(ch[j])
        OBVIOUS
      <4>2. Body(d[j]) = b /\ b # old /\ b # new
        BY <3>2, <4>1, <1>5, <1>6, <1>8
      <4> QED
        BY <4>1, <4>2, <1>9
    <3> QED
      BY <3>1, <3>2
  <2> QED
    BY <2>1, <1>4, <1>6 DEF Moved
<1>11. new \in Addresses
  <2>1. k \in 1 .. Len(d)
    BY <1>4, <1>5, <1>6
  <2>2. new \in 1 .. HeapSize
    BY <2>1, <1>3, <1>6, BodyInHeap
  <2> QED
    BY <2>2, Constants DEF Addresses
<1>12. d[i] = ch[i]
  BY <1>2, <1>3
<1>13. IsMem(n)
  <2>1. n = [o \in DOMAIN n |-> n[o]]
    BY DEF MovedMem
  <2> QED
    BY <2>1, <1>1, <1>9 DEF IsMem
<1>14. ListOK(d) /\ d[1] = ch[1]
  BY <1>1, <1>3, <1>4, <1>5, <1>6 DEF ListOK
<1>15. Taken(d) = DOMAIN n
  <2>1. ASSUME NEW x
        PROVE  x \in Taken(d) <=> \E j \in 1 .. l - 1 : x = Body(d[j]) /\ d[j].size > 0
    BY <1>6 DEF Taken, Blocks
  <2>2. \A j \in 1 .. l - 1 : d[j].size > 0 <=> Body(ch[j]) \in DOMAIN m
    BY <1>5, <1>6, <1>7
  <2>3. \A j \in 1 .. l - 1 : d[j].size > 0 <=> Body(d[j]) \in DOMAIN n
    BY <2>2, <1>4, <1>10 DEF Moved
  <2>4. ASSUME NEW x \in DOMAIN n PROVE \E j \in 1 .. l - 1 : x = Body(d[j])
    <3>1. CASE x = new
      BY <3>1, <1>5, <1>6
    <3>2. CASE x # new
      <4>1. PICK j \in 1 .. l - 1 : x = Body(ch[j])
        BY <3>2, <1>7, <1>9
      <4>2. x # old
        BY <3>2, <1>9
      <4>3. j # k
        BY <4>1, <4>2, <1>6
      <4> QED
        BY <4>1, <4>3, <1>5, <1>6
    <3> QED
      BY <3>1, <3>2
  <2>5. \A x : x \in Taken(d) => x \in DOMAIN n
    BY <2>1, <2>3
  <2>6. \A x \in DOMAIN n : x \in Taken(d)
    BY <2>1, <2>3, <2>4
  <2> QED
    BY <2>5, <2>6
<1>16. \A g \in Blocks(d) : Body(g) \in DOMAIN n => g.size >= ObjSize
  <2>1. SUFFICES ASSUME NEW j \in 1 .. l - 1, Body(d[j]) \in DOMAIN n PROVE d[j].size >= ObjSize
    BY <1>6 DEF Blocks
  <2>2. Body(ch[j]) \in DOMAIN m /\ ch[j] \in Blocks(ch)
    BY <2>1, <1>4, <1>10 DEF Moved, Blocks
  <2>3. ch[j].size >= ObjSize
    BY <2>2 DEF HeapOK
  <2>4. d[j].size = ch[j].size
    BY <1>5, <1>6
  <2> QED
    BY <2>3, <2>4
<1> QED
  BY <1>10, <1>11, <1>12, <1>13, <1>14, <1>15, <1>16 DEF HeapOK


\* d has the stacks of c, and the return marks of c.
Preserved(c, d) ==
  /\ IsCtx(d) /\ d.obj = c.obj /\ d.ends = c.ends /\ d.state = c.state
  /\ d.sp = c.sp /\ d.bp = c.bp
  /\ StackOK(d.st, c.sp, c.bp, MarksOf(c))

\* What the collector does not touch of the invariant.
LEMMA PreservedKeeps ==
  ASSUME NEW c, NEW d, NEW fs,
         RestInv(c), StacksInv(c), FramesInv(c, fs), Preserved(c, d)
  PROVE  RestInv(d) /\ StacksInv(d) /\ FramesInv(d, fs)
<1>1. PICK M : M = MarksOf(c)
  OBVIOUS
<1>2. M \subseteq {s \in Slots : s < c.bp}
  BY <1>1 DEF MarksOf
<1>3. StackOK(d.st, c.sp, c.bp, M) /\ d.bp = c.bp
  BY <1>1 DEF Preserved
<1>4. MarksOf(d) = M
  BY <1>2, <1>3, MarksAre
<1>5. RestInv(d)
  BY DEF RestInv, Preserved
<1>6. StacksInv(d)
  BY <1>1, <1>4 DEF StacksInv, Preserved
<1>7. FramesInv(d, fs)
  BY <1>1, <1>4 DEF FramesInv, Preserved
<1> QED
  BY <1>5, <1>6, <1>7

\* What an iteration of the collector's loop finds at chunk i.
Visits(c, i) ==
  /\ IsCtx(c) /\ HeapOK(c.chain, c.mem, {})
  /\ StackOK(c.st, c.sp, c.bp, MarksOf(c))
  /\ i \in 1 .. Len(c.chain) /\ i + 1 < Len(c.chain)
  /\ Len(c.chain) \in Nat

\* The chunk behind the iterator is moved down, or stays.
LEMMA ShiftNextKeeps ==
  ASSUME NEW c, NEW i, NEW d, Visits(c, i), d = ShiftNext(c, i)
  PROVE  /\ Preserved(c, d) /\ HeapOK(d.chain, d.mem, {})
         /\ Moved(c.chain, c.mem, d.chain, d.mem)
         /\ d.chain[i] = c.chain[i]
<1>1. /\ IsCtx(c) /\ HeapOK(c.chain, c.mem, {})
      /\ StackOK(c.st, c.sp, c.bp, MarksOf(c))
      /\ i \in 1 .. Len(c.chain) /\ i + 1 < Len(c.chain) /\ Len(c.chain) \in Nat
  BY DEF Visits
<1>2. CASE ~IsLoose(c.mem[Body(c.chain[i + 1])])
  <2>1. d = c
    BY <1>2 DEF ShiftNext
  <2> QED
    BY <2>1, <1>1 DEF Preserved, Moved
<1>3. CASE IsLoose(c.mem[Body(c.chain[i + 1])])
  <2>1. PICK ch, old, e : ch = c.chain /\ old = Body(c.chain[i + 1]) /\ e = m_shift_next_chunk(c.chain, i)
    OBVIOUS
  <2>2. PICK new : new = Body(e[i + 1])
    OBVIOUS
  <2>3. d = MoveObject(c, e, old, new)
    BY <2>1, <2>2, <1>3 DEF ShiftNext, ShiftTo
  <2>4. PICK m, n, t : /\ m = c.mem /\ n = MovedMem(m, old, new)
                       /\ t = vm_update_mutator(c.st, old, new)
    OBVIOUS
  <2>5. /\ IsCtx(d) /\ d.chain = e /\ d.mem = n /\ d.st = t
        /\ d.obj = c.obj /\ d.ends = c.ends /\ d.state = c.state /\ d.sp = c.sp /\ d.bp = c.bp
    <3>1. d = [c EXCEPT !.chain = e, !.mem = MovedMem(@, old, new),
                        !.st = vm_update_mutator(@, old, new)]
      <4>1. MovedMem(c.mem, old, new) = [o \in (DOMAIN c.mem \ {old}) \cup {new} |->
                                           IF o = new THEN c.mem[old] ELSE c.mem[o]]
        BY Zenon DEF MovedMem
      <4> QED
        BY <4>1, <2>3 DEF MoveObject
    <3> QED
      BY <3>1, <2>4, <1>1 DEF IsCtx, Fields
  <2>6. old \in DOMAIN m
    <3>1. WellFormed(ch) /\ NonEmpty(ch)
      BY <2>1, <1>1 DEF HeapOK, ListOK, WellFormed
    <3>2. i + 1 \in 2 .. Len(ch) - 1 /\ i + 1 \in 1 .. Len(ch) - 1
      BY <2>1, <1>1
    <3>3. ch[i + 1].size > 0
      BY <3>1, <3>2 DEF NonEmpty
    <3>4. HeapOK(ch, m, {})
      BY <2>1, <2>4, <1>1
    <3> QED
      BY <3>2, <3>3, <3>4, <2>1, TakenAt
  <2>7. HeapOK(ch, m, {}) /\ i \in 1 .. Len(ch) /\ i + 1 < Len(ch)
        /\ e = m_shift_next_chunk(ch, i) /\ old = Body(ch[i + 1])
    BY <2>1, <2>4, <1>1
  <2>8. HeapOK(e, n, {}) /\ Moved(ch, m, e, n) /\ new \in Addresses /\ e[i] = ch[i]
    BY <2>2, <2>4, <2>6, <2>7, ShiftHeap
  <2>9. old \in Addresses
    <3>1. WellFormed(ch) /\ old \in Taken(ch)
      BY <2>6, <2>7 DEF HeapOK, ListOK
    <3>2. old \in 1 .. HeapSize
      BY <3>1, TakenInHeap
    <3> QED
      BY <3>2, Constants DEF Addresses
  <2>10. StackOK(d.st, c.sp, c.bp, MarksOf(c))
    BY <2>4, <2>5, <2>8, <2>9, <1>1, RedirectedStack
  <2>11. Preserved(c, d)
    BY <2>5, <2>10 DEF Preserved
  <2> QED
    BY <2>1, <2>4, <2>5, <2>8, <2>11
<1> QED
  BY <1>2, <1>3

\* Nothing that is kept becomes garbage by a move.
LEMMA MovedKept ==
  ASSUME NEW c, NEW d, Moved(c.chain, c.mem, d.chain, d.mem),
         NEW j \in 1 .. Len(c.chain) - 1, Kept(c, j)
  PROVE  Kept(d, j)
BY DEF Moved, Kept

\* The memory of the object at o is cleared, after its release callback.
Cleared(m, o) == [vm_object_unref(m, m[o].holds) EXCEPT ![o] = Zeroed]

\* The object that the collector frees is cleared, and the array of an enumerator let go.
LEMMA ClearedMem ==
  ASSUME NEW m, NEW o, NEW n, IsMem(m), o \in DOMAIN m, DOMAIN m \subseteq 1 .. HeapSize,
         n = Cleared(m, o)
  PROVE  /\ Retyped(m, n) /\ n[o] = Zeroed
         /\ m[o].holds = NULL => \A p \in DOMAIN m : p # o => n[p] = m[p]
<1>1. PICK h, u : h = m[o].holds /\ u = vm_object_unref(m, m[o].holds)
  OBVIOUS
<1>2. Retyped(m, u)
  BY <1>1, UnrefRetypes
<1>3. IsMem(u) /\ DOMAIN u = DOMAIN m
  BY <1>2 DEF Retyped
<1>4. Zeroed \in Objects
  BY Constants DEF Zeroed, Objects, NULL, Addresses
<1>5. n = [u EXCEPT ![o] = Zeroed]
  BY <1>1 DEF Cleared
<1>6. Retyped(u, n)
  BY <1>3, <1>4, <1>5, SetOne
<1>7. Retyped(m, n) /\ n[o] = Zeroed
  BY <1>3, <1>5, <1>6 DEF Retyped, IsMem
<1>8. ASSUME h = NULL PROVE u = m
  <2>1. h \notin DOMAIN m
    BY <1>8, Constants DEF NULL
  <2> QED
    BY <2>1, <1>1 DEF vm_object_unref
<1>9. h = NULL => \A p \in DOMAIN m : p # o => n[p] = m[p]
  BY <1>3, <1>5, <1>8
<1> QED
  BY <1>1, <1>7, <1>9

\* m_free of the object of chunk i.
LEMMA FreeAt ==
  ASSUME NEW ch, NEW m, NEW i, NEW d, HeapOK(ch, m, {}), i \in 1 .. Len(ch) - 1,
         Body(ch[i]) \in DOMAIN m, d = m_free(ch, Body(ch[i]))
  PROVE  /\ Drops(ch, d, Body(ch[i])) /\ Body(ch[i]) # NULL
         /\ i = 1 => d = ch
         /\ i > 1 => Len(d) = Len(ch) - 1 /\ \A j \in 1 .. i - 1 : d[j] = ch[j]
<1>1. WellFormed(ch) /\ ch[Len(ch)].size = 0 /\ Taken(ch) = DOMAIN m
  BY DEF HeapOK, ListOK
<1>2. PICK p : p = Body(ch[i])
  OBVIOUS
<1>3. p \in Taken(ch) /\ p \in 1 .. HeapSize
  BY <1>1, <1>2, TakenInHeap
<1>4. Len(ch) > 1 /\ (ch[1].size > 0 \/ ch[2].size > 0)
  BY <1>1, <1>3, TakenFirst
<1>5. Drops(ch, d, p) /\ p # NULL
  BY <1>1, <1>2, <1>3, <1>4, FreeDrops, Constants DEF NULL
<1>6. \/ d = ch /\ \A k \in 2 .. Len(ch) : Body(ch[k]) # p
      \/ \E k \in 2 .. Len(ch) : Body(ch[k]) = p /\ d = Unlink(ch, k)
  BY <1>1, <1>2, <1>4, FreeUnlinks
<1>7. Len(ch) \in Nat /\ i \in 1 .. Len(ch) /\ i < Len(ch) /\ i \in Nat
  BY <1>1, WellFormedFacts
<1>8. \A k \in 2 .. Len(ch) : Body(ch[k]) = p => k = i
  <2> SUFFICES ASSUME NEW k \in 2 .. Len(ch), Body(ch[k]) = p PROVE k = i
    OBVIOUS
  <2>1. k \in 1 .. Len(ch)
    BY <1>7
  <2> QED
    BY <2>1, <1>1, <1>2, <1>7, BodyUnique
<1>9. CASE i = 1
  <2>1. \A k \in 2 .. Len(ch) : Body(ch[k]) # p
    BY <1>7, <1>8, <1>9
  <2>2. d = ch
    BY <2>1, <1>6
  <2> QED
    BY <2>2, <1>2, <1>5, <1>9
<1>10. CASE i > 1
  <2>1. i \in 2 .. Len(ch)
    BY <1>7, <1>10
  <2>2. d = Unlink(ch, i)
    BY <2>1, <1>2, <1>6, <1>8
  <2>3. Len(d) = Len(ch) - 1 /\ \A j \in 1 .. i - 1 : d[j] = ch[j]
    <3>1. /\ \A j \in 1 .. i - 1 : Unlink(ch, i)[j] = ch[j]
          /\ i < Len(ch) => Len(Unlink(ch, i)) = Len(ch) - 1
      BY <2>1, <1>1, UnlinkGives
    <3> QED
      BY <3>1, <2>2, <1>7
  <2>4. i # 1
    BY <1>7, <1>10
  <2> QED
    BY <2>3, <2>4, <1>2, <1>5
<1> QED
  BY <1>7, <1>9, <1>10


\* The collector frees the object of chunk i.
LEMMA CollectKeeps ==
  ASSUME NEW c, NEW i, NEW d, NEW o, Visits(c, i), o = Body(c.chain[i]), o \in DOMAIN c.mem,
         d = Collect(c, o)
  PROVE  /\ Preserved(c, d) /\ HeapOK(d.chain, d.mem, {}) /\ Len(d.chain) > 1
         /\ i = 1 => Len(d.chain) = Len(c.chain) /\ Kept(d, 1)
         /\ i > 1 => Len(d.chain) = Len(c.chain) - 1
         /\ i > 1 /\ c.mem[o].holds = NULL =>
              \A j \in 1 .. i - 1 : Kept(c, j) => Kept(d, j)
<1>1. /\ IsCtx(c) /\ HeapOK(c.chain, c.mem, {})
      /\ StackOK(c.st, c.sp, c.bp, MarksOf(c))
      /\ i \in 1 .. Len(c.chain) - 1 /\ Len(c.chain) \in Nat /\ i \in Nat /\ i < Len(c.chain)
  BY DEF Visits
<1>2. PICK ch, m, n : ch = c.chain /\ m = c.mem /\ n = Cleared(m, o)
  OBVIOUS
<1>3. PICK e : e = [c EXCEPT !.mem = n]
  OBVIOUS
<1>4. d = vm_release_object(e, o)
  <2>1. [c EXCEPT !.mem = [vm_object_unref(@, c.mem[o].holds) EXCEPT ![o] = Zeroed]]
          = [c EXCEPT !.mem = Cleared(c.mem, o)]
    BY DEF Cleared
  <2> QED
    BY <2>1, <1>2, <1>3 DEF Collect
<1>5. /\ IsCtx(e) /\ e.chain = ch /\ e.mem = n /\ e.st = c.st /\ e.obj = c.obj
      /\ e.ends = c.ends /\ e.state = c.state /\ e.sp = c.sp /\ e.bp = c.bp
  BY <1>1, <1>2, <1>3 DEF IsCtx, Fields
<1>6. HeapOK(ch, m, {}) /\ IsMem(m) /\ o \in DOMAIN m /\ DOMAIN m \subseteq 1 .. HeapSize
  <2>1. HeapOK(ch, m, {}) /\ o \in DOMAIN m
    BY <1>1, <1>2
  <2>2. WellFormed(ch) /\ Taken(ch) = DOMAIN m /\ IsMem(m)
    BY <2>1 DEF HeapOK, ListOK
  <2> QED
    BY <2>1, <2>2, TakenInHeap
<1>7. /\ Retyped(m, n) /\ n[o] = Zeroed
      /\ m[o].holds = NULL => \A p \in DOMAIN m : p # o => n[p] = m[p]
  BY <1>2, <1>6, ClearedMem
<1>8. HeapOK(ch, n, {}) /\ DOMAIN n = DOMAIN m
  BY <1>6, <1>7, RetypedHeap DEF Retyped
<1>9. PICK a : a = m_free(ch, o)
  OBVIOUS
<1>10. i \in 1 .. Len(ch) - 1 /\ o = Body(ch[i]) /\ o \in DOMAIN n
  BY <1>1, <1>2, <1>6, <1>8
<1>11. /\ Drops(ch, a, o) /\ o # NULL
       /\ i = 1 => a = ch
       /\ i > 1 => Len(a) = Len(ch) - 1 /\ \A j \in 1 .. i - 1 : a[j] = ch[j]
  BY <1>8, <1>9, <1>10, FreeAt
<1>12. d = Freed(e, a)
  BY <1>4, <1>5, <1>9, <1>11 DEF vm_release_object
<1>13. /\ IsCtx(d) /\ SameStacks(e, d)
       /\ d.chain = a /\ d.obj = e.obj /\ d.state = e.state
       /\ d.mem = Restrict(e.mem, DOMAIN e.mem \cap Bodies(a))
  BY <1>5, <1>12, FreedFields
<1>14. PICK q : q = d.mem
  OBVIOUS
<1>15. Survives(n, a, q)
  BY <1>5, <1>13, <1>14 DEF Survives
<1>16. HeapOK(a, q, {})
  <2>1. o \notin {} /\ HeapOK(ch, n, {}) /\ Drops(ch, a, o)
    BY <1>8, <1>11
  <2> QED
    BY <2>1, <1>15, FreeHeap
<1>17. DOMAIN q \subseteq DOMAIN n /\ \A p \in DOMAIN q : q[p] = n[p]
  BY <1>15 DEF Restrict, Survives
<1>18. Preserved(c, d)
  BY <1>1, <1>5, <1>13 DEF Preserved, SameStacks
<1>19. Len(a) > 1
  BY <1>11 DEF Drops
<1>20. i = 1 => Kept(d, 1)
  <2>1. SUFFICES ASSUME i = 1, Body(a[1]) \in DOMAIN q PROVE ~IsZero(q[Body(a[1])].mgc)
    BY <1>13, <1>14 DEF Kept
  <2>2. Body(a[1]) = o
    BY <2>1, <1>10, <1>11
  <2>3. q[o] = Zeroed
    BY <2>1, <2>2, <1>7, <1>17
  <2> QED
    BY <2>2, <2>3 DEF Zeroed, IsZero
<1>21. ASSUME i > 1, m[o].holds = NULL, NEW j \in 1 .. i - 1, Kept(c, j)
       PROVE  Kept(d, j)
  <2>1. PICK b : b = Body(a[j])
    OBVIOUS
  <2>2. b = Body(ch[j])
    BY <2>1, <1>11, <1>21
  <2>3. b # o
    <3>1. WellFormed(ch)
      BY <1>6 DEF HeapOK, ListOK
    <3>2. j \in 1 .. Len(ch) /\ i \in 1 .. Len(ch) /\ j # i
      BY <1>1, <1>2, <1>21
    <3> QED
      BY <3>1, <3>2, <2>2, <1>10, BodyUnique
  <2>4. SUFFICES ASSUME b \in DOMAIN q PROVE ~IsZero(q[b].mgc)
    BY <2>1, <1>13, <1>14 DEF Kept
  <2>5. b \in DOMAIN m
    BY <2>4, <1>8, <1>17
  <2>6. q[b] = m[b]
    BY <2>3, <2>4, <2>5, <1>7, <1>17, <1>21
  <2>7. ~IsZero(m[b].mgc)
    BY <2>2, <2>5, <1>2, <1>21 DEF Kept
  <2> QED
    BY <2>6, <2>7
<1>22. /\ i = 1 => Len(d.chain) = Len(c.chain)
       /\ i > 1 => Len(d.chain) = Len(c.chain) - 1
  BY <1>2, <1>11, <1>13
<1>23. i > 1 /\ c.mem[o].holds = NULL => \A j \in 1 .. i - 1 : Kept(c, j) => Kept(d, j)
  BY <1>2, <1>21
<1> QED
  BY <1>13, <1>14, <1>16, <1>18, <1>19, <1>20, <1>22, <1>23


\* The parts of the invariant for a machine that still has its stacks.
LEMMA VisitKeeps ==
  ASSUME NEW c, NEW fs, NEW d, NEW h,
         RestInv(c), StacksInv(c), FramesInv(c, fs), Preserved(c, d),
         HeapOK(d.chain, d.mem, {}), Len(d.chain) > 1, GcInv(d, h)
  PROVE  Invariant(d, fs, h)
<1>1. RestInv(d) /\ StacksInv(d) /\ FramesInv(d, fs)
  BY PreservedKeeps
<1>2. WellFormed(d.chain)
  BY DEF HeapOK, ListOK
<1>3. Len(d.chain) # 1
  BY <1>2, OneOrMore
<1>4. HeapInv(d, fs)
  BY <1>3 DEF HeapInv
<1> QED
  BY <1>1, <1>4 DEF Invariant

\* The chunk that the collector visits is kept.
LEMMA KeepsVisitKept ==
  ASSUME NEW c, NEW fs, NEW g, NEW d, NEW h, NEW i,
         Invariant(c, fs, g), i = g.at, Visits(c, i), ~IsZero(MgcAt(c, i)),
         d = ShiftNext(c, i), h = [g EXCEPT !.at = Advance(c, d, i)]
  PROVE  Invariant(d, fs, h)
<1>1. RestInv(c) /\ StacksInv(c) /\ FramesInv(c, fs) /\ GcInv(c, g)
  BY DEF Invariant
<1>2. /\ Preserved(c, d) /\ HeapOK(d.chain, d.mem, {})
      /\ Moved(c.chain, c.mem, d.chain, d.mem)
  BY ShiftNextKeeps
<1>3. PICK l : l = Len(c.chain)
  OBVIOUS
<1>4. Len(d.chain) = l /\ l \in Nat /\ i \in 1 .. l /\ i + 1 < l
  BY <1>2, <1>3 DEF Moved, Visits
<1>5. Advance(c, d, i) = i + 1
  BY <1>3, <1>4 DEF Advance
<1>6. g \in [at : Nat, released : BOOLEAN]
  BY <1>1 DEF GcInv
<1>7. h \in [at : Nat, released : BOOLEAN] /\ h.at = i + 1 /\ h.released = g.released
  BY <1>4, <1>5, <1>6
<1>8. Kept(c, i)
  <2>1. PICK b : b = Body(c.chain[i])
    OBVIOUS
  <2>2. b \in DOMAIN c.mem => ~IsZero(c.mem[b].mgc)
    BY <2>1 DEF MgcAt
  <2> QED
    BY <2>1, <2>2 DEF Kept
<1>9. ASSUME ~g.released, NEW j \in 1 .. i PROVE Kept(d, j)
  <2>1. Kept(c, j)
    <3>1. CASE j = i
      BY <3>1, <1>8
    <3>2. CASE j # i
      <4>1. j \in 1 .. g.at - 1
        BY <3>2, <1>4
      <4> QED
        BY <4>1, <1>1, <1>9 DEF GcInv
    <3> QED
      BY <3>1, <3>2
  <2>2. j \in 1 .. Len(c.chain) - 1
    BY <1>3, <1>4
  <2> QED
    BY <2>1, <2>2, <1>2, MovedKept
<1>10. GcInv(d, h)
  <2>1. i + 1 # 0 /\ i + 1 - 1 = i /\ i + 1 < Len(d.chain)
    BY <1>4
  <2>2. ~h.released => \A j \in 1 .. h.at - 1 : Kept(d, j)
    <3>1. PICK k : k = h.at
      OBVIOUS
    <3>2. k - 1 = i
      BY <3>1, <1>4, <1>7
    <3>3. ~h.released => \A j \in 1 .. k - 1 : Kept(d, j)
      BY <3>2, <1>7, <1>9
    <3> QED
      BY <3>1, <3>3
  <2> QED
    BY <2>1, <2>2, <1>7 DEF GcInv
<1>11. Len(d.chain) > 1
  BY <1>4
<1> QED
  BY <1>1, <1>2, <1>10, <1>11, VisitKeeps

\* The chunk that the collector visits is garbage.
LEMMA KeepsVisitGarbage ==
  ASSUME NEW c, NEW fs, NEW g, NEW d, NEW h, NEW i, NEW o,
         Invariant(c, fs, g), i = g.at, Visits(c, i), o = Body(c.chain[i]), o \in DOMAIN c.mem,
         d = Collect(ShiftNext(c, i), o),
         h = [at |-> Advance(c, d, i), released |-> g.released \/ c.mem[o].holds # NULL]
  PROVE  Invariant(d, fs, h)
<1>1. RestInv(c) /\ StacksInv(c) /\ FramesInv(c, fs) /\ GcInv(c, g)
  BY DEF Invariant
<1>2. PICK e : e = ShiftNext(c, i)
  OBVIOUS
<1>3. /\ Preserved(c, e) /\ HeapOK(e.chain, e.mem, {})
      /\ Moved(c.chain, c.mem, e.chain, e.mem)
      /\ e.chain[i] = c.chain[i]
  BY <1>2, ShiftNextKeeps
<1>4. PICK l : l = Len(c.chain)
  OBVIOUS
<1>5. Len(e.chain) = l /\ l \in Nat /\ i \in 1 .. l /\ i + 1 < l /\ i \in 1 .. l - 1
  BY <1>3, <1>4 DEF Moved, Visits
<1>6. RestInv(e) /\ StacksInv(e) /\ FramesInv(e, fs)
  BY <1>1, <1>3, PreservedKeeps
<1>7. Visits(e, i)
  BY <1>3, <1>5, <1>6 DEF Visits, RestInv, StacksInv
<1>8. o = Body(e.chain[i]) /\ o \in DOMAIN e.mem /\ e.mem[o] = c.mem[o] /\ d = Collect(e, o)
  BY <1>2, <1>3, <1>4, <1>5 DEF Moved
<1>9. /\ Preserved(e, d) /\ HeapOK(d.chain, d.mem, {}) /\ Len(d.chain) > 1
      /\ i = 1 => Len(d.chain) = Len(e.chain) /\ Kept(d, 1)
      /\ i > 1 => Len(d.chain) = Len(e.chain) - 1
      /\ i > 1 /\ e.mem[o].holds = NULL =>
           \A j \in 1 .. i - 1 : Kept(e, j) => Kept(d, j)
  BY <1>7, <1>8, CollectKeeps
<1>10. h.released \in BOOLEAN /\ (~h.released => ~g.released /\ e.mem[o].holds = NULL)
  BY <1>8
<1>11. ASSUME ~g.released, NEW j \in 1 .. i - 1 PROVE Kept(e, j)
  <2>1. Kept(c, j)
    BY <1>1, <1>11 DEF GcInv
  <2>2. j \in 1 .. Len(c.chain) - 1
    BY <1>4, <1>5
  <2> QED
    BY <2>1, <2>2, <1>3, MovedKept
<1>12. CASE i = 1
  <2>1. Advance(c, d, i) = 2 /\ Len(d.chain) = l
    BY <1>4, <1>5, <1>9, <1>12 DEF Advance
  <2>2. h \in [at : Nat, released : BOOLEAN] /\ h.at = 2
    BY <2>1, <1>10
  <2>3. h.at < Len(d.chain) /\ h.at # 0 /\ \A j \in 1 .. h.at - 1 : j = 1
    BY <2>1, <2>2, <1>5, <1>12
  <2>4. GcInv(d, h)
    BY <2>2, <2>3, <1>9, <1>12 DEF GcInv
  <2> QED
    BY <2>4, <1>6, <1>9, VisitKeeps
<1>13. CASE i > 1
  <2>1. Advance(c, d, i) = i /\ Len(d.chain) = l - 1
    BY <1>4, <1>5, <1>9, <1>13 DEF Advance
  <2>2. h \in [at : Nat, released : BOOLEAN] /\ h.at = i
    BY <2>1, <1>5, <1>10
  <2>3. h.at < Len(d.chain) /\ h.at # 0
    BY <2>1, <2>2, <1>5, <1>13
  <2>4. ~h.released => \A j \in 1 .. h.at - 1 : Kept(d, j)
    BY <2>2, <1>9, <1>10, <1>11, <1>13
  <2>5. GcInv(d, h)
    BY <2>2, <2>3, <2>4 DEF GcInv
  <2> QED
    BY <2>5, <1>6, <1>9, VisitKeeps
<1> QED
  BY <1>5, <1>12, <1>13


\* The walk is over.
LEMMA KeepsGcEnd ==
  ASSUME NEW c, NEW fs, NEW g, NEW d, NEW h,
         Invariant(c, fs, g), g.at # 0, c.chain[g.at + 1].size = 0,
         d = [c EXCEPT !.state = IF c.ends THEN "INIT" ELSE @], h = [g EXCEPT !.at = 0]
  PROVE  Invariant(d, fs, h)
<1>1. RestInv(c) /\ HeapInv(c, fs) /\ StacksInv(c) /\ FramesInv(c, fs) /\ GcInv(c, g)
  BY DEF Invariant
<1>2. g \in [at : Nat, released : BOOLEAN] /\ g.at < Len(c.chain)
  BY <1>1 DEF GcInv
<1>3. HeapOK(c.chain, c.mem, {}) /\ WellFormed(c.chain) /\ NonEmpty(c.chain)
  BY <1>1 DEF HeapInv, HeapOK, ListOK, WellFormed
<1>4. Len(c.chain) \in Nat
  BY <1>3, WellFormedFacts
<1>5. g.at - 1 = Len(c.chain) - 2
  <2>1. g.at + 1 \notin 2 .. Len(c.chain) - 1
    BY <1>3 DEF NonEmpty
  <2> QED
    BY <2>1, <1>2, <1>4
<1>6. /\ IsCtx(d) /\ d.chain = c.chain /\ d.mem = c.mem /\ d.st = c.st /\ d.sp = c.sp
      /\ d.bp = c.bp /\ d.obj = c.obj /\ d.ends = c.ends
      /\ d.state = IF c.ends THEN "INIT" ELSE c.state
  BY <1>1 DEF RestInv, IsCtx, Fields
<1>7. MarksOf(d) = MarksOf(c) /\ (d.state = "RUN" => c.state = "RUN") /\ d.state \in States
  BY <1>1, <1>6 DEF MarksOf, RestInv, States
<1>8. RestInv(d) /\ HeapInv(d, fs)
  BY <1>1, <1>6, <1>7 DEF RestInv, HeapInv
<1>9. StacksInv(d) /\ FramesInv(d, fs)
  BY <1>1, <1>6, <1>7 DEF StacksInv, FramesInv
<1>10. GcInv(d, h)
  <2>1. h \in [at : Nat, released : BOOLEAN] /\ h.at = 0 /\ h.released = g.released
    BY <1>2
  <2>2. 0 < Len(d.chain) /\ \A j \in 1 .. 0 - 1 : Kept(d, j)
    BY <1>2, <1>4, <1>6
  <2>3. ~g.released => \A j \in 1 .. Len(c.chain) - 2 : Kept(c, j)
    BY <1>1, <1>5 DEF GcInv
  <2>4. ~g.released => \A j \in 1 .. Len(d.chain) - 2 : Kept(d, j)
    BY <2>3, <1>6 DEF Kept
  <2> QED
    BY <2>1, <2>2, <2>4 DEF GcInv
<1> QED
  BY <1>8, <1>9, <1>10 DEF Invariant

\* The collector calls what is no function.
LEMMA KeepsVisitCrash ==
  ASSUME NEW c, NEW fs, NEW g, NEW d, NEW h,
         Invariant(c, fs, g), d = [c EXCEPT !.state = "CRASH"], h = [g EXCEPT !.at = 0]
  PROVE  Invariant(d, fs, h)
<1>1. FramesOK(fs)
  BY DEF Invariant, FramesInv
<1>2. Invariant(d, fs, g)
  BY <1>1, CrashKeeps
<1>3. RestInv(d) /\ HeapInv(d, fs) /\ StacksInv(d) /\ FramesInv(d, fs) /\ GcInv(d, g)
  BY <1>2 DEF Invariant
<1>4. d.state = "CRASH"
  BY DEF Invariant, RestInv, IsCtx, Fields
<1>5. g \in [at : Nat, released : BOOLEAN] /\ g.at < Len(d.chain)
  BY <1>3 DEF GcInv
<1>6. WellFormed(d.chain)
  BY <1>3 DEF HeapInv, HeapOK, ListOK
<1>7. Len(d.chain) \in Nat /\ Len(d.chain) >= 1
  BY <1>6, WellFormedFacts
<1>8. h \in [at : Nat, released : BOOLEAN] /\ h.at = 0
  BY <1>5
<1>9. 0 < Len(d.chain) /\ 1 .. 0 - 1 = {}
  BY <1>7
<1>10. GcInv(d, h)
  BY <1>4, <1>8, <1>9 DEF GcInv
<1> QED
  BY <1>3, <1>10 DEF Invariant

\* One iteration of the collector's loop.
LEMMA KeepsGcStep ==
  ASSUME Inv, GcStep
  PROVE  Inv'
<1>1. PICK c, fs, g, d, h, i, o : /\ c = ctx /\ fs = frames /\ g = gc /\ d = ctx' /\ h = gc'
                                  /\ i = gc.at /\ o = Body(ctx.chain[gc.at])
  OBVIOUS
<1>2. Invariant(c, fs, g) /\ frames' = fs /\ g.at # 0 /\ i = g.at
  BY <1>1 DEF Inv, GcStep
<1>3. SUFFICES Invariant(d, fs, h)
  BY <1>1, <1>2 DEF Inv
<1>4. /\ RestInv(c) /\ HeapInv(c, fs) /\ StacksInv(c) /\ GcInv(c, g)
  BY <1>2 DEF Invariant
<1>5. HeapOK(c.chain, c.mem, {}) /\ WellFormed(c.chain) /\ c.chain[Len(c.chain)].size = 0
  BY <1>4 DEF HeapInv, HeapOK, ListOK
<1>6. Len(c.chain) \in Nat /\ i \in Nat /\ i < Len(c.chain) /\ i >= 1
  <2>1. Len(c.chain) \in Nat
    BY <1>5, WellFormedFacts
  <2>2. g.at \in Nat /\ g.at < Len(c.chain)
    BY <1>4 DEF GcInv
  <2> QED
    BY <2>1, <2>2, <1>2
<1>7. CASE m_next_chunk(ctx.chain, gc.at) = NULL
  <2>1. c.chain[g.at + 1].size = 0
    <3>1. gc.at + 1 # NULL
      BY <1>1, <1>6 DEF NULL
    <3> QED
      BY <3>1, <1>1, <1>7 DEF m_next_chunk
  <2>2. GcEnd
    BY <1>7 DEF GcStep
  <2>3. d = [c EXCEPT !.state = IF c.ends THEN "INIT" ELSE @] /\ h = [g EXCEPT !.at = 0]
    BY <2>2, <1>1 DEF GcEnd
  <2> QED
    BY <2>1, <2>3, <1>2, KeepsGcEnd
<1>8. CASE m_next_chunk(ctx.chain, gc.at) # NULL
  <2>1. c.chain[i + 1].size # 0
    BY <1>1, <1>8 DEF m_next_chunk
  <2>2. i + 1 # Len(c.chain)
    BY <2>1, <1>5
  <2>3. Visits(c, i)
    BY <2>2, <1>4, <1>5, <1>6 DEF Visits, RestInv, StacksInv
  <2>4. o = Body(c.chain[i])
    BY <1>1
  <2>5. GcVisit(i, o)
    BY <1>1, <1>8 DEF GcStep
  <2>6. \/ /\ ~IsZero(MgcAt(c, i))
           /\ d = ShiftNext(c, i) /\ h = [g EXCEPT !.at = Advance(c, d, i)]
        \/ /\ o \in DOMAIN c.mem /\ d = Collect(ShiftNext(c, i), o)
           /\ h = [at |-> Advance(c, d, i), released |-> g.released \/ c.mem[o].holds # NULL]
        \/ d = [c EXCEPT !.state = "CRASH"] /\ h = [g EXCEPT !.at = 0]
    BY <2>5, <1>1, Zenon DEF GcVisit
  <2>7. CASE ~IsZero(MgcAt(c, i))
             /\ d = ShiftNext(c, i) /\ h = [g EXCEPT !.at = Advance(c, d, i)]
    BY <2>3, <2>7, <1>2, KeepsVisitKept
  <2>8. CASE o \in DOMAIN c.mem /\ d = Collect(ShiftNext(c, i), o)
             /\ h = [at |-> Advance(c, d, i), released |-> g.released \/ c.mem[o].holds # NULL]
    BY <2>3, <2>4, <2>8, <1>2, KeepsVisitGarbage
  <2>9. CASE d = [c EXCEPT !.state = "CRASH"] /\ h = [g EXCEPT !.at = 0]
    BY <2>9, <1>2, KeepsVisitCrash
  <2> QED
    BY <2>6, <2>7, <2>8, <2>9
<1> QED
  BY <1>7, <1>8


-----------------------------------------------------------------------------
(***************************************************************************)
(* How a run starts.                                                       *)
(***************************************************************************)

\* What a machine looks like before its first instruction.
Starts(c, M) ==
  /\ IsCtx(c) /\ c.state \in States /\ c.obj = NULL /\ c.ends = FALSE
  /\ HeapOK(c.chain, c.mem, {})
  /\ StackOK(c.st, c.sp, c.bp, M)
  /\ c.sp \in MaxStack - 2 .. MaxStack - 1
  /\ c.bp \in {2, 4} /\ M = 0 .. c.bp - 1
  /\ c.state = "RUN" => \A j \in 1 .. Len(c.chain) - 2 : Kept(c, j)

\* A machine that starts satisfies the invariant.
LEMMA StartsSound ==
  ASSUME NEW c, NEW M, NEW fs, NEW g, Starts(c, M), fs = <<Entered(c.bp)>>,
         g = [at |-> 0, released |-> FALSE]
  PROVE  Invariant(c, fs, g)
<1>1. RestInv(c)
  BY DEF Starts, RestInv
<1>2. HeapOK(c.chain, c.mem, {})
  BY DEF Starts
<1>3. /\ Entered(c.bp).base = c.bp /\ Entered(c.bp).locals = 0
      /\ Entered(c.bp).left = FALSE /\ Entered(c.bp) \in Frame
  BY Constants DEF Entered, Frame, Starts
<1>4. Len(fs) = 1 /\ fs[1] = Entered(c.bp) /\ fs \in Seq(Frame) /\ \A k \in 1 .. Len(fs) : k = 1
  BY <1>3
<1>5. HeapInv(c, fs)
  BY <1>2, <1>3, <1>4 DEF HeapInv
<1>6. c.bp \in {2, 4} /\ M \subseteq {s \in Slots : s < c.bp} /\ c.sp \in Slots /\ c.bp < c.sp
  BY Constants DEF Starts, Slots
<1>7. MarksOf(c) = M /\ StackOK(c.st, c.sp, c.bp, M)
  <2>1. StackOK(c.st, c.sp, c.bp, M)
    BY DEF Starts
  <2> QED
    BY <2>1, <1>6, MarksAre
<1>8. StacksInv(c)
  <2>1. c.bp \in 0 .. MaxStack - 2 + MostPushed
    BY <1>6, Constants DEF MostPushed
  <2> QED
    BY <2>1, <1>6, <1>7 DEF StacksInv
<1>9. FramesOK(fs)
  BY <1>3, <1>4 DEF FramesOK
<1>10. Aligned(fs, c.bp, M)
  <2>1. c.bp - 1 \in M /\ c.bp - 2 \in M
    BY <1>6 DEF Starts
  <2>2. End(fs[1]) = c.bp /\ fs[1].base = c.bp
    BY <1>3, <1>4, <1>6 DEF End
  <2>3. fs[1].base .. End(fs[1]) - 1 = {} /\ c.bp <= c.bp /\ 1 + 1 .. Len(fs) = {}
    BY <2>2, <1>4, <1>6
  <2> QED
    BY <2>1, <2>2, <2>3, <1>4 DEF Aligned
<1>11. FramesInv(c, fs)
  BY <1>7, <1>9, <1>10 DEF FramesInv
<1>12. GcInv(c, g)
  <2>1. Len(c.chain) \in Nat /\ Len(c.chain) >= 1
    BY <1>2, WellFormedFacts DEF HeapOK, ListOK
  <2>2. 0 < Len(c.chain) /\ 1 .. 0 - 1 = {}
    BY <2>1
  <2>3. g \in [at : Nat, released : BOOLEAN] /\ g.at = 0
    OBVIOUS
  <2> QED
    BY <2>2, <2>3 DEF GcInv, Starts
<1> QED
  BY <1>1, <1>5, <1>8, <1>11, <1>12 DEF Invariant

\* The stacks of a new machine.
LEMMA BlankFields ==
  ASSUME NEW ch, NEW k \in {2, 4}, NEW c, c = Blank(ch, k)
  PROVE  /\ IsCtx(c) /\ c.chain = ch /\ c.mem = << >> /\ c.sp = MaxStack - 1 /\ c.bp = k
         /\ c.obj = NULL /\ c.state = "RUN" /\ c.ends = FALSE
         /\ StackOK(c.st, MaxStack - 1, k, 0 .. k - 1)
<1>1. /\ IsCtx(c) /\ c.chain = ch /\ c.mem = << >> /\ c.sp = MaxStack - 1 /\ c.bp = k
      /\ c.obj = NULL /\ c.state = "RUN" /\ c.ends = FALSE
      /\ c.st = [s \in 0 .. MaxStack - 1 |-> IF s < k THEN RetMark ELSE NULL]
  BY DEF Blank, IsCtx, Fields
<1>2. NULL \in Addresses /\ NULL # RetMark
  BY Constants DEF NULL, Addresses, RetMark
<1>3. c.st \in [Slots -> {RetMark} \cup Addresses]
  BY <1>1, <1>2 DEF Slots
<1>4. \A s \in Slots : c.st[s] = IF s < k THEN RetMark ELSE NULL
  BY <1>1 DEF Slots
<1>5. \A s \in Slots : ~(s > MaxStack - 1)
  BY Constants DEF Slots
<1>6. \A s \in Slots : s < k => (c.st[s] = RetMark <=> s \in 0 .. k - 1)
  BY <1>4 DEF Slots
<1> QED
  BY <1>1, <1>3, <1>5, <1>6 DEF StackOK

\* A heap that holds nothing.
LEMMA NothingHeld ==
  ASSUME NEW ch, WellFormed(ch), Taken(ch) = {}, ch[Len(ch)].size = 0,
         RootTaken /\ Len(ch) > 1 => ch[1].size > 0
  PROVE  HeapOK(ch, << >>, {})
<1>1. DOMAIN << >> = {} /\ << >> = [o \in DOMAIN << >> |-> << >>[o]]
  OBVIOUS
<1> QED
  BY <1>1 DEF HeapOK, ListOK, IsMem

\* vm_init_exec starts a machine.
LEMMA ClassStarts ==
  ASSUME NEW c, c = vm_init_exec
  PROVE  Starts(c, 0 .. 1)
<1>1. PICK ch : ch = <<[at |-> 0, size |-> 0]>>
  OBVIOUS
<1>2. Len(ch) = 1 /\ ch[1] = [at |-> 0, size |-> 0] /\ ch \in Seq(Chunk)
  BY <1>1 DEF Chunk
<1>3. WellFormed(ch)
  BY <1>2, Constants DEF WellFormed, Ordered, NonEmpty
<1>4. Taken(ch) = {}
  BY <1>2, <1>3, EmptyTaken
<1>5. ch[Len(ch)].size = 0 /\ ~(Len(ch) > 1)
  BY <1>2
<1>6. HeapOK(ch, << >>, {})
  BY <1>3, <1>4, <1>5, NothingHeld
<1>7. 2 \in {2, 4} /\ c = Blank(ch, 2)
  BY <1>1 DEF vm_init_exec
<1>8. /\ IsCtx(c) /\ c.chain = ch /\ c.mem = << >> /\ c.sp = MaxStack - 1 /\ c.bp = 2
      /\ c.obj = NULL /\ c.state = "RUN" /\ c.ends = FALSE
      /\ StackOK(c.st, MaxStack - 1, 2, 0 .. 2 - 1)
  BY <1>7, BlankFields
<1>9. 2 - 1 = 1 /\ MaxStack - 1 \in MaxStack - 2 .. MaxStack - 1 /\ 1 .. Len(ch) - 2 = {}
  BY <1>2, Constants
<1> QED
  BY <1>6, <1>8, <1>9 DEF Starts, States


\* A callback: its argument is the first object behind the empty root, or there
\* is no room for it.
LEMMA CallbackStarts ==
  ASSUME NEW len \in Nat, NEW c, c = vm_exec_callback(len), ~RootTaken
  PROVE  Starts(c, 0 .. 3)
<1>1. PICK ch, s : ch = m_init_alloc(0) /\ s = ObjSize + len
  OBVIOUS
<1>2. PICK b : b = Blank(ch, 4)
  OBVIOUS
<1>3. PICK r : r = m_alloc(ch, s)
  OBVIOUS
<1>4. PICK a : a = Alloc(b, s)
  OBVIOUS
<1>5. PICK e : e = InitObject(a)
  OBVIOUS
<1>6. e = vm_create_object(b, len)
  BY <1>1, <1>4, <1>5 DEF vm_create_object
<1>7. PICK p : p = vm_push_stack_arc(e, e.obj)
  OBVIOUS
<1>8. c = [p EXCEPT !.obj = NULL]
  BY <1>1, <1>2, <1>6, <1>7 DEF vm_exec_callback, PushCounted
<1>9. /\ Len(ch) = 2 /\ ch[1] = [at |-> 0, size |-> 0] /\ ch[2] = [at |-> Hdr, size |-> 0]
      /\ ch \in Seq(Chunk)
  BY <1>1, Constants DEF m_init_alloc, Chunk
<1>10. WellFormed(ch)
  BY <1>9, Constants DEF WellFormed, Ordered, NonEmpty, EndOf
<1>11. Taken(ch) = {}
  BY <1>9 DEF Taken, Blocks
<1>12. ch[Len(ch)].size = 0
  BY <1>9
<1>13. HeapOK(ch, << >>, {})
  BY <1>10, <1>11, <1>12, NothingHeld
<1>14. /\ IsCtx(b) /\ b.chain = ch /\ b.mem = << >> /\ b.sp = MaxStack - 1 /\ b.bp = 4
       /\ b.obj = NULL /\ b.state = "RUN" /\ b.ends = FALSE
       /\ StackOK(b.st, MaxStack - 1, 4, 0 .. 3)
  <2>1. /\ IsCtx(b) /\ b.chain = ch /\ b.mem = << >> /\ b.sp = MaxStack - 1 /\ b.bp = 4
        /\ b.obj = NULL /\ b.state = "RUN" /\ b.ends = FALSE
        /\ StackOK(b.st, MaxStack - 1, 4, 0 .. 4 - 1)
    BY <1>2, BlankFields
  <2>2. 4 - 1 = 3
    OBVIOUS
  <2> QED
    BY <2>1, <2>2
<1>15. PICK sp, M : sp = MaxStack - 1 /\ M = 0 .. 3
  OBVIOUS
<1>16. /\ Room(sp, 4) /\ NULL \in Addresses /\ sp - 1 = MaxStack - 2
       /\ MaxStack - 2 \in MaxStack - 2 .. MaxStack - 1
  BY <1>15, Constants DEF Room, Slots, NULL, Addresses
<1>17. /\ IsCtx(a) /\ SameStacks(b, a) /\ a.chain = r.chain /\ a.mem = b.mem /\ a.obj = r.ptr
       /\ a.state = IF r.ptr = NULL THEN "CRASH" ELSE b.state
  BY <1>3, <1>4, <1>14, AllocFields DEF Alloc
<1>18. /\ IsCtx(e) /\ SameStacks(a, e) /\ e.chain = a.chain /\ e.obj = a.obj /\ e.state = a.state
       /\ e.mem = IF a.obj = NULL THEN a.mem ELSE Initialised(a.mem, a.obj)
  BY <1>5, <1>17, InitFields
<1>19. /\ IsCtx(c) /\ c.obj = NULL /\ c.chain = e.chain /\ c.state = e.state /\ c.ends = e.ends
       /\ c.mem = Inc(e.mem, e.obj) /\ c.bp = e.bp /\ c.sp = e.sp - 1
       /\ c.st = [e.st EXCEPT ![e.sp] = e.obj]
  <2>1. /\ IsCtx(p) /\ p.chain = e.chain /\ p.state = e.state /\ p.ends = e.ends
        /\ p.mem = Inc(e.mem, e.obj) /\ p.bp = e.bp /\ p.sp = e.sp - 1
        /\ p.st = [e.st EXCEPT ![e.sp] = e.obj]
    BY <1>7, <1>18 DEF vm_push_stack_arc, vm_push_stack, IsCtx, Fields
  <2> QED
    BY <2>1, <1>8 DEF IsCtx, Fields
<1>20. /\ c.sp = sp - 1 /\ c.bp = 4 /\ c.ends = FALSE /\ c.state \in States
       /\ e.st = b.st /\ e.sp = sp
  BY <1>14, <1>15, <1>17, <1>18, <1>19 DEF SameStacks, States
<1>21. s \in Nat \ {0} /\ HoldsObject(s)
  BY <1>1, Constants DEF HoldsObject
<1>22. \/ r = [chain |-> ch, ptr |-> NULL]
       \/ Adds(ch, r.chain, r.ptr, s)
  BY <1>3, <1>10, <1>21, AllocAdds
<1>23. e.obj \in Addresses
  <2>1. CASE r = [chain |-> ch, ptr |-> NULL]
    BY <2>1, <1>16, <1>17, <1>18
  <2>2. CASE Adds(ch, r.chain, r.ptr, s)
    BY <2>2, <1>17, <1>18, Constants DEF Adds, Addresses
  <2> QED
    BY <2>1, <2>2, <1>22
<1>24. StackOK(c.st, c.sp, c.bp, M)
  <2>1. PICK st, t, o : st = e.st /\ t = c.st /\ o = e.obj
    OBVIOUS
  <2>2. StackOK(st, sp, 4, M) /\ t = [st EXCEPT ![sp] = o] /\ o \in Addresses
    BY <2>1, <1>14, <1>15, <1>19, <1>20, <1>23
  <2>3. StackOK(t, sp - 1, 4, M)
    BY <2>2, <1>16, SetOperand
  <2> QED
    BY <2>1, <2>3, <1>20
<1>25. CASE r = [chain |-> ch, ptr |-> NULL]
  <2>1. c.chain = ch /\ c.state = "CRASH" /\ e.mem = << >> /\ e.obj = NULL
    BY <1>14, <1>17, <1>18, <1>19, <1>25
  <2>2. c.mem = << >>
    BY <2>1, <1>19 DEF Inc
  <2> QED
    BY <2>1, <2>2, <1>13, <1>15, <1>16, <1>19, <1>20, <1>24 DEF Starts
<1>26. CASE Adds(ch, r.chain, r.ptr, s)
  <2>1. r.ptr # NULL
    BY <1>26 DEF Adds, NULL
  <2>2. PICK m, n, d : m = Initialised(<< >>, r.ptr) /\ n = c.mem /\ d = r.chain
    OBVIOUS
  <2>3. e.mem = m /\ c.chain = d /\ n = Inc(m, r.ptr)
    BY <2>1, <2>2, <1>14, <1>17, <1>18, <1>19
  <2>4. PICK z : z = << >>
    OBVIOUS
  <2>5. HeapOK(ch, z, {}) /\ Adds(ch, d, r.ptr, s) /\ m = Initialised(z, r.ptr)
    BY <2>2, <2>4, <1>13, <1>26
  <2>6. HeapOK(d, m, {})
    BY <2>5, <1>21, ObjectHeap
  <2>7. IsMem(m)
    BY <2>6 DEF HeapOK
  <2>8. Retyped(m, n)
    BY <2>3, <2>7, IncRetypes
  <2>9. HeapOK(d, n, {})
    BY <2>6, <2>8, RetypedHeap
  <2>10. Len(d) = 3 /\ d[1] = ch[1]
    <3>1. Len(d) = Len(ch) + 1 /\ (Len(ch) > 1 => d[1] = ch[1])
      BY <2>2, <1>26 DEF Adds
    <3> QED
      BY <3>1, <1>9
  <2>11. Body(d[1]) \notin DOMAIN n
    <3>1. 1 \in 1 .. Len(d) - 1 /\ ~(d[1].size > 0)
      BY <2>10, <1>9
    <3> QED
      BY <3>1, <2>9, TakenAt
  <2>12. \A j \in 1 .. Len(c.chain) - 2 : Kept(c, j)
    <3>1. \A j \in 1 .. Len(c.chain) - 2 : j = 1
      BY <2>3, <2>10
    <3>2. Kept(c, 1)
      BY <2>2, <2>3, <2>11 DEF Kept
    <3> QED
      BY <3>1, <3>2
  <2>13. HeapOK(c.chain, c.mem, {})
    BY <2>2, <2>3, <2>9
  <2> QED
    BY <2>12, <2>13, <1>15, <1>16, <1>19, <1>20, <1>24 DEF Starts
<1> QED
  BY <1>22, <1>25, <1>26

-----------------------------------------------------------------------------
(***************************************************************************)
(* The theorems.                                                           *)
(***************************************************************************)

\* Every run starts in order: vm_init_exec and vm_exec_callback.
LEMMA InitSound ==
  ASSUME Init
  PROVE  Inv
<1>1. frames = <<Entered(ctx.bp)>> /\ gc = [at |-> 0, released |-> FALSE]
  BY DEF Init
<1>2. \/ ctx = vm_init_exec
      \/ "callback" \in Entries /\ \E len \in ArgLens : ctx = vm_exec_callback(len)
  BY DEF Init
<1>3. \E M : Starts(ctx, M)
  <2>1. CASE ctx = vm_init_exec
    BY <2>1, ClassStarts
  <2>2. CASE "callback" \in Entries /\ \E len \in ArgLens : ctx = vm_exec_callback(len)
    <3>1. PICK len \in ArgLens : ctx = vm_exec_callback(len)
      BY <2>2
    <3>2. len \in Nat /\ ~RootTaken
      BY <2>2, Constants DEF RootTaken
    <3> QED
      BY <3>1, <3>2, CallbackStarts
  <2> QED
    BY <1>2, <2>1, <2>2
<1> QED
  BY <1>1, <1>3, StartsSound DEF Inv

\* Every instruction of vm_decode, and every iteration of the collector's loop,
\* keeps the machine in order.
LEMMA NextSound ==
  ASSUME RootKept, Inv, [Next]_vars
  PROVE  Inv'
<1>1. CASE Instruction
  BY <1>1, KeepsOBJPUSH, KeepsOBJSTORE, KeepsOBJPOP, KeepsOBJDUP, KeepsOBJDEL, KeepsJFALSE,
     KeepsSWITCH, KeepsJMP, KeepsOBJCONST, KeepsF2O, KeepsOBJSUB, KeepsOBJSZ, KeepsOperation,
     KeepsCompare, KeepsOperationFails, KeepsNativeOperator, KeepsNumberOverruns,
     KeepsConstantTooLong, KeepsArgNative, KeepsSCTX, KeepsRCTX, KeepsRET,
     KeepsCALL, KeepsEXTCALL, KeepsOBJNEW, KeepsSyscall, KeepsSyscallFails, KeepsSetVar,
     KeepsArgFirst, KeepsArgAdd, KeepsArgPop, KeepsSysExec, KeepsSysExecMismatch, Zenon
  DEF Instruction
<1>2. CASE GcStep
  BY <1>2, KeepsGcStep
<1>3. CASE UNCHANGED vars
  BY <1>3 DEF vars, Inv
<1> QED
  BY <1>1, <1>2, <1>3 DEF Next


\* The machine is in order after every instruction of vm_decode and after every
\* iteration of the collector's loop.
THEOREM MachineSound ==
  ASSUME RootKept
  PROVE  Spec => []Inv
<1>1. Init => Inv
  BY InitSound
<1>2. Inv /\ [Next]_vars => Inv'
  BY NextSound
<1> QED
  BY <1>1, <1>2, PTL DEF Spec

\* Type correctness: whatever the program pushes, calls and deletes, the operands
\* stay inside vm_stacks, the chunks inside the heap and the iterator of the
\* collector inside the list; the frames leave vm_stacks by no more than SCTX
\* pushes before the overflow test.
THEOREM TypeCorrect ==
  ASSUME RootKept
  PROVE  Spec => []TypeOK
<1>1. Inv => TypeOK
  <2> SUFFICES ASSUME Inv PROVE TypeOK
    OBVIOUS
  <2>1. /\ RestInv(ctx) /\ HeapInv(ctx, frames) /\ StacksInv(ctx)
        /\ FramesInv(ctx, frames) /\ GcInv(ctx, gc)
    BY DEF Inv, Invariant
  <2>2. HeapOK(ctx.chain, ctx.mem, {}) /\ WellFormed(ctx.chain)
    BY <2>1 DEF HeapInv, HeapOK, ListOK
  <2>3. ctx.chain \in Seq(Chunk) /\ Len(ctx.chain) \in Nat
    BY <2>2, WellFormedFacts DEF WellFormed
  <2>4. DOMAIN ctx.mem \subseteq 1 .. HeapSize
    BY <2>2, TakenInHeap DEF HeapOK
  <2>5. \A o \in DOMAIN ctx.mem : /\ ctx.mem[o].mgc \in 0 .. 255
                                  /\ ctx.mem[o].lock \in 0 .. 255
                                  /\ ctx.mem[o].holds \in 0 .. HeapSize
    BY <2>2, ObjectFields DEF HeapOK, IsMem, Addresses
  <2>6. ctx.st \in [0 .. MaxStack - 1 -> {RetMark} \cup 0 .. HeapSize]
    BY <2>1 DEF StacksInv, StackOK, Slots, Addresses
  <2>7. ctx.bp \in 0 .. MaxStack - 2 + MostPushed /\ ctx.sp \in -1 .. MaxStack - 1
    BY <2>1, Constants DEF StacksInv, Slots
  <2>8. ctx.state \in States /\ ctx.obj = NULL /\ ctx.ends \in BOOLEAN
    BY <2>1 DEF RestInv
  <2>9. frames \in Seq([base : 2 .. MaxStack, locals : 0 .. MaxLocals, left : BOOLEAN])
    BY <2>1 DEF FramesInv, FramesOK, Frame
  <2>10. gc \in [at : 0 .. Len(ctx.chain), released : BOOLEAN]
    <3>1. gc \in [at : Nat, released : BOOLEAN] /\ gc.at < Len(ctx.chain)
      BY <2>1 DEF GcInv
    <3>2. gc.at \in 0 .. Len(ctx.chain)
      BY <3>1, <2>3
    <3> QED
      BY <3>1, <3>2
  <2> QED
    BY <2>3, <2>4, <2>5, <2>6, <2>7, <2>8, <2>9, <2>10 DEF TypeOK
<1> QED
  BY <1>1, MachineSound, PTL

\* The heap and the objects agree between instructions: every scratch buffer is
\* released on every path, and no release, no move of the collector and no
\* delete breaks the chunk list, even if the program deletes objects that are in
\* use or replaces arrays it enumerates.  It holds up to the crash of a machine
\* that runs out of memory, or that copies the text of a number of 12 or more
\* characters over the header behind its buffer.
THEOREM HeapStaysInAgreement ==
  ASSUME RootKept
  PROVE  Spec => []HeapAgrees
<1>1. Inv => HeapAgrees
  <2> SUFFICES ASSUME Inv PROVE HeapAgrees
    OBVIOUS
  <2>1. HeapOK(ctx.chain, ctx.mem, {})
    BY DEF Inv, Invariant, HeapInv
  <2>2. WellFormed(ctx.chain) /\ Taken(ctx.chain) = DOMAIN ctx.mem
    BY <2>1 DEF HeapOK, ListOK
  <2>3. Taken(ctx.chain) = {Body(ctx.chain[i]) : i \in {j \in 1 .. Len(ctx.chain) - 1 :
                                                          ctx.chain[j].size > 0}}
    BY DEF Taken, Blocks
  <2> QED
    BY <2>2, <2>3 DEF HeapAgrees, WellFormed
<1> QED
  BY <1>1, MachineSound, PTL

\* RET always finds its package and its pc: the frames of the calls in progress
\* lie between their return marks, through calls, callbacks, system calls that
\* enter functions and everything the collector moves.
THEOREM FramesStayAligned ==
  ASSUME RootKept
  PROVE  Spec => []FramesAligned
<1>1. Inv => FramesAligned
  <2> SUFFICES ASSUME Inv, ctx.state = "RUN", NEW k \in 1 .. Len(frames)
               PROVE  /\ frames[k].base >= 2
                      /\ ctx.st[frames[k].base - 1] = RetMark
                      /\ ctx.st[frames[k].base - 2] = RetMark
                      /\ \A s \in frames[k].base .. EndOfFrame(k) - 1 : ctx.st[s] # RetMark
                      /\ EndOfFrame(k) = IF k = Len(frames) THEN ctx.bp ELSE frames[k + 1].base - 2
    BY DEF FramesAligned
  <2>1. StacksInv(ctx) /\ FramesInv(ctx, frames)
    BY DEF Inv, Invariant
  <2>2. FramesOK(frames) /\ Aligned(frames, ctx.bp, MarksOf(ctx))
    BY <2>1 DEF FramesInv
  <2>3. EndOfFrame(k) = End(frames[k])
    BY DEF EndOfFrame, End
  <2>4. /\ frames[k].base - 1 \in MarksOf(ctx) /\ frames[k].base - 2 \in MarksOf(ctx)
        /\ \A s \in frames[k].base .. End(frames[k]) - 1 : s \notin MarksOf(ctx)
        /\ End(frames[k]) <= ctx.bp
        /\ End(frames[k]) = IF k = Len(frames) THEN ctx.bp ELSE frames[k + 1].base - 2
    BY <2>2 DEF Aligned
  <2>5. frames[k].base \in Nat /\ frames[k].base >= 2 /\ End(frames[k]) \in Int
    BY <2>2, FrameFacts DEF End
  <2>6. ctx.bp \in Int /\ ctx.sp \in Slots /\ ctx.bp < ctx.sp
    BY <2>1, Constants DEF StacksInv, MostPushed
  <2>7. \A s \in frames[k].base .. End(frames[k]) - 1 : ctx.st[s] # RetMark
    <3> SUFFICES ASSUME NEW s \in frames[k].base .. End(frames[k]) - 1 PROVE ctx.st[s] # RetMark
      OBVIOUS
    <3>1. PICK b, e : b = frames[k].base /\ e = End(frames[k])
      OBVIOUS
    <3>2. b \in Nat /\ e \in Int /\ e <= ctx.bp /\ s \in b .. e - 1
      BY <3>1, <2>4, <2>5
    <3>3. s \in Nat /\ s < ctx.sp /\ s < ctx.bp
      BY <3>2, <2>6, Constants DEF Slots
    <3>4. s \in Slots /\ s < ctx.bp
      BY <3>3, <2>6, Constants DEF Slots
    <3> QED
      BY <3>4, <2>4 DEF MarksOf
  <2>8. ctx.st[frames[k].base - 1] = RetMark /\ ctx.st[frames[k].base - 2] = RetMark
    BY <2>4 DEF MarksOf
  <2> QED
    BY <2>3, <2>4, <2>5, <2>7, <2>8
<1> QED
  BY <1>1, MachineSound, PTL

\* One walk of vm_garbage_collect is enough, although it frees and moves chunks
\* under its own iterator: what it leaves behind in the list is no garbage, but
\* for the last chunk and for what a release callback has just let go.
THEOREM OneWalkIsEnough ==
  ASSUME RootKept
  PROVE  Spec => []GarbageGone
<1>1. Inv => GarbageGone
  <2> SUFFICES ASSUME Inv, ctx.state = "RUN", gc.at = 0, ~gc.released,
                      NEW i \in 1 .. Len(ctx.chain) - 2,
                      Body(ctx.chain[i]) \in DOMAIN ctx.mem
               PROVE  ~IsZero(MgcAt(ctx, i))
    BY DEF GarbageGone
  <2>1. Kept(ctx, i)
    BY DEF Inv, Invariant, GcInv
  <2> QED
    BY <2>1 DEF Kept, MgcAt
<1> QED
  BY <1>1, MachineSound, PTL

\* What the collector takes for an object is one, in every run that a class
\* starts: only the empty root of a callback can be mistaken.
THEOREM ClassesCollectObjects ==
  ASSUME RootTaken
  PROVE  Spec => []CandidateIsObject
<1>1. Inv => CandidateIsObject
  <2> SUFFICES ASSUME Inv, gc.at # 0, gc.at + 1 < Len(ctx.chain)
               PROVE  Body(ctx.chain[gc.at]) \in DOMAIN ctx.mem
    BY DEF CandidateIsObject
  <2>1. HeapOK(ctx.chain, ctx.mem, {}) /\ gc.at \in Nat
    BY DEF Inv, Invariant, HeapInv, GcInv
  <2>2. WellFormed(ctx.chain) /\ NonEmpty(ctx.chain)
    BY <2>1 DEF HeapOK, ListOK, WellFormed
  <2>3. Len(ctx.chain) \in Nat
    BY <2>2, WellFormedFacts
  <2>4. gc.at \in 1 .. Len(ctx.chain) - 1 /\ Len(ctx.chain) > 1
    BY <2>1, <2>3
  <2>5. ctx.chain[1].size > 0
    BY <2>1, <2>4 DEF HeapOK, ListOK
  <2>6. gc.at # 1 => gc.at \in 2 .. Len(ctx.chain) - 1
    BY <2>3, <2>4
  <2>7. ctx.chain[gc.at].size > 0
    BY <2>2, <2>5, <2>6 DEF NonEmpty
  <2> QED
    BY <2>1, <2>4, <2>7, TakenAt
<1>2. RootKept
  BY DEF RootKept
<1> QED
  BY <1>1, <1>2, MachineSound, PTL
=============================================================================
