--------------------------- MODULE CodeGenProofs ---------------------------
(***************************************************************************)
(* The backpatching of CodeGen, proved for every script: for all names,    *)
(* any number of statements and any depth of nesting.                      *)
(*                                                                         *)
(* The invariant is Sound.  Its first half, Gen, says what the records and *)
(* the code have to do with each other: the code has no holes, a list      *)
(* holds the addresses of instructions that refer to its record, a jump to *)
(* a record without address is on its list and a jump to a record with     *)
(* one holds it.  Two ways of writing over code could break this: SCTX is  *)
(* patched at the address of a function, and SWITCH at the address a table *)
(* kept.  So the second half, Nested, says that the symbols on the stack   *)
(* that open constructs will use are what these constructs take them for:  *)
(* at the address of a frame's record stands SCTX, and under the label of  *)
(* a switch lies the record of a table.  It needs the height of each stack *)
(* below each open construct.                                              *)
(*                                                                         *)
(* A routine is proved to be a Step when it leaves the stacks alone and a  *)
(* Move otherwise; one lemma per production puts these together.           *)
(***************************************************************************)
EXTENDS CodeGen, SequenceTheorems, WellFoundedInduction, TLAPS

IsSeq(s) == s \in Seq(Range(s))

\* The shapes of records, instructions and of the compiler's state.
RecFields == {"kind", "name", "off", "parent", "tab", "list"}
InsFields == {"at", "ins", "ref", "arg", "src", "fn"}
IsRec(r) == DOMAIN r = RecFields /\ r = [x \in RecFields |-> r[x]]
IsIns(c) == DOMAIN c = InsFields /\ c = [x \in InsFields |-> c[x]]
Fields ==
  {"recs", "code", "off", "pool", "index", "slots", "cur", "exit", "skip", "tabs", "lastTab",
   "saved", "loops", "sym", "tables", "tries", "blocks", "errors", "done"}
IsGen(g) == DOMAIN g = Fields /\ g = [x \in Fields |-> g[x]]

\* The instructions that PendingExact is about.
Jumps == Branches \cup {"F2O"}

RecsOK(R) ==
  /\ IsSeq(R)
  /\ \A r \in DOMAIN R : /\ IsRec(R[r])
                         /\ R[r].kind \in {"label", "func", "var", "table"}
                         /\ R[r].off \in {Undef} \cup Nat
                         /\ R[r].parent \in 0 .. Len(R)

CodeOK(C, o) ==
  /\ IsSeq(C)
  /\ o \in Nat
  /\ \A i \in DOMAIN C : IsIns(C[i]) /\ C[i].at \in Nat /\ C[i].at < o
  /\ \A i, j \in DOMAIN C : i < j => C[i].at < C[j].at
  /\ \A i \in DOMAIN C : C[i].at = IF i = 1 THEN 0 ELSE C[i - 1].at + Size(C[i - 1].ins)
  /\ o = IF Len(C) = 0 THEN 0 ELSE C[Len(C)].at + Size(C[Len(C)].ins)

\* A jump refers to a record.
JumpsOK(R, C) == \A i \in DOMAIN C : C[i].ins \in Jumps => C[i].ref \in DOMAIN R

\* A list holds addresses of instructions that refer to its record.
SiteIns(kind) == IF kind = "table" THEN {"SWITCH"} ELSE Jumps
ListsOK(R, C) ==
  \A r \in DOMAIN R :
    /\ \A i \in DOMAIN C : C[i].at \in R[r].list => C[i].ref = r /\ C[i].ins \in SiteIns(R[r].kind)
    /\ \A a \in R[r].list : \E i \in DOMAIN C : C[i].at = a

\* The jumps to record r, which is e, wait on its list or hold its address.
Settled(e, r, C) ==
  /\ e.off # Undef => e.list = {}
  /\ \A i \in DOMAIN C :
       C[i].ins \in Jumps /\ C[i].ref = r =>
         IF e.off = Undef THEN C[i].at \in e.list ELSE C[i].arg = e.off % Word
\* This holds for the records in a table and for those in X.
Exact(R, C, X) ==
  \A r \in DOMAIN R :
    R[r].kind \in {"label", "func"} /\ (R[r].tab # 0 \/ r \in X) => Settled(R[r], r, C)

Core(g, X) ==
  /\ RecsOK(g.recs)
  /\ CodeOK(g.code, g.off)
  /\ JumpsOK(g.recs, g.code)
  /\ ListsOK(g.recs, g.code)
  /\ Exact(g.recs, g.code, X)

\* What no routine undoes: an address stays, instructions stay where they are.
RecsGrow(R, Q) ==
  /\ Len(R) <= Len(Q)
  /\ \A r \in DOMAIN R :
       /\ Q[r].kind = R[r].kind
       /\ R[r].off # Undef /\ R[r].kind # "table" => Q[r].off = R[r].off
CodeGrows(C, o, D, p) ==
  /\ o <= p
  /\ Len(C) <= Len(D)
  /\ \A i \in DOMAIN D : IF i \in DOMAIN C THEN D[i].at = C[i].at /\ D[i].ins = C[i].ins
                                          ELSE D[i].at >= o
Grows(g, h) == RecsGrow(g.recs, h.recs) /\ CodeGrows(g.code, g.off, h.code, h.off)

(***************************************************************************)
(* Sequences.                                                              *)
(***************************************************************************)
\* Append keeps a sequence a sequence and adds one entry at its end.
LEMMA AppendIs ==
  ASSUME NEW s, NEW e, IsSeq(s)
  PROVE  /\ IsSeq(Append(s, e))
         /\ Len(s) \in Nat /\ DOMAIN s = 1 .. Len(s)
         /\ Len(Append(s, e)) = Len(s) + 1
         /\ DOMAIN Append(s, e) = 1 .. (Len(s) + 1)
         /\ \A i \in 1 .. Len(s) : Append(s, e)[i] = s[i]
         /\ Append(s, e)[Len(s) + 1] = e
<1> DEFINE S == Range(s) \cup {e}
<1>1. s \in Seq(S)
  BY DEF IsSeq
<1>2. Append(s, e) \in Seq(S)
  BY <1>1
<1>3. Append(s, e) \in Seq(Range(Append(s, e)))
  BY <1>2 DEF Range
<1> QED
  BY <1>1, <1>2, <1>3 DEF IsSeq

\* Front keeps all entries but the last.
LEMMA FrontIs ==
  ASSUME NEW s, IsSeq(s)
  PROVE  /\ IsSeq(Front(s))
         /\ s # <<>> => Len(Front(s)) = Len(s) - 1
         /\ \A i \in DOMAIN Front(s) : i \in DOMAIN s /\ Front(s)[i] = s[i]
<1>1. CASE s = <<>>
  BY <1>1 DEF IsSeq, Front, Range
<1>2. CASE s # <<>>
  <2>1. Len(s) \in Nat /\ Len(s) > 0 /\ s \in Seq(Range(s))
    BY <1>2 DEF IsSeq
  <2>2. PICK n \in Nat : n = Len(s) - 1
    BY <2>1
  <2>3. Front(s) = [i \in 1 .. n |-> s[i]] /\ Len(Front(s)) = n
    <3>1. \A i \in 1 .. n : s[i] \in Range(s)
      BY <2>1, <2>2 DEF Range
    <3>2. /\ SubSeq(s, 1, n) \in Seq(Range(s))
          /\ Len(SubSeq(s, 1, n)) = IF 1 <= n THEN n - 1 + 1 ELSE 0
          /\ \A i \in 1 .. (n - 1 + 1) : SubSeq(s, 1, n)[i] = s[1 + i - 1]
      BY <3>1, SubSeqProperties, 1 \in Int, n \in Int
    <3>3. Len(SubSeq(s, 1, n)) = n
      BY <3>2, <2>2
    <3>4. \A i \in 1 .. n : SubSeq(s, 1, n)[i] = s[i]
      BY <3>2, <2>2
    <3>5. SubSeq(s, 1, n) = [i \in 1 .. n |-> s[i]]
      BY <3>2, <3>3, <3>4
    <3> QED
      BY <2>2, <3>3, <3>5 DEF Front
  <2>4. IsSeq(Front(s))
    <3> DEFINE f == [i \in 1 .. n |-> s[i]]
    <3>1. f \in Seq(Range(f))
      BY <2>2 DEF Range
    <3> QED
      BY <2>3, <3>1 DEF IsSeq
  <2> QED
    BY <2>1, <2>2, <2>3, <2>4
<1> QED
  BY <1>1, <1>2

\* Patch writes the operands at the given places and changes nothing else.
LEMMA PatchIs ==
  ASSUME NEW C, NEW S, NEW v, IsSeq(C)
  PROVE  /\ IsSeq(Patch(C, S, v))
         /\ Len(Patch(C, S, v)) = Len(C)
         /\ DOMAIN Patch(C, S, v) = DOMAIN C
         /\ \A i \in DOMAIN C :
              Patch(C, S, v)[i] = IF C[i].at \in S THEN [C[i] EXCEPT !.arg = v % Modulus(C[i].ins)] ELSE C[i]
<1> DEFINE f == [i \in 1 .. Len(C) |-> IF C[i].at \in S THEN [C[i] EXCEPT !.arg = v % Modulus(C[i].ins)] ELSE C[i]]
<1>1. Len(C) \in Nat /\ DOMAIN C = 1 .. Len(C)
  BY DEF IsSeq
<1>2. f \in Seq(Range(f)) /\ Len(f) = Len(C)
  BY <1>1 DEF Range
<1>3. SubSeq(f, 1, Len(C)) = f
  BY <1>1, <1>2
<1>4. Patch(C, S, v) = f
  BY <1>3 DEF Patch, Mapped
<1> QED
  BY <1>1, <1>2, <1>4 DEF IsSeq

\* The fields Emit writes: the code and the offset (is_gencode).
LEMMA EmitIs ==
  ASSUME NEW g, NEW ins, NEW ref, NEW arg, NEW src, NEW h, IsGen(g), h = Emit(g, ins, ref, arg, src)
  PROVE       /\ IsGen(h)
                /\ h.code = Append(g.code, [at |-> g.off, ins |-> ins, ref |-> ref,
                                           arg |-> arg % Modulus(ins), src |-> src, fn |-> g.cur])
                /\ h.off = g.off + Size(ins)
                /\ \A x \in Fields \ {"code", "off"} : h[x] = g[x]
  BY DEF Emit, IsGen, Fields

\* A function on 1 .. n is a sequence of length n.
LEMMA FunctionIs ==
  ASSUME NEW n \in Nat, NEW t, t \in [1 .. n -> Range(t)]
  PROVE  IsSeq(t) /\ Len(t) = n
  BY DEF IsSeq

Changed(s, t, r, e) ==
  /\ IsSeq(t) /\ Len(t) = Len(s) /\ DOMAIN t = DOMAIN s
  /\ t[r] = e
  /\ \A i \in DOMAIN s : i # r => t[i] = s[i]
\* The whole of a sequence, as Mapped takes it.
LEMMA WholeIs ==
  ASSUME NEW n \in Nat, NEW t, t = [i \in 1 .. n |-> t[i]]
  PROVE  IsSeq(t) /\ Len(t) = n /\ SubSeq(t, 1, n) = t
<1>1. t \in [1 .. n -> Range(t)]
  BY DEF Range
<1>2. IsSeq(t) /\ Len(t) = n
  BY <1>1, FunctionIs
<1>3. SubSeq(t, 1, n) = t
  BY <1>2 DEF IsSeq
<1> QED
  BY <1>2, <1>3

\* One entry of a sequence is replaced.
LEMMA ExceptIs ==
  ASSUME NEW s, NEW t, NEW r, NEW e, IsSeq(s), r \in DOMAIN s, t = [s EXCEPT ![r] = e]
  PROVE  Changed(s, t, r, e)
<1>1. Len(s) \in Nat /\ DOMAIN s = 1 .. Len(s) /\ s = [i \in 1 .. Len(s) |-> s[i]]
  BY DEF IsSeq
<1>2. /\ t = [i \in 1 .. Len(s) |-> t[i]] /\ DOMAIN t = DOMAIN s
      /\ \A i \in 1 .. Len(s) : t[i] \in Range(t)
  BY <1>1 DEF Range
<1>3. t[r] = e /\ \A i \in DOMAIN s : i # r => t[i] = s[i]
  BY <1>1
<1>4. t \in [1 .. Len(s) -> Range(t)]
  BY <1>2
<1>5. IsSeq(t) /\ Len(t) = Len(s)
  BY <1>1, <1>4, FunctionIs, Zenon
<1> QED
  BY <1>2, <1>3, <1>5 DEF Changed

\* The length and the domain of a sequence.
LEMMA SeqIs ==
  ASSUME NEW s, IsSeq(s)
  PROVE  Len(s) \in Nat /\ DOMAIN s = 1 .. Len(s)
  BY DEF IsSeq

\* An instruction has one to three bytes.
LEMMA SizeIs == \A ins : Size(ins) \in 1 .. 3
  BY DEF Size

\* The operand of a jump, a call or a function value is a whole address.
LEMMA JumpsHoldWords == \A ins \in Jumps : Modulus(ins) = Word
  BY DEF Jumps, Branches, Modulus, Size

(***************************************************************************)
(* What the routines do to records and code.                               *)
(***************************************************************************)
\* An instruction at the end leaves no hole in the code.
LEMMA CodeAppended ==
  ASSUME NEW C, NEW o, NEW e, CodeOK(C, o), IsIns(e), e.at = o
  PROVE  /\ CodeOK(Append(C, e), o + Size(e.ins))
         /\ CodeGrows(C, o, Append(C, e), o + Size(e.ins))
<1> DEFINE D == Append(C, e)
          p == o + Size(e.ins)
<1>1. /\ IsSeq(D) /\ Len(C) \in Nat /\ DOMAIN C = 1 .. Len(C) /\ Len(D) = Len(C) + 1
      /\ DOMAIN D = 1 .. (Len(C) + 1)
      /\ \A i \in 1 .. Len(C) : D[i] = C[i]
      /\ D[Len(C) + 1] = e
  BY AppendIs DEF CodeOK
<1>2. o \in Nat /\ Size(e.ins) \in 1 .. 3 /\ p \in Nat /\ p > o
  BY SizeIs DEF CodeOK
<1> HIDE DEF D, p
<1>3. \A i \in DOMAIN D : IsIns(D[i]) /\ D[i].at \in Nat /\ D[i].at < p
  BY <1>1, <1>2 DEF CodeOK
<1>4. \A i, j \in DOMAIN D : i < j => D[i].at < D[j].at
  BY <1>1, <1>2 DEF CodeOK
<1>5. \A i \in DOMAIN D : D[i].at = IF i = 1 THEN 0 ELSE D[i - 1].at + Size(D[i - 1].ins)
  BY <1>1, <1>2 DEF CodeOK
<1>6. p = D[Len(D)].at + Size(D[Len(D)].ins) /\ Len(D) # 0
  BY <1>1, <1>2 DEF p
<1>7. CodeOK(D, p)
  BY <1>1, <1>2, <1>3, <1>4, <1>5, <1>6 DEF CodeOK
<1>8. CodeGrows(C, o, D, p)
  BY <1>1, <1>2 DEF CodeGrows
<1> QED
  BY <1>7, <1>8 DEF D, p

\* Patching moves no instruction and changes no opcode.
LEMMA CodePatched ==
  ASSUME NEW C, NEW o, NEW S, NEW v, CodeOK(C, o)
  PROVE  /\ CodeOK(Patch(C, S, v), o)
         /\ CodeGrows(C, o, Patch(C, S, v), o)
         /\ DOMAIN Patch(C, S, v) = DOMAIN C
         /\ \A i \in DOMAIN C : /\ Patch(C, S, v)[i].at = C[i].at
                                /\ Patch(C, S, v)[i].ins = C[i].ins
                                /\ Patch(C, S, v)[i].ref = C[i].ref
                                /\ Patch(C, S, v)[i].arg = IF C[i].at \in S THEN v % Modulus(C[i].ins) ELSE C[i].arg
<1> DEFINE D == Patch(C, S, v)
<1>1. /\ IsSeq(D) /\ Len(D) = Len(C) /\ DOMAIN D = DOMAIN C
      /\ \A i \in DOMAIN C : D[i] = IF C[i].at \in S THEN [C[i] EXCEPT !.arg = v % Modulus(C[i].ins)] ELSE C[i]
  BY PatchIs DEF CodeOK
<1>2. Len(C) \in Nat /\ DOMAIN C = 1 .. Len(C)
  BY SeqIs DEF CodeOK
<1> HIDE DEF D
<1>3. ASSUME NEW i \in DOMAIN C
      PROVE  /\ IsIns(D[i]) /\ D[i].at = C[i].at /\ D[i].ins = C[i].ins /\ D[i].ref = C[i].ref
             /\ D[i].arg = IF C[i].at \in S THEN v % Modulus(C[i].ins) ELSE C[i].arg
  <2>1. IsIns(C[i])
    BY <1>3 DEF CodeOK
  <2> QED
    BY <1>1, <1>3, <2>1 DEF IsIns, InsFields
<1>4. CodeOK(D, o)
  <2>1. o = IF Len(D) = 0 THEN 0 ELSE D[Len(D)].at + Size(D[Len(D)].ins)
    BY <1>1, <1>2, <1>3 DEF CodeOK
  <2>2. \A i \in DOMAIN D : D[i].at = IF i = 1 THEN 0 ELSE D[i - 1].at + Size(D[i - 1].ins)
    BY <1>1, <1>2, <1>3 DEF CodeOK
  <2> QED
    BY <1>1, <1>2, <1>3, <2>1, <2>2 DEF CodeOK
<1>5. CodeGrows(C, o, D, o)
  BY <1>1, <1>2, <1>3 DEF CodeGrows, CodeOK
<1> QED
  BY <1>1, <1>3, <1>4, <1>5 DEF D

\* An instruction that is no jump, or a jump to a record that has its address.
Ready(R, e) ==
  e.ins \in Jumps =>
    e.ref \in DOMAIN R /\ R[e.ref].off # Undef /\ e.arg = R[e.ref].off % Word
\* An instruction that waits for nothing keeps lists and operands in order.
LEMMA Emitted ==
  ASSUME NEW g, NEW h, NEW X, NEW e, Core(g, X), IsIns(e), e.at = g.off, Ready(g.recs, e),
         h.recs = g.recs, h.code = Append(g.code, e), h.off = g.off + Size(e.ins)
  PROVE  Core(h, X) /\ Grows(g, h)
<1>1. CodeOK(h.code, h.off) /\ CodeGrows(g.code, g.off, h.code, h.off)
  BY CodeAppended DEF Core
<1>2. /\ Len(g.code) \in Nat /\ DOMAIN g.code = 1 .. Len(g.code)
      /\ DOMAIN h.code = 1 .. (Len(g.code) + 1)
      /\ \A i \in 1 .. Len(g.code) : h.code[i] = g.code[i]
      /\ h.code[Len(g.code) + 1] = e
  BY AppendIs DEF Core, CodeOK
<1>3. \A i \in DOMAIN h.code : (i \in DOMAIN g.code /\ h.code[i] = g.code[i]) \/ h.code[i] = e
  BY <1>2
<1>4. DOMAIN g.code \subseteq DOMAIN h.code /\ \A i \in DOMAIN g.code : h.code[i] = g.code[i]
  BY <1>2
<1>5. JumpsOK(h.recs, h.code)
  BY <1>3 DEF Core, JumpsOK, Ready
<1>6. ListsOK(h.recs, h.code)
  <2> SUFFICES ASSUME NEW r \in DOMAIN g.recs
               PROVE  /\ \A i \in DOMAIN h.code : h.code[i].at \in g.recs[r].list =>
                             h.code[i].ref = r /\ h.code[i].ins \in SiteIns(g.recs[r].kind)
                      /\ \A a \in g.recs[r].list : \E i \in DOMAIN h.code : h.code[i].at = a
    BY DEF ListsOK
  <2>1. \A a \in g.recs[r].list : \E i \in DOMAIN g.code : g.code[i].at = a
    BY DEF Core, ListsOK
  <2>2. g.off \notin g.recs[r].list
    BY <2>1 DEF Core, CodeOK
  <2> QED
    BY <1>3, <1>4, <2>1, <2>2 DEF Core, ListsOK
<1>7. Exact(h.recs, h.code, X)
  BY <1>3 DEF Core, Exact, Settled, Ready
<1>8. RecsGrow(g.recs, h.recs)
  BY SeqIs DEF RecsGrow, Core, RecsOK
<1> QED
  BY <1>1, <1>5, <1>6, <1>7, <1>8 DEF Core, Grows

\* A record changes, but not in kind, address and list.
LEMMA RecordChanged ==
  ASSUME NEW g, NEW h, NEW X, NEW r, NEW e, Core(g, X), r \in DOMAIN g.recs, IsRec(e),
         e.kind = g.recs[r].kind, e.off = g.recs[r].off, e.list = g.recs[r].list,
         e.parent \in 0 .. Len(g.recs), e.tab # 0 => g.recs[r].tab # 0 \/ r \in X,
         h.recs = [g.recs EXCEPT ![r] = e], h.code = g.code, h.off = g.off
  PROVE  Core(h, X) /\ Grows(g, h)
<1>0. IsSeq(g.recs)
  BY DEF Core, RecsOK
<1>1. /\ IsSeq(h.recs) /\ Len(h.recs) = Len(g.recs) /\ DOMAIN h.recs = DOMAIN g.recs
      /\ h.recs[r] = e
      /\ \A q \in DOMAIN g.recs : q # r => h.recs[q] = g.recs[q]
  <2>1. Changed(g.recs, h.recs, r, e)
    BY <1>0, ExceptIs
  <2> QED
    BY <2>1 DEF Changed
<1>2. Len(g.recs) \in Nat /\ Len(g.code) \in Nat
  BY SeqIs DEF Core, RecsOK, CodeOK
<1>3. RecsOK(h.recs)
  BY <1>1 DEF Core, RecsOK
<1>4. \A q \in DOMAIN g.recs : /\ h.recs[q].kind = g.recs[q].kind /\ h.recs[q].off = g.recs[q].off
                               /\ h.recs[q].list = g.recs[q].list
                               /\ h.recs[q].tab # 0 => g.recs[q].tab # 0 \/ q \in X
  BY <1>1
<1>5. JumpsOK(h.recs, h.code) /\ ListsOK(h.recs, h.code) /\ Exact(h.recs, h.code, X)
  BY <1>1, <1>4 DEF Core, JumpsOK, ListsOK, Exact, Settled
<1>6. RecsGrow(g.recs, h.recs) /\ CodeGrows(g.code, g.off, h.code, h.off)
  BY <1>1, <1>2, <1>4 DEF RecsGrow, CodeGrows, Core, CodeOK
<1> QED
  BY <1>3, <1>5, <1>6 DEF Core, Grows

\* Only the address and the list of a record change.
Becomes(e, n, off, list) ==
  /\ IsRec(n)
  /\ n.kind = e.kind /\ n.name = e.name /\ n.parent = e.parent /\ n.tab = e.tab
  /\ n.off = off /\ n.list = list

\* A jump to a record without address: the site enters its list.
Appends(g, h, e) ==
  IsIns(e) /\ e.at = g.off /\ h.code = Append(g.code, e) /\ h.off = g.off + Size(e.ins)
Queues(g, h, r, n) ==
  /\ r \in DOMAIN g.recs /\ g.recs[r].off = Undef /\ g.recs[r].kind # "table"
  /\ Becomes(g.recs[r], n, Undef, g.recs[r].list \cup {g.off})
  /\ h.recs = [g.recs EXCEPT ![r] = n]
\* The site of a jump to a record without address is on the list of the record.
LEMMA Queued ==
  ASSUME NEW g, NEW h, NEW X, NEW r, NEW n, NEW e, Core(g, X), Queues(g, h, r, n),
         Appends(g, h, e), e.ins \in Jumps, e.ref = r
  PROVE  Core(h, X) /\ Grows(g, h)
<1> USE DEF Queues, Appends
<1>0. IsSeq(g.recs)
  BY DEF Core, RecsOK
<1>2. /\ IsSeq(h.recs) /\ Len(h.recs) = Len(g.recs) /\ DOMAIN h.recs = DOMAIN g.recs
      /\ h.recs[r] = n
      /\ \A q \in DOMAIN g.recs : q # r => h.recs[q] = g.recs[q]
  <2>1. Changed(g.recs, h.recs, r, n)
    BY <1>0, ExceptIs
  <2> QED
    BY <2>1 DEF Changed
<1>3. /\ IsRec(n) /\ n.kind = g.recs[r].kind /\ n.off = Undef /\ n.tab = g.recs[r].tab
      /\ n.parent = g.recs[r].parent /\ n.list = g.recs[r].list \cup {g.off}
  BY DEF Becomes
<1>4. CodeOK(h.code, h.off) /\ CodeGrows(g.code, g.off, h.code, h.off)
  BY CodeAppended DEF Core
<1>5. /\ Len(g.code) \in Nat /\ DOMAIN g.code = 1 .. Len(g.code)
      /\ DOMAIN h.code = 1 .. (Len(g.code) + 1)
      /\ \A i \in 1 .. Len(g.code) : h.code[i] = g.code[i]
      /\ h.code[Len(g.code) + 1] = e
  BY AppendIs DEF Core, CodeOK
<1>6. \A i \in DOMAIN h.code : (i \in DOMAIN g.code /\ h.code[i] = g.code[i]) \/ h.code[i] = e
  BY <1>5
<1>7. DOMAIN g.code \subseteq DOMAIN h.code /\ \A i \in DOMAIN g.code : h.code[i] = g.code[i]
  BY <1>5
<1>8. RecsOK(h.recs)
  BY <1>2, <1>3 DEF Core, RecsOK
<1>9. JumpsOK(h.recs, h.code)
  BY <1>2, <1>6 DEF Core, JumpsOK
<1>10. \A i \in DOMAIN g.code : g.code[i].at # g.off
  BY DEF Core, CodeOK
<1>11. ListsOK(h.recs, h.code)
  <2> SUFFICES ASSUME NEW q \in DOMAIN g.recs
               PROVE  /\ \A i \in DOMAIN h.code : h.code[i].at \in h.recs[q].list =>
                             h.code[i].ref = q /\ h.code[i].ins \in SiteIns(h.recs[q].kind)
                      /\ \A a \in h.recs[q].list : \E i \in DOMAIN h.code : h.code[i].at = a
    BY <1>2 DEF ListsOK
  <2>1. \A a \in g.recs[q].list : \E i \in DOMAIN g.code : g.code[i].at = a
    BY DEF Core, ListsOK
  <2>2. g.off \notin g.recs[q].list
    BY <2>1, <1>10
  <2>3. \A i \in DOMAIN g.code : g.code[i].at \in g.recs[q].list =>
          g.code[i].ref = q /\ g.code[i].ins \in SiteIns(g.recs[q].kind)
    BY DEF Core, ListsOK
  <2>4. CASE q # r
    BY <1>2, <1>6, <1>7, <2>1, <2>2, <2>3, <2>4
  <2>5. CASE q = r
    <3>1. \A i \in DOMAIN h.code : h.code[i].at \in n.list =>
            h.code[i].ref = r /\ h.code[i].ins \in SiteIns(n.kind)
      BY <1>3, <1>6, <1>10, <2>3, <2>5 DEF SiteIns
    <3>2. Len(g.code) + 1 \in DOMAIN h.code
      BY <1>5
    <3>3. \A a \in n.list : \E i \in DOMAIN h.code : h.code[i].at = a
      BY <1>3, <1>5, <1>7, <2>1, <2>5, <3>2
    <3> QED
      BY <1>2, <2>5, <3>1, <3>3
  <2> QED
    BY <2>4, <2>5
<1>12. Exact(h.recs, h.code, X)
  <2> SUFFICES ASSUME NEW q \in DOMAIN g.recs, h.recs[q].kind \in {"label", "func"},
                      h.recs[q].tab # 0 \/ q \in X
               PROVE  Settled(h.recs[q], q, h.code)
    BY <1>2 DEF Exact
  <2>1. Settled(g.recs[q], q, g.code)
    BY <1>2, <1>3 DEF Core, Exact
  <2>2. CASE q # r
    BY <1>2, <1>6, <2>1, <2>2 DEF Settled
  <2>3. CASE q = r
    BY <1>2, <1>3, <1>6, <2>1, <2>3 DEF Settled
  <2> QED
    BY <2>2, <2>3
<1>13. RecsGrow(g.recs, h.recs)
  BY <1>0, <1>2, <1>3, SeqIs DEF RecsGrow
<1> QED
  BY <1>4, <1>8, <1>9, <1>11, <1>12, <1>13 DEF Core, Grows

\* A step that only appends a record.
Adds(g, h, e) ==
  /\ Len(h.recs) = Len(g.recs) + 1
  /\ Len(g.recs) \in Nat /\ DOMAIN g.recs = 1 .. Len(g.recs) /\ DOMAIN h.recs = 1 .. (Len(g.recs) + 1)
  /\ h.recs[Len(g.recs) + 1] = e
  /\ \A r \in DOMAIN g.recs : h.recs[r] = g.recs[r]
Fresh(g, e) ==
  /\ IsRec(e) /\ e.kind \in {"label", "func", "var", "table"} /\ e.off \in {Undef} \cup Nat
  /\ e.parent \in 0 .. (Len(g.recs) + 1) /\ e.list = {}
\* A new record that nothing refers to.
LEMMA RecordAdded ==
  ASSUME NEW g, NEW h, NEW X, NEW e, Core(g, X), Fresh(g, e),
         h.recs = Append(g.recs, e), h.code = g.code, h.off = g.off
  PROVE  Core(h, X) /\ Core(h, X \cup {Len(g.recs) + 1}) /\ Grows(g, h) /\ Adds(g, h, e)
<1> USE DEF Fresh
<1> DEFINE m == Len(g.recs) + 1
<1>1. /\ IsSeq(h.recs) /\ Len(g.recs) \in Nat /\ DOMAIN g.recs = 1 .. Len(g.recs)
      /\ Len(h.recs) = m /\ DOMAIN h.recs = 1 .. m
      /\ \A r \in 1 .. Len(g.recs) : h.recs[r] = g.recs[r]
      /\ h.recs[m] = e
  BY AppendIs DEF Core, RecsOK
<1>2. /\ \A r \in DOMAIN h.recs : \/ r \in DOMAIN g.recs /\ h.recs[r] = g.recs[r]
                                  \/ r = m /\ h.recs[r] = e
      /\ DOMAIN g.recs \subseteq DOMAIN h.recs /\ m \notin DOMAIN g.recs
  <2> HIDE DEF m
  <2>1. m = Len(g.recs) + 1
    BY DEF m
  <2> QED
    BY <1>1, <2>1
<1>3. RecsOK(h.recs)
  BY <1>1, <1>2 DEF Core, RecsOK
<1>4. JumpsOK(h.recs, h.code) /\ ListsOK(h.recs, h.code)
  BY <1>2 DEF Core, JumpsOK, ListsOK
<1> HIDE DEF m
<1>5. \A i \in DOMAIN g.code : g.code[i].ins \in Jumps => g.code[i].ref # m
  BY <1>2 DEF Core, JumpsOK
<1>6. Settled(e, m, g.code)
  BY <1>5 DEF Settled
<1>7. Exact(h.recs, h.code, X) /\ Exact(h.recs, h.code, X \cup {m})
  BY <1>2, <1>6 DEF Core, Exact
<1>8. Grows(g, h)
  BY <1>1, <1>2, SeqIs DEF Grows, RecsGrow, CodeGrows, Core, CodeOK, m
<1> QED
  BY <1>1, <1>2, <1>3, <1>4, <1>7, <1>8 DEF Core, Adds, m

\* A new jump table and the SWITCH that uses it.
NewTable(g, h, n, e) ==
  /\ IsRec(n) /\ n.kind = "table" /\ n.off = 0
  /\ n.parent \in 0 .. Len(g.recs) /\ n.list = {g.off}
  /\ h.recs = Append(g.recs, n)
  /\ e.ins = "SWITCH" /\ e.ref = Len(g.recs) + 1
\* The SWITCH is on the list of its table.
LEMMA TableAdded ==
  ASSUME NEW g, NEW h, NEW X, NEW n, NEW e, Core(g, X), NewTable(g, h, n, e), Appends(g, h, e)
  PROVE  /\ Core(h, X) /\ Grows(g, h)
         /\ Len(h.recs) = Len(g.recs) + 1 /\ h.recs[Len(g.recs) + 1] = n
<1> USE DEF NewTable, Appends
<1>1. PICK m : m = Len(g.recs) + 1
  OBVIOUS
<1>2. /\ IsSeq(h.recs) /\ Len(g.recs) \in Nat /\ DOMAIN g.recs = 1 .. Len(g.recs)
      /\ Len(h.recs) = m /\ DOMAIN h.recs = 1 .. m
      /\ \A r \in 1 .. Len(g.recs) : h.recs[r] = g.recs[r]
      /\ h.recs[m] = n
  BY <1>1, AppendIs DEF Core, RecsOK
<1>3. /\ \A r \in DOMAIN h.recs : \/ r \in DOMAIN g.recs /\ h.recs[r] = g.recs[r]
                                  \/ r = m /\ h.recs[r] = n
      /\ DOMAIN g.recs \subseteq DOMAIN h.recs /\ m \notin DOMAIN g.recs
  BY <1>1, <1>2
<1>4. CodeOK(h.code, h.off) /\ CodeGrows(g.code, g.off, h.code, h.off)
  BY CodeAppended DEF Core
<1>5. /\ Len(g.code) \in Nat /\ DOMAIN g.code = 1 .. Len(g.code)
      /\ DOMAIN h.code = 1 .. (Len(g.code) + 1)
      /\ \A i \in 1 .. Len(g.code) : h.code[i] = g.code[i]
      /\ h.code[Len(g.code) + 1] = e
  BY AppendIs DEF Core, CodeOK
<1>6. \A i \in DOMAIN h.code : (i \in DOMAIN g.code /\ h.code[i] = g.code[i]) \/ h.code[i] = e
  BY <1>5
<1>7. DOMAIN g.code \subseteq DOMAIN h.code /\ \A i \in DOMAIN g.code : h.code[i] = g.code[i]
  BY <1>5
<1>8. RecsOK(h.recs)
  BY <1>1, <1>2, <1>3 DEF Core, RecsOK
<1>9. e.ins \notin Jumps
  BY DEF Jumps, Branches
<1>10. JumpsOK(h.recs, h.code)
  BY <1>3, <1>6, <1>9 DEF Core, JumpsOK
<1>11. \A i \in DOMAIN g.code : g.code[i].at # g.off
  BY DEF Core, CodeOK
<1>12. ListsOK(h.recs, h.code)
  <2> SUFFICES ASSUME NEW q \in DOMAIN h.recs
               PROVE  /\ \A i \in DOMAIN h.code : h.code[i].at \in h.recs[q].list =>
                             h.code[i].ref = q /\ h.code[i].ins \in SiteIns(h.recs[q].kind)
                      /\ \A a \in h.recs[q].list : \E i \in DOMAIN h.code : h.code[i].at = a
    BY DEF ListsOK
  <2>1. CASE q = m
    <3>1. Len(g.code) + 1 \in DOMAIN h.code
      BY <1>5
    <3> QED
      BY <1>1, <1>2, <1>5, <1>6, <1>11, <2>1, <3>1 DEF SiteIns
  <2>2. CASE q # m
    <3>1. q \in DOMAIN g.recs /\ h.recs[q] = g.recs[q]
      BY <1>3, <2>2
    <3>2. \A a \in g.recs[q].list : \E i \in DOMAIN g.code : g.code[i].at = a
      BY <3>1 DEF Core, ListsOK
    <3>3. g.off \notin g.recs[q].list
      BY <3>2, <1>11
    <3>4. \A i \in DOMAIN g.code : g.code[i].at \in g.recs[q].list =>
            g.code[i].ref = q /\ g.code[i].ins \in SiteIns(g.recs[q].kind)
      BY <3>1 DEF Core, ListsOK
    <3> QED
      BY <1>6, <1>7, <3>1, <3>2, <3>3, <3>4
  <2> QED
    BY <2>1, <2>2
<1>13. Exact(h.recs, h.code, X)
  BY <1>3, <1>6, <1>9 DEF Core, Exact, Settled
<1>14. RecsGrow(g.recs, h.recs)
  BY <1>1, <1>2, <1>3 DEF RecsGrow
<1> QED
  BY <1>1, <1>2, <1>4, <1>8, <1>10, <1>12, <1>13, <1>14 DEF Core, Grows

\* A record without address gets the current one, and its sites are patched.
LEMMA Addressed ==
  ASSUME NEW g, NEW h, NEW X, NEW r, NEW n, Core(g, X), r \in DOMAIN g.recs,
         g.recs[r].off = Undef, g.recs[r].kind # "table",
         Becomes(g.recs[r], n, g.off, {}), h.recs = [g.recs EXCEPT ![r] = n],
         h.code = Patch(g.code, g.recs[r].list, g.off), h.off = g.off
  PROVE  Core(h, X) /\ Grows(g, h)
<1>1. IsSeq(g.recs) /\ IsRec(g.recs[r]) /\ g.off \in Nat
  BY DEF Core, RecsOK, CodeOK
<1>2. /\ IsSeq(h.recs) /\ Len(h.recs) = Len(g.recs) /\ DOMAIN h.recs = DOMAIN g.recs
      /\ h.recs[r] = n
      /\ \A q \in DOMAIN g.recs : q # r => h.recs[q] = g.recs[q]
  <2>1. Changed(g.recs, h.recs, r, n)
    BY <1>1, ExceptIs
  <2> QED
    BY <2>1 DEF Changed
<1>3. /\ IsRec(n) /\ n.kind = g.recs[r].kind /\ n.off = g.off /\ n.tab = g.recs[r].tab
      /\ n.parent = g.recs[r].parent /\ n.list = {}
  BY DEF Becomes
<1>4. /\ CodeOK(h.code, h.off) /\ CodeGrows(g.code, g.off, h.code, h.off)
      /\ DOMAIN h.code = DOMAIN g.code
      /\ \A i \in DOMAIN g.code : /\ h.code[i].at = g.code[i].at
                                  /\ h.code[i].ins = g.code[i].ins
                                  /\ h.code[i].ref = g.code[i].ref
                                  /\ h.code[i].arg = IF g.code[i].at \in g.recs[r].list
                                                     THEN g.off % Modulus(g.code[i].ins) ELSE g.code[i].arg
  BY CodePatched DEF Core
<1>5. RecsOK(h.recs)
  BY <1>1, <1>2, <1>3 DEF Core, RecsOK
<1>6. JumpsOK(h.recs, h.code)
  BY <1>2, <1>4 DEF Core, JumpsOK
<1>7. ListsOK(h.recs, h.code)
  BY <1>2, <1>3, <1>4 DEF Core, ListsOK
<1>8. Exact(h.recs, h.code, X)
  <2> SUFFICES ASSUME NEW q \in DOMAIN g.recs, h.recs[q].kind \in {"label", "func"},
                      h.recs[q].tab # 0 \/ q \in X
               PROVE  Settled(h.recs[q], q, h.code)
    BY <1>2 DEF Exact
  <2>1. Settled(g.recs[q], q, g.code)
    BY <1>2, <1>3 DEF Core, Exact
  <2>2. CASE q # r
    <3>1. \A i \in DOMAIN g.code : g.code[i].ref = q => g.code[i].at \notin g.recs[r].list
      BY <2>2 DEF Core, ListsOK
    <3> QED
      BY <1>2, <1>4, <2>1, <2>2, <3>1 DEF Settled
  <2>3. CASE q = r
    BY <1>1, <1>2, <1>3, <1>4, <2>1, <2>3, JumpsHoldWords DEF Settled, Undef
  <2> QED
    BY <2>2, <2>3
<1>9. RecsGrow(g.recs, h.recs)
  BY <1>1, <1>2, <1>3, SeqIs DEF RecsGrow
<1> QED
  BY <1>4, <1>5, <1>6, <1>7, <1>8, <1>9 DEF Core, Grows

\* Sites that are no jumps are patched, and the address of a jump table may change.
LEMMA Overwritten ==
  ASSUME NEW g, NEW h, NEW X, NEW S, NEW v, Core(g, X),
         \A i \in DOMAIN g.code : g.code[i].at \in S => g.code[i].ins \notin Jumps,
         h.recs = g.recs, h.code = Patch(g.code, S, v), h.off = g.off
  PROVE  Core(h, X) /\ Grows(g, h)
<1>1. /\ CodeOK(h.code, h.off) /\ CodeGrows(g.code, g.off, h.code, h.off)
      /\ DOMAIN h.code = DOMAIN g.code
      /\ \A i \in DOMAIN g.code : /\ h.code[i].at = g.code[i].at
                                  /\ h.code[i].ins = g.code[i].ins
                                  /\ h.code[i].ref = g.code[i].ref
                                  /\ h.code[i].arg = IF g.code[i].at \in S THEN v % Modulus(g.code[i].ins)
                                                     ELSE g.code[i].arg
  BY CodePatched DEF Core
<1>2. JumpsOK(h.recs, h.code) /\ ListsOK(h.recs, h.code)
  BY <1>1 DEF Core, JumpsOK, ListsOK
<1>3. Exact(h.recs, h.code, X)
  BY <1>1 DEF Core, Exact, Settled
<1>4. RecsGrow(g.recs, h.recs)
  BY SeqIs DEF RecsGrow, Core, RecsOK
<1> QED
  BY <1>1, <1>2, <1>3, <1>4 DEF Core, Grows

\* A record that nothing refers to gets an address, a jump table any.
LEMMA Relocated ==
  ASSUME NEW g, NEW h, NEW X, NEW r, NEW n, NEW o \in Nat, Core(g, X), r \in DOMAIN g.recs,
         Becomes(g.recs[r], n, o, {}),
         \/ g.recs[r].kind = "table"
         \/ g.recs[r].off = Undef /\ g.recs[r].list = {} /\ (g.recs[r].tab # 0 \/ r \in X),
         h.recs = [g.recs EXCEPT ![r] = n], h.code = g.code, h.off = g.off
  PROVE  Core(h, X) /\ Grows(g, h)
<1>1. IsSeq(g.recs) /\ IsRec(g.recs[r]) /\ g.off \in Nat /\ Len(g.code) \in Nat
  BY SeqIs DEF Core, RecsOK, CodeOK
<1>2. /\ IsSeq(h.recs) /\ Len(h.recs) = Len(g.recs) /\ DOMAIN h.recs = DOMAIN g.recs
      /\ h.recs[r] = n
      /\ \A q \in DOMAIN g.recs : q # r => h.recs[q] = g.recs[q]
  <2>1. Changed(g.recs, h.recs, r, n)
    BY <1>1, ExceptIs
  <2> QED
    BY <2>1 DEF Changed
<1>3. RecsOK(h.recs)
  BY <1>1, <1>2 DEF Becomes, Core, RecsOK
<1>4. JumpsOK(h.recs, h.code) /\ ListsOK(h.recs, h.code)
  BY <1>2 DEF Core, JumpsOK, ListsOK, Becomes
<1>5. Exact(h.recs, h.code, X)
  <2> SUFFICES ASSUME NEW q \in DOMAIN g.recs, h.recs[q].kind \in {"label", "func"},
                      h.recs[q].tab # 0 \/ q \in X
               PROVE  Settled(h.recs[q], q, h.code)
    BY <1>2 DEF Exact
  <2>1. Settled(g.recs[q], q, g.code)
    BY <1>2 DEF Core, Exact, Becomes
  <2> QED
    BY <1>2, <2>1 DEF Settled, Becomes, Undef
<1>6. RecsGrow(g.recs, h.recs) /\ CodeGrows(g.code, g.off, h.code, h.off)
  BY <1>1, <1>2, SeqIs DEF RecsGrow, CodeGrows, Becomes
<1> QED
  BY <1>3, <1>4, <1>5, <1>6 DEF Core, Grows

\* Records leave the table.
LEMMA Cleared ==
  ASSUME NEW g, NEW h, NEW gone, Core(g, {}), gone \subseteq DOMAIN g.recs, IsGen(g),
         h = Clear(g, gone)
  PROVE  /\ Core(h, {}) /\ Grows(g, h) /\ IsGen(h) /\ Len(h.recs) = Len(g.recs)
         /\ \A x \in Fields \ {"recs", "errors"} : h[x] = g[x]
<1> DEFINE F(r) == IF r \in gone THEN [g.recs[r] EXCEPT !.tab = 0, !.list = {}] ELSE g.recs[r]
<1>1. /\ IsSeq(g.recs) /\ Len(g.recs) \in Nat /\ DOMAIN g.recs = 1 .. Len(g.recs)
      /\ Len(g.code) \in Nat /\ g.off \in Nat /\ \A r \in DOMAIN g.recs : IsRec(g.recs[r])
  BY SeqIs DEF Core, RecsOK, CodeOK
<1>2. PICK f : f = [r \in 1 .. Len(g.recs) |-> F(r)]
  OBVIOUS
<1>3. SubSeq(f, 1, Len(g.recs)) = f /\ IsSeq(f) /\ Len(f) = Len(g.recs)
  <2>1. f = [r \in 1 .. Len(g.recs) |-> f[r]]
    BY <1>2
  <2> QED
    BY <1>1, <2>1, WholeIs
<1>4. /\ IsGen(h) /\ h.recs = SubSeq(f, 1, Len(g.recs))
      /\ \A x \in Fields \ {"recs", "errors"} : h[x] = g[x]
  BY <1>2 DEF Clear, Mapped, IsGen, Fields
<1>5. h.recs = f /\ h.code = g.code /\ h.off = g.off
  BY <1>3, <1>4 DEF Fields
<1>6. /\ DOMAIN h.recs = DOMAIN g.recs /\ Len(h.recs) = Len(g.recs) /\ IsSeq(h.recs)
      /\ \A r \in DOMAIN g.recs : h.recs[r] = F(r)
  BY <1>1, <1>2, <1>3, <1>5
<1>7. ASSUME NEW r \in DOMAIN g.recs
      PROVE  /\ IsRec(h.recs[r]) /\ h.recs[r].kind = g.recs[r].kind /\ h.recs[r].off = g.recs[r].off
             /\ h.recs[r].parent = g.recs[r].parent
             /\ \/ h.recs[r] = g.recs[r]
                \/ h.recs[r].tab = 0 /\ h.recs[r].list = {}
  BY <1>1, <1>6, <1>7 DEF IsRec, RecFields
<1> HIDE DEF F
<1>8. RecsOK(h.recs)
  BY <1>6, <1>7 DEF Core, RecsOK
<1>9. JumpsOK(h.recs, h.code)
  BY <1>5, <1>6 DEF Core, JumpsOK
<1>10. ListsOK(h.recs, h.code)
  BY <1>5, <1>6, <1>7 DEF Core, ListsOK
<1>11. Exact(h.recs, h.code, {})
  BY <1>5, <1>6, <1>7 DEF Core, Exact
<1>12. Grows(g, h)
  BY <1>1, <1>5, <1>6, <1>7 DEF Grows, RecsGrow, CodeGrows
<1> QED
  BY <1>4, <1>5, <1>6, <1>8, <1>9, <1>10, <1>11, <1>12 DEF Core

\* Growing is transitive.
LEMMA GrowsFurther ==
  ASSUME NEW g, NEW h, NEW k, NEW X, NEW Y, NEW Z, Core(g, X), Core(h, Y), Core(k, Z),
         Grows(g, h), Grows(h, k)
  PROVE  Grows(g, k)
<1>1. /\ DOMAIN g.recs = 1 .. Len(g.recs) /\ DOMAIN h.recs = 1 .. Len(h.recs) /\ DOMAIN k.recs = 1 .. Len(k.recs)
      /\ DOMAIN g.code = 1 .. Len(g.code) /\ DOMAIN h.code = 1 .. Len(h.code) /\ DOMAIN k.code = 1 .. Len(k.code)
      /\ Len(g.recs) \in Nat /\ Len(h.recs) \in Nat /\ Len(k.recs) \in Nat
      /\ Len(g.code) \in Nat /\ Len(h.code) \in Nat /\ Len(k.code) \in Nat
      /\ g.off \in Nat /\ h.off \in Nat /\ k.off \in Nat
  BY SeqIs DEF Core, RecsOK, CodeOK
<1>2. RecsGrow(g.recs, k.recs)
  BY <1>1 DEF Grows, RecsGrow
<1>3. \A i \in DOMAIN k.code : k.code[i].at \in Nat
  BY DEF Core, CodeOK
<1>4. CodeGrows(g.code, g.off, k.code, k.off)
  BY <1>1, <1>3 DEF Grows, CodeGrows
<1> QED
  BY <1>2, <1>4 DEF Grows

\* A nonempty set of numbers has a least one: st_sym_select finds the first match.
LEMMA LeastIs ==
  ASSUME NEW S \in SUBSET Nat, S # {}
  PROVE  \E x \in S : \A y \in S : x <= y
<1>1. PICK R : /\ IsWellFoundedOn(R, Nat)
               /\ \A a, b \in Nat : b < a => <<b, a>> \in R
  <2> DEFINE Q == OpToRel(<, Nat)
  <2>1. IsWellFoundedOn(Q, Nat)
    BY NatLessThanWellFounded
  <2>2. \A a, b \in Nat : b < a => <<b, a>> \in Q
    BY DEF OpToRel
  <2> QED
    BY <2>1, <2>2
<1>2. PICK x \in S : \A y \in S : ~(<<y, x>> \in R)
  BY <1>1, WFMin
<1>3. ASSUME NEW y \in S
      PROVE  x <= y
  <2>1. x \in Nat /\ y \in Nat
    OBVIOUS
  <2>2. ~(y < x)
    BY <1>1, <1>2, <2>1, Zenon
  <2> QED
    BY <2>1, <2>2
<1> QED
  BY <1>3

\* Select yields a match when there is one.
LEMMA SelectIs ==
  ASSUME NEW g, NEW X, NEW kind, NEW name, Core(g, X)
  PROVE  /\ Matches(g, kind, name) # {} => Select(g, kind, name) \in Matches(g, kind, name)
         /\ Select(g, kind, name) # Nobody => Select(g, kind, name) \in Matches(g, kind, name)
         /\ Matches(g, kind, name) \subseteq DOMAIN g.recs
<1>1. DOMAIN g.recs = 1 .. Len(g.recs) /\ Len(g.recs) \in Nat
  BY SeqIs DEF Core, RecsOK
<1>2. PICK M : M = Matches(g, kind, name)
  OBVIOUS
<1>3. M \subseteq Nat /\ M \subseteq DOMAIN g.recs
  BY <1>1, <1>2 DEF Matches
<1>4. M # {} => \E x \in M : \A y \in M : x <= y
  BY <1>3, LeastIs
<1>5. Select(g, kind, name) = IF M = {} THEN Nobody ELSE CHOOSE r \in M : \A q \in M : r <= q
  BY <1>2 DEF Select
<1> QED
  BY <1>2, <1>3, <1>4, <1>5

(***************************************************************************)
(* The whole of the compiler's state.                                      *)
(***************************************************************************)
IsFrame(f, n) == f.slots \in Nat /\ f.cur \in 0 .. n
IsTable(t) == DOMAIN t = {"default", "cases"} /\ t = [x \in {"default", "cases"} |-> t[x]] /\ IsSeq(t.cases)
Rest(g) ==
  /\ g.cur \in 0 .. Len(g.recs)
  /\ g.slots \in Nat /\ g.index \in Nat /\ g.lastTab \in Nat
  /\ IsSeq(g.sym)
  /\ IsSeq(g.tabs) /\ \A i \in DOMAIN g.tabs : g.tabs[i] # 0
  /\ IsSeq(g.saved) /\ \A i \in DOMAIN g.saved : IsFrame(g.saved[i], Len(g.recs))
  /\ IsSeq(g.tables) /\ \A i \in DOMAIN g.tables : IsTable(g.tables[i])
  /\ IsSeq(g.pool) /\ \A i \in DOMAIN g.pool : g.pool[i].at \in Nat /\ g.pool[i].bytes \in Nat
Gen(g, X) == IsGen(g) /\ Core(g, X) /\ Rest(g)

\* What the stacks of the productions hold is left alone.
Stacks == {"sym", "saved", "tables", "tabs"}
Keeps(g, h) == Grows(g, h) /\ \A x \in Stacks : h[x] = g[x]
Step(g, h, X) == Gen(h, X) /\ Keeps(g, h)

RestFields == {"cur", "slots", "index", "lastTab", "sym", "tabs", "saved", "tables", "pool"}
\* Where only records and code grow, the rest of the state stays in order.
LEMMA RestKept ==
  ASSUME NEW g, NEW h, NEW X, NEW Y, Gen(g, X), Core(h, Y), Grows(g, h),
         \A x \in RestFields : h[x] = g[x]
  PROVE  Rest(h)
<1>1. /\ h.cur = g.cur /\ h.slots = g.slots /\ h.index = g.index /\ h.lastTab = g.lastTab
      /\ h.sym = g.sym /\ h.tabs = g.tabs /\ h.saved = g.saved /\ h.tables = g.tables
      /\ h.pool = g.pool
  BY DEF RestFields
<1>2. Len(g.recs) \in Nat /\ Len(h.recs) \in Nat /\ Len(g.recs) <= Len(h.recs)
  BY SeqIs DEF Gen, Core, RecsOK, Grows, RecsGrow
<1>3. g.cur \in 0 .. Len(h.recs)
  BY <1>2 DEF Gen, Rest
<1>4. \A i \in DOMAIN g.saved : IsFrame(g.saved[i], Len(h.recs))
  BY <1>2 DEF Gen, Rest, IsFrame
<1> QED
  BY <1>1, <1>3, <1>4 DEF Gen, Rest

\* Two steps are a step.
LEMMA StepTwice ==
  ASSUME NEW g, NEW h, NEW k, NEW X, NEW Y, NEW Z, Gen(g, X), Step(g, h, Y), Step(h, k, Z)
  PROVE  Step(g, k, Z)
<1>1. Grows(g, k)
  BY GrowsFurther DEF Gen, Step, Keeps
<1> QED
  BY <1>1 DEF Step, Keeps

\* The fields that Emit, Insert and Update leave alone hold the rest of the state.
LEMMA CoreStep ==
  ASSUME NEW g, NEW h, NEW X, NEW Y, Gen(g, X), IsGen(h), Core(h, Y), Grows(g, h),
         \A x \in Fields \ {"recs", "code", "off", "errors", "exit", "skip", "loops", "tries",
                           "blocks", "done"} : h[x] = g[x]
  PROVE  Step(g, h, Y)
<1>1. \A x \in RestFields : h[x] = g[x]
  BY DEF RestFields, Fields
<1>2. Rest(h)
  BY <1>1, RestKept
<1>3. \A x \in Stacks : h[x] = g[x]
  BY DEF Stacks, Fields
<1> QED
  BY <1>2, <1>3 DEF Step, Gen, Keeps

\* Emit of an instruction that is no jump is a step.
LEMMA EmitStep ==
  ASSUME NEW g, NEW X, NEW ins, NEW ref, NEW arg, NEW src, Gen(g, X), ins \notin Jumps
  PROVE  /\ Step(g, Emit(g, ins, ref, arg, src), X)
         /\ Emit(g, ins, ref, arg, src).recs = g.recs
<1> DEFINE e == [at |-> g.off, ins |-> ins, ref |-> ref, arg |-> arg % Modulus(ins), src |-> src, fn |-> g.cur]
<1>1. PICK h : h = Emit(g, ins, ref, arg, src)
  OBVIOUS
<1>2. /\ IsGen(h) /\ h.code = Append(g.code, e) /\ h.off = g.off + Size(ins)
      /\ \A x \in Fields \ {"code", "off"} : h[x] = g[x]
  BY <1>1, EmitIs DEF Gen
<1>3. h.recs = g.recs
  BY <1>2 DEF Fields
<1>4. IsIns(e) /\ e.at = g.off /\ e.ins = ins
  BY DEF IsIns, InsFields
<1> HIDE DEF e
<1>5. Ready(g.recs, e)
  BY <1>4 DEF Ready
<1>6. h.off = g.off + Size(e.ins)
  BY <1>2, <1>4
<1>7. Core(h, X) /\ Grows(g, h)
  BY <1>2, <1>3, <1>4, <1>5, <1>6, Emitted DEF Gen
<1> QED
  BY <1>1, <1>2, <1>3, <1>7, CoreStep

\* The field Update writes.
LEMMA UpdateIs ==
  ASSUME NEW g, NEW h, NEW r, NEW e, IsGen(g), h = Update(g, r, e)
  PROVE  /\ IsGen(h) /\ h.recs = [g.recs EXCEPT ![r] = e]
         /\ \A x \in Fields \ {"recs"} : h[x] = g[x]
  BY DEF IsGen, Fields, Update

\* The field Insert writes.
LEMMA InsertIs ==
  ASSUME NEW g, NEW h, NEW e, IsGen(g), h = Insert(g, e)
  PROVE  /\ IsGen(h) /\ h.recs = Append(g.recs, e)
         /\ \A x \in Fields \ {"recs"} : h[x] = g[x]
  BY DEF IsGen, Fields, Insert

\* No other record changes.
Only(g, h, r) ==
  DOMAIN h.recs = DOMAIN g.recs /\ \A q \in DOMAIN g.recs : q # r => h.recs[q] = g.recs[q]

\* EmitRef queues the site of an undefined record, or writes the address of a defined one.
LEMMA EmitRefStep ==
  ASSUME NEW g, NEW X, NEW ins, NEW r, NEW src, Gen(g, X), ins \in Jumps, r \in DOMAIN g.recs,
         g.recs[r].kind # "table"
  PROVE  /\ Step(g, EmitRef(g, ins, r, src), X)
         /\ Only(g, EmitRef(g, ins, r, src), r)
<1> DEFINE a == g.recs[r].off
           e == [at |-> g.off, ins |-> ins, ref |-> r, arg |-> a % Modulus(ins),
                 src |-> src, fn |-> g.cur]
<1>1. PICK h : h = EmitRef(g, ins, r, src)
  OBVIOUS
<1>2. IsIns(e) /\ e.at = g.off /\ e.ins = ins /\ e.ref = r /\ e.arg = a % Word
  BY JumpsHoldWords DEF IsIns, InsFields
<1>3. IsSeq(g.recs) /\ IsRec(g.recs[r]) /\ IsGen(g) /\ Core(g, X)
  BY DEF Gen, Core, RecsOK
<1>4. CASE a # Undef
  <2>1. h = Emit(g, ins, r, a, src)
    BY <1>1, <1>4 DEF EmitRef
  <2>2. /\ IsGen(h) /\ h.code = Append(g.code, e) /\ h.off = g.off + Size(ins)
        /\ \A x \in Fields \ {"code", "off"} : h[x] = g[x]
    BY <1>3, <2>1, EmitIs
  <2>3. h.recs = g.recs
    BY <2>2 DEF Fields
  <2> HIDE DEF e
  <2>4. Ready(g.recs, e)
    BY <1>2, <1>4 DEF Ready
  <2>5. h.off = g.off + Size(e.ins)
    BY <2>2, <1>2
  <2>6. Core(h, X) /\ Grows(g, h)
    BY <1>2, <1>3, <2>2, <2>3, <2>4, <2>5, Emitted
  <2> QED
    BY <1>1, <2>2, <2>3, <2>6, CoreStep DEF Only
<1>5. CASE a = Undef
  <2>1. PICK n : n = [g.recs[r] EXCEPT !.list = @ \cup {g.off}]
    OBVIOUS
  <2>2. PICK u : u = Update(g, r, n)
    OBVIOUS
  <2>3. IsGen(u) /\ u.recs = [g.recs EXCEPT ![r] = n] /\ \A x \in Fields \ {"recs"} : u[x] = g[x]
    BY <1>3, <2>2, UpdateIs
  <2>4. h = Emit(u, ins, r, a, src)
    BY <1>1, <1>5, <2>1, <2>2 DEF EmitRef
  <2>5. u.code = g.code /\ u.off = g.off /\ u.cur = g.cur
    BY <2>3 DEF Fields
  <2>6. /\ IsGen(h) /\ h.code = Append(g.code, e) /\ h.off = g.off + Size(ins)
        /\ \A x \in Fields \ {"code", "off"} : h[x] = u[x]
    BY <2>3, <2>4, <2>5, EmitIs
  <2>7. h.recs = [g.recs EXCEPT ![r] = n]
    BY <2>3, <2>6 DEF Fields
  <2>8. Becomes(g.recs[r], n, Undef, g.recs[r].list \cup {g.off})
    BY <1>3, <1>5, <2>1 DEF Becomes, IsRec, RecFields
  <2> HIDE DEF e
  <2>9. Appends(g, h, e) /\ e.ins \in Jumps /\ e.ref = r /\ Queues(g, h, r, n)
    BY <1>2, <1>5, <2>6, <2>7, <2>8 DEF Appends, Queues
  <2>10. Core(h, X) /\ Grows(g, h)
    BY <1>3, <2>9, Queued
  <2>11. \A x \in Fields \ {"recs", "code", "off"} : h[x] = g[x]
    BY <2>3, <2>6
  <2>12. Changed(g.recs, h.recs, r, n)
    BY <1>3, <2>7, ExceptIs
  <2>13. Step(g, h, X)
    BY <2>6, <2>10, <2>11, CoreStep
  <2> QED
    BY <1>1, <2>12, <2>13 DEF Changed, Only
<1> QED
  BY <1>4, <1>5

\* Insert of a fresh record is a step; nothing waits for the record.
LEMMA InsertStep ==
  ASSUME NEW g, NEW X, NEW e, Gen(g, X), Fresh(g, e)
  PROVE  /\ Step(g, Insert(g, e), X) /\ Step(g, Insert(g, e), X \cup {Len(g.recs) + 1})
         /\ Adds(g, Insert(g, e), e)
<1>1. PICK h : h = Insert(g, e)
  OBVIOUS
<1>2. IsGen(h) /\ h.recs = Append(g.recs, e) /\ \A x \in Fields \ {"recs"} : h[x] = g[x]
  BY <1>1, InsertIs DEF Gen
<1>3. h.code = g.code /\ h.off = g.off
  BY <1>2 DEF Fields
<1>4. Core(h, X) /\ Core(h, X \cup {Len(g.recs) + 1}) /\ Grows(g, h) /\ Adds(g, h, e)
  BY <1>2, <1>3, RecordAdded DEF Gen
<1>6. Step(g, h, X)
  BY <1>2, <1>4, CoreStep
<1>7. Step(g, h, X \cup {Len(g.recs) + 1})
  BY <1>2, <1>4, CoreStep
<1> QED
  BY <1>1, <1>4, <1>6, <1>7

\* The fields of a new record.
LEMMA RecordIs ==
  ASSUME NEW kind, NEW name, NEW off, NEW parent, NEW tab
  PROVE  /\ IsRec(Record(kind, name, off, parent, tab))
         /\ Record(kind, name, off, parent, tab).kind = kind
         /\ Record(kind, name, off, parent, tab).name = name
         /\ Record(kind, name, off, parent, tab).off = off
         /\ Record(kind, name, off, parent, tab).parent = parent
         /\ Record(kind, name, off, parent, tab).tab = tab
         /\ Record(kind, name, off, parent, tab).list = {}
  BY DEF Record, IsRec, RecFields

\* A new record that is global or belongs to the current function is fresh.
LEMMA FreshIs ==
  ASSUME NEW g, NEW X, NEW kind \in {"label", "func", "var"}, NEW name, NEW off \in {Undef} \cup Nat,
         NEW parent, NEW tab, Gen(g, X), parent = Nobody \/ parent = g.cur
  PROVE  Fresh(g, Record(kind, name, off, parent, tab))
<1>1. Len(g.recs) \in Nat /\ g.cur \in 0 .. Len(g.recs)
  BY SeqIs DEF Gen, Core, RecsOK, Rest
<1>2. parent \in 0 .. (Len(g.recs) + 1)
  BY <1>1 DEF Nobody
<1> QED
  BY <1>2, RecordIs DEF Fresh

\* A step changes the index or the slots only.
Counts(h, k) ==
  /\ IsGen(k) /\ k.slots \in Nat /\ k.index \in Nat
  /\ \A x \in Fields \ {"index", "slots"} : k[x] = h[x]
\* Counting labels or slots is part of a step.
LEMMA CountStep ==
  ASSUME NEW g, NEW h, NEW k, NEW X, Step(g, h, X), Counts(h, k)
  PROVE  Step(g, k, X)
<1>1. /\ k.recs = h.recs /\ k.code = h.code /\ k.off = h.off /\ k.cur = h.cur
      /\ k.lastTab = h.lastTab /\ k.sym = h.sym /\ k.tabs = h.tabs /\ k.saved = h.saved
      /\ k.tables = h.tables /\ k.pool = h.pool
  BY DEF Counts, Fields
<1>2. Core(k, X)
  BY <1>1 DEF Step, Gen, Core
<1>3. Rest(k)
  BY <1>1 DEF Step, Gen, Rest, Counts
<1>4. Keeps(g, k)
  BY <1>1 DEF Step, Keeps, Grows, Stacks
<1> QED
  BY <1>2, <1>3, <1>4 DEF Step, Gen, Counts

\* sp_create_label adds one record.
LEMMA CreateLabelStep ==
  ASSUME NEW g, NEW X, Gen(g, X)
  PROVE  /\ Step(g, CreateLabel(g), X) /\ Step(g, CreateLabel(g), X \cup {Len(g.recs) + 1})
         /\ Adds(g, CreateLabel(g), Record("label", <<"gen", g.index>>, Undef, g.cur, Table(g)))
         /\ CreateLabel(g).index = g.index + 1
<1>1. PICK e : e = Record("label", <<"gen", g.index>>, Undef, g.cur, Table(g))
  OBVIOUS
<1>2. Fresh(g, e)
  BY <1>1, FreshIs
<1>3. PICK h : h = Insert(g, e)
  OBVIOUS
<1>4. Step(g, h, X) /\ Step(g, h, X \cup {Len(g.recs) + 1}) /\ Adds(g, h, e)
  BY <1>2, <1>3, InsertStep
<1>5. PICK k : k = CreateLabel(g)
  OBVIOUS
<1>6. k = [h EXCEPT !.index = @ + 1]
  BY <1>1, <1>3, <1>5 DEF CreateLabel
<1>7. IsGen(h) /\ h.index \in Nat /\ h.slots \in Nat
  BY <1>4 DEF Step, Gen, Rest
<1>8. IsGen(k) /\ k.index = h.index + 1 /\ \A x \in Fields \ {"index"} : k[x] = h[x]
  BY <1>6, <1>7 DEF IsGen, Fields
<1>9. Counts(h, k) /\ k.recs = h.recs
  BY <1>7, <1>8 DEF Counts, Fields
<1>10. h.index = g.index
  BY <1>3, InsertIs DEF Fields, Gen
<1>11. Step(g, k, X) /\ Step(g, k, X \cup {Len(g.recs) + 1})
  BY <1>4, <1>9, CountStep
<1>12. Adds(g, k, e)
  BY <1>4, <1>9 DEF Adds
<1> QED
  BY <1>1, <1>5, <1>8, <1>10, <1>11, <1>12

\* The records of other kinds or names are left alone.
Others(g, h, kind, name) ==
  \A r \in DOMAIN g.recs : ~(g.recs[r].kind = kind /\ g.recs[r].name = name) =>
    r \in DOMAIN h.recs /\ h.recs[r] = g.recs[r]

\* Ensure finds or makes a record of the kind and name, and changes no other.
LEMMA EnsureStep ==
  ASSUME NEW g, NEW X, NEW kind \in {"label", "func"}, NEW name, Gen(g, X)
  PROVE  /\ Step(g, Ensure(g, kind, name), X)
         /\ Matches(Ensure(g, kind, name), kind, name) # {}
         /\ \A r \in DOMAIN g.recs : r \in DOMAIN Ensure(g, kind, name).recs /\ Ensure(g, kind, name).recs[r] = g.recs[r]
<1>1. PICK h : h = Ensure(g, kind, name)
  OBVIOUS
<1>2. IsSeq(g.code) /\ g.off \in Nat /\ IsSeq(g.recs) /\ Core(g, X)
  BY DEF Gen, Core, CodeOK, RecsOK
<1>3. CASE Select(g, kind, name) # Nobody
  <2>1. h = g
    BY <1>1, <1>3 DEF Ensure
  <2>2. Matches(g, kind, name) # {}
    BY <1>2, <1>3, SelectIs
  <2>3. Grows(g, g)
    BY <1>2, SeqIs DEF Grows, RecsGrow, CodeGrows
  <2>4. Step(g, g, X)
    BY <2>3 DEF Step, Keeps
  <2> QED
    BY <1>1, <2>1, <2>2, <2>4
<1>4. CASE Select(g, kind, name) = Nobody
  <2>1. PICK e : e = Record(kind, name, Undef, Nobody, Table(g))
    OBVIOUS
  <2>2. h = Insert(g, e) /\ Fresh(g, e)
    BY <1>1, <1>4, <2>1, FreshIs DEF Ensure
  <2>3. Step(g, h, X) /\ Adds(g, h, e)
    BY <2>2, InsertStep
  <2>4. h.tabs = g.tabs
    BY <2>3 DEF Step, Keeps, Stacks
  <2>5. e.kind = kind /\ e.name = name /\ e.tab = Table(g)
    BY <2>1, RecordIs
  <2>6. Len(g.recs) + 1 \in Matches(h, kind, name)
    BY <2>3, <2>4, <2>5 DEF Adds, Matches, Table
  <2> QED
    BY <1>1, <2>3, <2>6 DEF Adds
<1> QED
  BY <1>3, <1>4

\* sp_jump_to touches no record but the label it is given.
LEMMA JumpToStep ==
  ASSUME NEW g, NEW X, NEW ins \in Jumps, NEW name, NEW src, Gen(g, X)
  PROVE  /\ Step(g, JumpTo(g, ins, name, src), X)
         /\ Others(g, JumpTo(g, ins, name, src), "label", name)
<1>1. PICK h : h = Ensure(g, "label", name)
  OBVIOUS
<1>2. /\ Step(g, h, X) /\ Matches(h, "label", name) # {}
      /\ \A r \in DOMAIN g.recs : r \in DOMAIN h.recs /\ h.recs[r] = g.recs[r]
  BY <1>1, EnsureStep
<1>3. PICK r : r = Select(h, "label", name)
  OBVIOUS
<1>4. r \in Matches(h, "label", name)
  BY <1>2, <1>3, SelectIs DEF Step, Gen
<1>5. r \in DOMAIN h.recs /\ h.recs[r].kind = "label" /\ h.recs[r].name = name
  BY <1>4 DEF Matches
<1>6. PICK k : k = EmitRef(h, ins, r, src)
  OBVIOUS
<1>7. Step(h, k, X) /\ Only(h, k, r)
  BY <1>2, <1>5, <1>6, EmitRefStep DEF Step
<1>8. k = JumpTo(g, ins, name, src)
  BY <1>1, <1>3, <1>6 DEF JumpTo, EmitJump
<1>9. Step(g, k, X)
  BY <1>2, <1>7, StepTwice
<1>10. Others(g, k, "label", name)
  BY <1>2, <1>5, <1>7 DEF Others, Only
<1> QED
  BY <1>8, <1>9, <1>10

\* Adopt changes the owner of a record only.
LEMMA AdoptStep ==
  ASSUME NEW g, NEW X, NEW r, Gen(g, X), r \in DOMAIN g.recs
  PROVE  /\ Step(g, Adopt(g, r), X) /\ Only(g, Adopt(g, r), r)
         /\ Adopt(g, r).recs[r].kind = g.recs[r].kind /\ Adopt(g, r).recs[r].off = g.recs[r].off
<1>1. PICK e : e = [g.recs[r] EXCEPT !.parent = g.cur]
  OBVIOUS
<1>2. PICK h : h = Update(g, r, e)
  OBVIOUS
<1>3. IsRec(g.recs[r]) /\ IsSeq(g.recs) /\ g.cur \in 0 .. Len(g.recs)
  BY DEF Gen, Core, RecsOK, Rest
<1>4. /\ IsRec(e) /\ e.kind = g.recs[r].kind /\ e.off = g.recs[r].off /\ e.list = g.recs[r].list
      /\ e.tab = g.recs[r].tab /\ e.parent \in 0 .. Len(g.recs)
  BY <1>1, <1>3 DEF IsRec, RecFields
<1>5. IsGen(h) /\ h.recs = [g.recs EXCEPT ![r] = e] /\ \A x \in Fields \ {"recs"} : h[x] = g[x]
  BY <1>2, UpdateIs DEF Gen
<1>6. h.code = g.code /\ h.off = g.off
  BY <1>5 DEF Fields
<1>7. Core(h, X) /\ Grows(g, h)
  BY <1>4, <1>5, <1>6, RecordChanged DEF Gen
<1>8. Step(g, h, X)
  BY <1>5, <1>7, CoreStep
<1>9. Changed(g.recs, h.recs, r, e)
  BY <1>3, <1>5, ExceptIs
<1>10. h = Adopt(g, r)
  BY <1>1, <1>2 DEF Adopt
<1> QED
  BY <1>4, <1>8, <1>9, <1>10 DEF Changed, Only

\* Resolve patches every site that waits for the record.
LEMMA ResolveStep ==
  ASSUME NEW g, NEW X, NEW r, Gen(g, X), r \in DOMAIN g.recs, g.recs[r].off = Undef,
         g.recs[r].kind # "table"
  PROVE  /\ Step(g, Resolve(g, r), X) /\ Only(g, Resolve(g, r), r)
         /\ Resolve(g, r).recs[r].kind = g.recs[r].kind
         /\ Resolve(g, r).recs[r].off = g.off
         /\ \A x \in Fields \ {"recs", "code"} : Resolve(g, r)[x] = g[x]
<1>1. PICK n : n = [g.recs[r] EXCEPT !.off = g.off, !.list = {}]
  OBVIOUS
<1>2. PICK u : u = [g EXCEPT !.code = Patch(g.code, g.recs[r].list, g.off)]
  OBVIOUS
<1>3. IsRec(g.recs[r]) /\ IsSeq(g.recs) /\ IsGen(g) /\ Core(g, X)
  BY DEF Gen, Core, RecsOK
<1>4. /\ IsGen(u) /\ u.code = Patch(g.code, g.recs[r].list, g.off)
      /\ \A x \in Fields \ {"code"} : u[x] = g[x]
  BY <1>2, <1>3 DEF IsGen, Fields
<1>5. PICK h : h = Update(u, r, n)
  OBVIOUS
<1>6. IsGen(h) /\ h.recs = [u.recs EXCEPT ![r] = n] /\ \A x \in Fields \ {"recs"} : h[x] = u[x]
  BY <1>4, <1>5 DEF Update, IsGen, Fields
<1>7. /\ h.recs = [g.recs EXCEPT ![r] = n] /\ h.code = Patch(g.code, g.recs[r].list, g.off)
      /\ h.off = g.off
  BY <1>4, <1>6 DEF Fields
<1>8. Becomes(g.recs[r], n, g.off, {})
  BY <1>1, <1>3 DEF Becomes, IsRec, RecFields
<1>9. Core(h, X) /\ Grows(g, h)
  BY <1>3, <1>7, <1>8, Addressed
<1>10. \A x \in Fields \ {"recs", "code"} : h[x] = g[x]
  BY <1>4, <1>6
<1>11. Step(g, h, X)
  BY <1>6, <1>9, <1>10, CoreStep
<1>12. Changed(g.recs, h.recs, r, n)
  BY <1>3, <1>7, ExceptIs
<1>13. h = Resolve(g, r)
  BY <1>1, <1>2, <1>5 DEF Resolve
<1> QED
  BY <1>8, <1>10, <1>11, <1>12, <1>13 DEF Changed, Only, Becomes

\* A report changes nothing else.
LEMMA ErrorStep ==
  ASSUME NEW g, NEW X, NEW what, NEW r, Gen(g, X)
  PROVE  Step(g, Error(g, what, r), X) /\ Error(g, what, r).recs = g.recs
<1>1. PICK h : h = Error(g, what, r)
  OBVIOUS
<1>2. IsGen(h) /\ \A x \in Fields \ {"errors"} : h[x] = g[x]
  BY <1>1 DEF Error, IsGen, Fields, Gen
<1>3. h.recs = g.recs /\ h.code = g.code /\ h.off = g.off
  BY <1>2 DEF Fields
<1>4. Core(h, X)
  BY <1>3 DEF Gen, Core
<1>5. Grows(g, h)
  BY <1>3, SeqIs DEF Gen, Core, RecsOK, CodeOK, Grows, RecsGrow, CodeGrows
<1> QED
  BY <1>1, <1>2, <1>3, <1>4, <1>5, CoreStep

\* sp_new_label places the label, or reports that it has a place already.
LEMMA NewLabelStep ==
  ASSUME NEW g, NEW X, NEW name, Gen(g, X)
  PROVE  Step(g, NewLabel(g, name), X)
<1>1. PICK h : h = Ensure(g, "label", name)
  OBVIOUS
<1>2. Step(g, h, X) /\ Matches(h, "label", name) # {}
  BY <1>1, EnsureStep
<1>3. PICK r : r = Select(h, "label", name)
  OBVIOUS
<1>4. r \in Matches(h, "label", name)
  BY <1>2, <1>3, SelectIs DEF Step, Gen
<1>5. r \in DOMAIN h.recs /\ h.recs[r].kind = "label" /\ Gen(h, X)
  BY <1>2, <1>4 DEF Matches, Step
<1>6. NewLabel(g, name) = DefineLabel(h, r)
  BY <1>1, <1>3 DEF NewLabel, DefineNamed
<1>7. CASE h.recs[r].off # Undef
  <2>1. NewLabel(g, name) = Error(h, "MULTI_LABEL", r)
    BY <1>6, <1>7 DEF DefineLabel
  <2> QED
    BY <1>2, <1>5, <2>1, ErrorStep, StepTwice
<1>8. CASE h.recs[r].off = Undef
  <2>1. PICK k : k = Adopt(h, r)
    OBVIOUS
  <2>2. Step(h, k, X) /\ Only(h, k, r) /\ k.recs[r].kind = "label" /\ k.recs[r].off = Undef
    BY <1>5, <1>8, <2>1, AdoptStep
  <2>3. r \in DOMAIN k.recs /\ k.recs[r].kind # "table" /\ Gen(k, X)
    BY <1>5, <2>2 DEF Only, Step
  <2>4. PICK d : d = Resolve(k, r)
    OBVIOUS
  <2>5. Step(k, d, X)
    BY <2>2, <2>3, <2>4, ResolveStep
  <2>6. NewLabel(g, name) = d
    BY <1>6, <1>8, <2>1, <2>4 DEF DefineLabel
  <2>7. Step(g, k, X)
    BY <1>2, <2>2, StepTwice
  <2> QED
    BY <2>5, <2>6, <2>7, StepTwice
<1> QED
  BY <1>7, <1>8

\* sp_create_variable changes no code and no record of another kind.
LEMMA CreateVariableStep ==
  ASSUME NEW g, NEW X, NEW name, Gen(g, X)
  PROVE  /\ Step(g, CreateVariable(g, name), X)
         /\ \A r \in DOMAIN g.recs : g.recs[r].kind # "var" =>
              r \in DOMAIN CreateVariable(g, name).recs /\ CreateVariable(g, name).recs[r] = g.recs[r]
         /\ CreateVariable(g, name).code = g.code /\ CreateVariable(g, name).off = g.off
<1>1. PICK h : h = CreateVariable(g, name)
  OBVIOUS
<1>2. CASE Select(g, "var", name) # Nobody
  <2>1. PICK r : r = Select(g, "var", name)
    OBVIOUS
  <2>2. r \in Matches(g, "var", name)
    BY <1>2, <2>1, SelectIs DEF Gen
  <2>3. r \in DOMAIN g.recs /\ g.recs[r].kind = "var"
    BY <2>2 DEF Matches
  <2>4. h = Adopt(g, r)
    BY <1>1, <1>2, <2>1 DEF CreateVariable
  <2>5. Step(g, h, X) /\ Only(g, h, r)
    BY <2>3, <2>4, AdoptStep
  <2>6. h.code = g.code /\ h.off = g.off
    BY <2>4 DEF Adopt, Update, IsGen, Fields, Gen
  <2> QED
    BY <1>1, <2>3, <2>5, <2>6 DEF Only
<1>3. CASE Select(g, "var", name) = Nobody
  <2>1. PICK e : e = Record("var", name, g.slots, g.cur, Table(g))
    OBVIOUS
  <2>2. g.slots \in Nat /\ Fresh(g, e)
    BY <2>1, FreshIs DEF Gen, Rest
  <2>3. PICK k : k = Insert(g, e)
    OBVIOUS
  <2>4. Step(g, k, X) /\ Adds(g, k, e)
    BY <2>2, <2>3, InsertStep
  <2>5. IsGen(k) /\ k.slots \in Nat /\ k.index \in Nat /\ k.code = g.code /\ k.off = g.off
    BY <2>3, <2>4, InsertIs DEF Step, Gen, Rest, Fields
  <2>6. h = [k EXCEPT !.slots = @ + 1]
    BY <1>1, <1>3, <2>1, <2>3 DEF CreateVariable
  <2>7. IsGen(h) /\ h.slots = k.slots + 1 /\ \A x \in Fields \ {"slots"} : h[x] = k[x]
    BY <2>5, <2>6 DEF IsGen, Fields
  <2>8. Counts(k, h) /\ h.recs = k.recs /\ h.code = g.code /\ h.off = g.off
    BY <2>5, <2>7 DEF Counts, Fields
  <2>9. Step(g, h, X)
    BY <2>4, <2>8, CountStep
  <2> QED
    BY <1>1, <2>4, <2>8, <2>9 DEF Adds
<1> QED
  BY <1>2, <1>3

\* Loading and storing a variable is a step.
LEMMA EmitVarStep ==
  ASSUME NEW g, NEW X, NEW ins \in {"OBJPUSH", "OBJPOP"}, NEW name, Gen(g, X)
  PROVE  Step(g, EmitVar(g, ins, name), X) /\ EmitVar(g, ins, name).recs = g.recs
<1>1. ins \notin Jumps
  BY DEF Jumps, Branches
<1> QED
  BY <1>1, EmitStep DEF EmitVar

\* An entry is appended to the pool.
LEMMA PoolStep ==
  ASSUME NEW g, NEW h, NEW X, NEW e, Gen(g, X), e.at \in Nat, e.bytes \in Nat,
         h = [g EXCEPT !.pool = Append(@, e)]
  PROVE  Step(g, h, X) /\ h.recs = g.recs
<1>1. IsGen(g) /\ IsSeq(g.pool) /\ \A i \in DOMAIN g.pool : g.pool[i].at \in Nat /\ g.pool[i].bytes \in Nat
  BY DEF Gen, Rest
<1>2. IsGen(h) /\ h.pool = Append(g.pool, e) /\ \A x \in Fields \ {"pool"} : h[x] = g[x]
  BY <1>1 DEF IsGen, Fields
<1>3. IsSeq(h.pool) /\ \A i \in DOMAIN h.pool : h.pool[i].at \in Nat /\ h.pool[i].bytes \in Nat
  BY <1>1, <1>2, AppendIs
<1>4. /\ h.recs = g.recs /\ h.code = g.code /\ h.off = g.off /\ h.cur = g.cur
      /\ h.slots = g.slots /\ h.index = g.index /\ h.lastTab = g.lastTab /\ h.sym = g.sym
      /\ h.tabs = g.tabs /\ h.saved = g.saved /\ h.tables = g.tables
  BY <1>2 DEF Fields
<1>5. Core(h, X) /\ Rest(h)
  BY <1>3, <1>4 DEF Gen, Core, Rest
<1>6. Grows(g, h)
  BY <1>4, SeqIs DEF Gen, Core, RecsOK, CodeOK, Grows, RecsGrow, CodeGrows
<1> QED
  BY <1>2, <1>4, <1>5, <1>6 DEF Step, Gen, Keeps, Stacks

\* The end of the pool is an address.
LEMMA PoolEndIs ==
  ASSUME NEW g, NEW X, Gen(g, X)
  PROVE  PoolEnd(g) \in Nat
<1>1. IsSeq(g.pool) /\ \A i \in DOMAIN g.pool : g.pool[i].at \in Nat /\ g.pool[i].bytes \in Nat
  BY DEF Gen, Rest
<1>2. CASE g.pool = <<>>
  BY <1>2 DEF PoolEnd
<1>3. CASE g.pool # <<>>
  <2>1. Len(g.pool) \in DOMAIN g.pool
    BY <1>1, <1>3 DEF IsSeq
  <2>2. PICK z : z = g.pool[Len(g.pool)] /\ z.at \in Nat /\ z.bytes \in Nat
    BY <1>1, <2>1
  <2> QED
    BY <1>3, <2>2 DEF PoolEnd, Last
<1> QED
  BY <1>2, <1>3

\* sp_push_constant and the instruction that loads the constant are steps.
LEMMA LoadConstantStep ==
  ASSUME NEW g, NEW X, NEW c, Gen(g, X)
  PROVE  /\ Step(g, PushConstant(g, c), X) /\ PushConstant(g, c).recs = g.recs
         /\ Step(g, LoadConstant(g, c), X) /\ LoadConstant(g, c).recs = g.recs
<1>1. PICK h : h = PushConstant(g, c)
  OBVIOUS
<1>2. Step(g, h, X) /\ h.recs = g.recs
  <2>1. CASE KnowsConstant(g, c)
    <3>1. h = g
      BY <1>1, <2>1 DEF PushConstant
    <3>2. Grows(g, g)
      BY SeqIs DEF Gen, Core, RecsOK, CodeOK, Grows, RecsGrow, CodeGrows
    <3> QED
      BY <3>1, <3>2 DEF Step, Keeps
  <2>2. CASE ~KnowsConstant(g, c)
    <3>1. PICK e : e = [at |-> PoolEnd(g), bytes |-> 2, value |-> c, tab |-> Table(g), table |-> NoTable]
      OBVIOUS
    <3>2. h = [g EXCEPT !.pool = Append(@, e)]
      BY <1>1, <2>2, <3>1 DEF PushConstant
    <3>3. e.at \in Nat /\ e.bytes \in Nat
      BY <3>1, PoolEndIs
    <3> QED
      BY <3>2, <3>3, PoolStep
  <2> QED
    BY <2>1, <2>2
<1>3. "OBJCONST" \notin Jumps
  BY DEF Jumps, Branches
<1>4. PICK k : k = EmitConst(h, c)
  OBVIOUS
<1>5. Step(h, k, X) /\ k.recs = h.recs
  BY <1>2, <1>3, <1>4, EmitStep DEF EmitConst, Step
<1>6. k = LoadConstant(g, c)
  BY <1>1, <1>4 DEF LoadConstant
<1>7. Step(g, k, X)
  BY <1>2, <1>5, StepTwice
<1> QED
  BY <1>1, <1>2, <1>5, <1>6, <1>7

(***************************************************************************)
(* The constructs that are open and what they keep on the stacks.          *)
(***************************************************************************)
Kinds == {"function", "while", "if", "else", "switch", "lambda", "try", "catch", "handler"}
Frames == {"function", "lambda", "handler"}
SymWidth ==
  [k \in Kinds |-> IF k = "handler" THEN 3 ELSE IF k \in {"switch", "catch"} THEN 2
                   ELSE IF k = "try" THEN 0 ELSE 1]
SavedWidth == [k \in Kinds |-> IF k \in {"lambda", "handler"} THEN 1 ELSE 0]
TableWidth == [k \in Kinds |-> IF k = "switch" THEN 1 ELSE 0]

\* b[i]: the height of a stack when the first i constructs have pushed their entries.
Heights(o, w, b, n) ==
  /\ b \in [0 .. Len(o) -> Nat]
  /\ b[0] = 0 /\ b[Len(o)] = n
  /\ \A i \in 1 .. Len(o) : b[i] = b[i - 1] + w[o[i]]
  /\ \A i, j \in 0 .. Len(o) : i <= j => b[i] <= b[j]

SameUpTo(b, c, m) == \A i \in 0 .. m : c[i] = b[i]

\* The heights of the stack when a construct is opened.
LEMMA HeightsPush ==
  ASSUME NEW o \in Seq(Kinds), NEW w \in [Kinds -> Nat], NEW b, NEW n \in Nat, NEW k \in Kinds,
         Heights(o, w, b, n)
  PROVE  \E c : /\ Heights(Append(o, k), w, c, n + w[k])
                /\ SameUpTo(b, c, Len(o))
<1>1. PICK m \in Nat : m = Len(o)
  OBVIOUS
<1>2. PICK v \in Nat : v = w[k]
  OBVIOUS
<1>3. PICK p : p = Append(o, k)
  OBVIOUS
<1>4. Len(p) = m + 1 /\ p[m + 1] = k /\ \A i \in 1 .. m : p[i] = o[i]
  BY <1>1, <1>3
<1>5. PICK c : c = [i \in 0 .. (m + 1) |-> IF i <= m THEN b[i] ELSE n + v]
  OBVIOUS
<1>6. /\ b \in [0 .. m -> Nat] /\ b[0] = 0 /\ b[m] = n
      /\ \A i \in 1 .. m : b[i] = b[i - 1] + w[o[i]]
      /\ \A i, j \in 0 .. m : i <= j => b[i] <= b[j]
  BY <1>1 DEF Heights
<1>7. c \in [0 .. (m + 1) -> Nat] /\ (\A i \in 0 .. m : c[i] = b[i]) /\ c[m + 1] = n + v
  BY <1>5, <1>6
<1>8. \A i \in 1 .. (m + 1) : c[i] = c[i - 1] + w[p[i]]
  <2>1. c[m + 1] = c[m + 1 - 1] + w[p[m + 1]]
    BY <1>2, <1>4, <1>6, <1>7
  <2>2. ASSUME NEW i \in 1 .. m PROVE c[i] = c[i - 1] + w[p[i]]
    <3>1. i \in 0 .. m /\ i - 1 \in 0 .. m
      OBVIOUS
    <3> QED
      BY <1>4, <1>6, <1>7, <3>1
  <2> QED
    BY <2>1, <2>2
<1>9. \A i, j \in 0 .. (m + 1) : i <= j => c[i] <= c[j]
  <2>1. \A i \in 0 .. m : b[i] <= n /\ b[i] \in Nat
    BY <1>6
  <2> SUFFICES ASSUME NEW i \in 0 .. (m + 1), NEW j \in 0 .. (m + 1), i <= j
               PROVE  c[i] <= c[j]
    OBVIOUS
  <2>2. CASE j <= m
    <3>1. i \in 0 .. m /\ j \in 0 .. m
      BY <2>2
    <3> QED
      BY <1>6, <1>7, <3>1
  <2>3. CASE j > m
    <3>1. j = m + 1 /\ (i \in 0 .. m \/ i = m + 1)
      BY <2>3
    <3> QED
      BY <1>7, <2>1, <3>1
  <2> QED
    BY <2>2, <2>3
<1>10. Heights(p, w, c, n + v)
  BY <1>4, <1>6, <1>7, <1>8, <1>9 DEF Heights
<1> QED
  BY <1>1, <1>2, <1>3, <1>7, <1>10 DEF SameUpTo

\* The heights of the stack when the innermost construct is closed.
LEMMA HeightsPop ==
  ASSUME NEW o \in Seq(Kinds), NEW w \in [Kinds -> Nat], NEW b, NEW n \in Nat, o # <<>>,
         Heights(o, w, b, n)
  PROVE  /\ Last(o) \in Kinds /\ w[Last(o)] <= n /\ b[Len(o) - 1] = n - w[Last(o)]
         /\ \E c : /\ Heights(Front(o), w, c, n - w[Last(o)])
                   /\ SameUpTo(b, c, Len(o) - 1)
<1>1. PICK m \in Nat : m = Len(o) - 1
  OBVIOUS
<1>2. Len(o) = m + 1 /\ Last(o) = o[m + 1] /\ o[m + 1] \in Kinds
  BY <1>1 DEF Last
<1>3. /\ b \in [0 .. (m + 1) -> Nat] /\ b[0] = 0 /\ b[m + 1] = n
      /\ \A i \in 1 .. (m + 1) : b[i] = b[i - 1] + w[o[i]]
      /\ \A i, j \in 0 .. (m + 1) : i <= j => b[i] <= b[j]
  BY <1>2 DEF Heights
<1>4. PICK v \in Nat : v = w[o[m + 1]]
  BY <1>2
<1>5. b[m] \in Nat /\ n = b[m] + v
  BY <1>3, <1>4
<1>6. PICK f : f = Front(o)
  OBVIOUS
<1>7. Len(f) = m /\ \A i \in 1 .. m : f[i] = o[i]
  <2>1. IsSeq(o)
    BY DEF IsSeq, Range
  <2>2. IsSeq(f) /\ Len(f) = m /\ \A i \in DOMAIN f : f[i] = o[i]
    BY <1>1, <1>6, <2>1, FrontIs
  <2> QED
    BY <2>2, SeqIs
<1>8. PICK c : c = [i \in 0 .. m |-> b[i]]
  OBVIOUS
<1>9. c \in [0 .. m -> Nat] /\ \A i \in 0 .. m : c[i] = b[i]
  BY <1>3, <1>8
<1>10. Heights(f, w, c, b[m])
  <2>1. ASSUME NEW i \in 1 .. m PROVE c[i] = c[i - 1] + w[f[i]]
    <3>1. i \in 1 .. (m + 1) /\ i \in 0 .. m /\ i - 1 \in 0 .. m
      OBVIOUS
    <3> QED
      BY <1>3, <1>7, <1>9, <3>1
  <2>2. \A i, j \in 0 .. m : i <= j => c[i] <= c[j]
    BY <1>3, <1>9
  <2> QED
    BY <1>3, <1>7, <1>9, <2>1, <2>2 DEF Heights
<1>11. b[m] = n - v /\ v <= n
  BY <1>5
<1> QED
  BY <1>1, <1>2, <1>4, <1>6, <1>9, <1>10, <1>11 DEF SameUpTo

\* The record of a frame: at its address stands SCTX.
Framed(g, r) ==
  /\ r \in DOMAIN g.recs /\ g.recs[r].kind \in {"label", "func"}
  /\ g.recs[r].off \in Nat /\ g.recs[r].off < g.off
  /\ \A i \in DOMAIN g.code : g.code[i].at = g.recs[r].off => g.code[i].ins = "SCTX"
Tabled(g, r) == r \in DOMAIN g.recs /\ g.recs[r].kind = "table"

\* Growing keeps records, the SCTX at the address of a frame, and tables.
LEMMA GrowsKeeps ==
  ASSUME NEW g, NEW h, NEW X, NEW Y, Core(g, X), Core(h, Y), Grows(g, h)
  PROVE  /\ DOMAIN g.recs \subseteq DOMAIN h.recs
         /\ \A r : Framed(g, r) => Framed(h, r)
         /\ \A r : Tabled(g, r) => Tabled(h, r)
<1>1. /\ DOMAIN g.recs = 1 .. Len(g.recs) /\ DOMAIN h.recs = 1 .. Len(h.recs)
      /\ Len(g.recs) \in Nat /\ Len(h.recs) \in Nat /\ g.off \in Nat /\ h.off \in Nat
      /\ \A i \in DOMAIN h.code : h.code[i].at \in Nat
  BY SeqIs DEF Core, RecsOK, CodeOK
<1>2. DOMAIN g.recs \subseteq DOMAIN h.recs
  BY <1>1 DEF Grows, RecsGrow
<1>3. ASSUME NEW r, Framed(g, r)
      PROVE  Framed(h, r)
  <2>1. h.recs[r].kind = g.recs[r].kind /\ h.recs[r].off = g.recs[r].off
    BY <1>3 DEF Framed, Grows, RecsGrow, Undef
  <2>2. \A i \in DOMAIN h.code : h.code[i].at = g.recs[r].off => h.code[i].ins = "SCTX"
    BY <1>1, <1>3 DEF Framed, Grows, CodeGrows
  <2> QED
    BY <1>1, <1>2, <1>3, <2>1, <2>2 DEF Framed, Grows, CodeGrows
<1>4. \A r : Tabled(g, r) => Tabled(h, r)
  BY <1>2 DEF Tabled, Grows, RecsGrow
<1> QED
  BY <1>2, <1>3, <1>4

\* The stacks have the height the open constructs give them, and hold what these need.
Deep(o, w, n) == \E b : Heights(o, w, b, n)
Holds(g, o, b) ==
  /\ \A j \in 1 .. Len(g.sym) : g.sym[j] \in DOMAIN g.recs
  /\ \A i \in 1 .. Len(o) :
       /\ o[i] \in Frames => Framed(g, g.sym[b[i]])
       /\ o[i] = "switch" => Tabled(g, g.sym[b[i] - 1])
Nested(g, o) ==
  /\ o \in Seq(Kinds)
  /\ Deep(o, SavedWidth, Len(g.saved))
  /\ Deep(o, TableWidth, Len(g.tables))
  /\ \E b : Heights(o, SymWidth, b, Len(g.sym)) /\ Holds(g, o, b)

\* What the constructs push.
LEMMA WidthsAre ==
  /\ SymWidth \in [Kinds -> Nat] /\ SavedWidth \in [Kinds -> Nat] /\ TableWidth \in [Kinds -> Nat]
  /\ \A k \in Frames : k \in Kinds /\ SymWidth[k] >= 1
  /\ SymWidth["switch"] = 2
  BY DEF SymWidth, SavedWidth, TableWidth, Kinds, Frames

\* The positions the invariant speaks of are on the stack.
LEMMA Positions ==
  ASSUME NEW o \in Seq(Kinds), NEW b, NEW n \in Nat, NEW i \in 1 .. Len(o),
         Heights(o, SymWidth, b, n)
  PROVE  /\ o[i] \in Frames => b[i] \in 1 .. n
         /\ o[i] = "switch" => b[i] - 1 \in 1 .. n
<1>1. /\ b[i] \in Nat /\ b[i - 1] \in Nat /\ b[i] = b[i - 1] + SymWidth[o[i]] /\ b[i] <= n
  <2>1. Len(o) \in Nat /\ i \in 0 .. Len(o) /\ i - 1 \in 0 .. Len(o) /\ Len(o) \in 0 .. Len(o)
    OBVIOUS
  <2> QED
    BY <2>1 DEF Heights
<1>2. o[i] \in Kinds /\ SymWidth[o[i]] \in Nat
  BY WidthsAre
<1>3. o[i] \in Frames => SymWidth[o[i]] >= 1
  BY WidthsAre
<1>4. o[i] = "switch" => SymWidth[o[i]] = 2
  BY WidthsAre
<1> QED
  BY <1>1, <1>2, <1>3, <1>4

\* Growing under the same stacks keeps the constructs in order.
LEMMA NestedStays ==
  ASSUME NEW g, NEW h, NEW o, NEW X, NEW Y, Gen(g, X), Gen(h, Y), Grows(g, h), Nested(g, o),
         h.sym = g.sym, Len(h.saved) = Len(g.saved), Len(h.tables) = Len(g.tables)
  PROVE  Nested(h, o)
<1>1. PICK b : Heights(o, SymWidth, b, Len(g.sym)) /\ Holds(g, o, b)
  BY DEF Nested
<1>2. /\ DOMAIN g.recs \subseteq DOMAIN h.recs
      /\ \A r : Framed(g, r) => Framed(h, r)
      /\ \A r : Tabled(g, r) => Tabled(h, r)
  BY GrowsKeeps DEF Gen
<1>3. Holds(h, o, b)
  <2>1. \A j \in 1 .. Len(g.sym) : g.sym[j] \in DOMAIN h.recs
    BY <1>1, <1>2 DEF Holds
  <2>2. ASSUME NEW i \in 1 .. Len(o)
        PROVE  /\ o[i] \in Frames => Framed(h, g.sym[b[i]])
               /\ o[i] = "switch" => Tabled(h, g.sym[b[i] - 1])
    BY <1>1, <1>2, <2>2, Zenon DEF Holds
  <2> QED
    BY <2>1, <2>2 DEF Holds
<1> QED
  BY <1>1, <1>3 DEF Nested

Pushed(g, h, k) ==
  /\ Len(h.sym) = Len(g.sym) + SymWidth[k]
  /\ \A j \in 1 .. Len(g.sym) : h.sym[j] = g.sym[j]
  /\ \A j \in 1 .. Len(h.sym) : j > Len(g.sym) => h.sym[j] \in DOMAIN h.recs
  /\ Len(h.saved) = Len(g.saved) + SavedWidth[k]
  /\ Len(h.tables) = Len(g.tables) + TableWidth[k]
  /\ k \in Frames => Framed(h, h.sym[Len(h.sym)])
  /\ k = "switch" => Tabled(h, h.sym[Len(h.sym) - 1])
\* A construct that pushes what it owes to the stacks may be opened.
LEMMA NestedPush ==
  ASSUME NEW g, NEW h, NEW o, NEW k \in Kinds, NEW X, NEW Y, Gen(g, X), Gen(h, Y), Grows(g, h),
         Nested(g, o), Pushed(g, h, k)
  PROVE  Nested(h, Append(o, k))
<1>1. PICK b : Heights(o, SymWidth, b, Len(g.sym)) /\ Holds(g, o, b)
  BY DEF Nested
<1>2. PICK bs : Heights(o, SavedWidth, bs, Len(g.saved))
  BY DEF Nested, Deep
<1>3. PICK bt : Heights(o, TableWidth, bt, Len(g.tables))
  BY DEF Nested, Deep
<1>4. /\ o \in Seq(Kinds) /\ Len(g.sym) \in Nat /\ Len(g.saved) \in Nat /\ Len(g.tables) \in Nat
      /\ Len(o) \in Nat
  BY SeqIs DEF Nested, Gen, Rest
<1>5. Deep(Append(o, k), SavedWidth, Len(h.saved))
  <2>1. \E c : Heights(Append(o, k), SavedWidth, c, Len(g.saved) + SavedWidth[k])
    BY <1>2, <1>4, HeightsPush, WidthsAre
  <2> QED
    BY <2>1 DEF Pushed, Deep
<1>6. Deep(Append(o, k), TableWidth, Len(h.tables))
  <2>1. \E c : Heights(Append(o, k), TableWidth, c, Len(g.tables) + TableWidth[k])
    BY <1>3, <1>4, HeightsPush, WidthsAre
  <2> QED
    BY <2>1 DEF Pushed, Deep
<1>7. PICK c : /\ Heights(Append(o, k), SymWidth, c, Len(h.sym))
               /\ SameUpTo(b, c, Len(o))
  <2>1. \E c : /\ Heights(Append(o, k), SymWidth, c, Len(g.sym) + SymWidth[k])
               /\ SameUpTo(b, c, Len(o))
    BY <1>1, <1>4, HeightsPush, WidthsAre
  <2> QED
    BY <2>1 DEF Pushed
<1>8. /\ DOMAIN g.recs \subseteq DOMAIN h.recs
      /\ \A r : Framed(g, r) => Framed(h, r)
      /\ \A r : Tabled(g, r) => Tabled(h, r)
  BY GrowsKeeps DEF Gen
<1>9. PICK p : p = Append(o, k)
  OBVIOUS
<1>10. /\ Len(p) = Len(o) + 1 /\ p \in Seq(Kinds) /\ p[Len(o) + 1] = k
       /\ \A i \in 1 .. Len(o) : p[i] = o[i]
  BY <1>4, <1>9
<1>11. Holds(h, p, c)
  <2>1. \A j \in 1 .. Len(h.sym) : h.sym[j] \in DOMAIN h.recs
    <3> SUFFICES ASSUME NEW j \in 1 .. Len(h.sym) PROVE h.sym[j] \in DOMAIN h.recs
      OBVIOUS
    <3>1. CASE j > Len(g.sym)
      BY <3>1 DEF Pushed
    <3>2. CASE ~(j > Len(g.sym))
      <4>1. j \in 1 .. Len(g.sym)
        BY <1>4, <3>2
      <4> QED
        BY <1>1, <1>8, <4>1 DEF Pushed, Holds
    <3> QED
      BY <3>1, <3>2
  <2>2. ASSUME NEW i \in 1 .. Len(p)
        PROVE  /\ p[i] \in Frames => Framed(h, h.sym[c[i]])
               /\ p[i] = "switch" => Tabled(h, h.sym[c[i] - 1])
    <3>1. CASE i = Len(o) + 1
      <4>1. p[i] = k /\ c[i] = Len(h.sym)
        BY <1>7, <1>9, <1>10, <3>1 DEF Heights
      <4> QED
        BY <4>1 DEF Pushed
    <3>2. CASE i # Len(o) + 1
      <4>1. i \in 1 .. Len(o) /\ i \in 0 .. Len(o)
        BY <1>4, <1>10, <2>2, <3>2
      <4>2. p[i] = o[i] /\ c[i] = b[i]
        BY <1>7, <1>10, <4>1 DEF SameUpTo
      <4>3. /\ o[i] \in Frames => b[i] \in 1 .. Len(g.sym)
            /\ o[i] = "switch" => b[i] - 1 \in 1 .. Len(g.sym)
        BY <1>1, <1>4, <4>1, Positions
      <4>4. \A j \in 1 .. Len(g.sym) : h.sym[j] = g.sym[j]
        BY DEF Pushed
      <4>5. /\ o[i] \in Frames => Framed(g, g.sym[b[i]])
            /\ o[i] = "switch" => Tabled(g, g.sym[b[i] - 1])
        BY <1>1, <4>1, Zenon DEF Holds
      <4>6. /\ o[i] \in Frames => Framed(h, h.sym[b[i]])
            /\ o[i] = "switch" => Tabled(h, h.sym[b[i] - 1])
        BY <1>8, <4>3, <4>4, <4>5, Zenon
      <4> QED
        BY <4>2, <4>6, Zenon
    <3> QED
      BY <3>1, <3>2
  <2> QED
    BY <2>1, <2>2 DEF Holds
<1> QED
  BY <1>5, <1>6, <1>7, <1>9, <1>10, <1>11 DEF Nested

\* What the innermost construct has on the stacks.
LEMMA NestedTop ==
  ASSUME NEW g, NEW o, NEW X, Gen(g, X), Nested(g, o), o # <<>>
  PROVE  /\ Last(o) \in Kinds
         /\ SymWidth[Last(o)] <= Len(g.sym) /\ SavedWidth[Last(o)] <= Len(g.saved)
         /\ TableWidth[Last(o)] <= Len(g.tables)
         /\ \A j \in 1 .. Len(g.sym) : g.sym[j] \in DOMAIN g.recs
         /\ Last(o) \in Frames => Framed(g, g.sym[Len(g.sym)])
         /\ Last(o) = "switch" => Tabled(g, g.sym[Len(g.sym) - 1])
<1>1. PICK b : Heights(o, SymWidth, b, Len(g.sym)) /\ Holds(g, o, b)
  BY DEF Nested
<1>2. PICK bs : Heights(o, SavedWidth, bs, Len(g.saved))
  BY DEF Nested, Deep
<1>3. PICK bt : Heights(o, TableWidth, bt, Len(g.tables))
  BY DEF Nested, Deep
<1>4. o \in Seq(Kinds) /\ Len(g.sym) \in Nat /\ Len(g.saved) \in Nat /\ Len(g.tables) \in Nat
  BY SeqIs DEF Nested, Gen, Rest
<1>5. Last(o) \in Kinds /\ SymWidth[Last(o)] <= Len(g.sym)
  BY <1>1, <1>4, HeightsPop, WidthsAre
<1>6. SavedWidth[Last(o)] <= Len(g.saved)
  BY <1>2, <1>4, HeightsPop, WidthsAre
<1>7. TableWidth[Last(o)] <= Len(g.tables)
  BY <1>3, <1>4, HeightsPop, WidthsAre
<1>8. Len(o) \in 1 .. Len(o) /\ o[Len(o)] = Last(o) /\ b[Len(o)] = Len(g.sym)
  BY <1>1, <1>4 DEF Last, Heights
<1> QED
  BY <1>1, <1>5, <1>6, <1>7, <1>8 DEF Holds

Popped(g, h, k) ==
  /\ Len(h.sym) = Len(g.sym) - SymWidth[k]
  /\ \A j \in 1 .. Len(h.sym) : h.sym[j] = g.sym[j]
  /\ Len(h.saved) = Len(g.saved) - SavedWidth[k]
  /\ Len(h.tables) = Len(g.tables) - TableWidth[k]
\* A construct that pops what it pushed may be closed.
LEMMA NestedPop ==
  ASSUME NEW g, NEW h, NEW o, NEW X, NEW Y, Gen(g, X), Gen(h, Y), Grows(g, h),
         Nested(g, o), o # <<>>, Popped(g, h, Last(o))
  PROVE  Nested(h, Front(o))
<1>1. PICK b : Heights(o, SymWidth, b, Len(g.sym)) /\ Holds(g, o, b)
  BY DEF Nested
<1>2. PICK bs : Heights(o, SavedWidth, bs, Len(g.saved))
  BY DEF Nested, Deep
<1>3. PICK bt : Heights(o, TableWidth, bt, Len(g.tables))
  BY DEF Nested, Deep
<1>4. /\ o \in Seq(Kinds) /\ Len(g.sym) \in Nat /\ Len(g.saved) \in Nat /\ Len(g.tables) \in Nat
      /\ Len(h.sym) \in Nat /\ Len(o) \in Nat
  <2>1. o \in Seq(Kinds)
    BY DEF Nested
  <2>2. IsSeq(g.sym) /\ IsSeq(g.saved) /\ IsSeq(g.tables) /\ IsSeq(h.sym)
    BY DEF Gen, Rest
  <2> QED
    BY <2>1, <2>2, SeqIs
<1>5. Deep(Front(o), SavedWidth, Len(h.saved))
  <2>1. \E c : Heights(Front(o), SavedWidth, c, Len(g.saved) - SavedWidth[Last(o)])
    BY <1>2, <1>4, HeightsPop, WidthsAre
  <2> QED
    BY <2>1 DEF Popped, Deep
<1>6. Deep(Front(o), TableWidth, Len(h.tables))
  <2>1. \E c : Heights(Front(o), TableWidth, c, Len(g.tables) - TableWidth[Last(o)])
    BY <1>3, <1>4, HeightsPop, WidthsAre
  <2> QED
    BY <2>1 DEF Popped, Deep
<1>7. PICK c : Heights(Front(o), SymWidth, c, Len(h.sym)) /\ SameUpTo(b, c, Len(o) - 1)
  <2>1. \E c : /\ Heights(Front(o), SymWidth, c, Len(g.sym) - SymWidth[Last(o)])
               /\ SameUpTo(b, c, Len(o) - 1)
    BY <1>1, <1>4, HeightsPop, WidthsAre
  <2> QED
    BY <2>1 DEF Popped
<1>8. /\ DOMAIN g.recs \subseteq DOMAIN h.recs
      /\ \A r : Framed(g, r) => Framed(h, r)
      /\ \A r : Tabled(g, r) => Tabled(h, r)
  BY GrowsKeeps DEF Gen
<1>9. PICK p : p = Front(o)
  OBVIOUS
<1>10. Len(p) = Len(o) - 1 /\ p \in Seq(Kinds) /\ \A i \in 1 .. Len(p) : p[i] = o[i]
  <2>1. IsSeq(o)
    BY <1>4 DEF IsSeq, Range
  <2>2. IsSeq(p) /\ Len(p) = Len(o) - 1 /\ \A i \in DOMAIN p : i \in DOMAIN o /\ p[i] = o[i]
    BY <1>9, <2>1, FrontIs
  <2>3. DOMAIN p = 1 .. Len(p) /\ Len(p) \in Nat
    BY <2>2, SeqIs
  <2>4. \A i \in 1 .. Len(p) : p[i] \in Kinds
    BY <1>4, <2>2, <2>3
  <2>5. p \in Seq(Kinds)
    BY <2>2, <2>3, <2>4 DEF IsSeq
  <2> QED
    BY <2>2, <2>3, <2>5
<1>11. SymWidth[Last(o)] \in Nat
  BY <1>1, <1>4, HeightsPop, WidthsAre
<1>12. Holds(h, p, c)
  <2>1. \A j \in 1 .. Len(h.sym) : h.sym[j] \in DOMAIN h.recs
    <3>1. \A j \in 1 .. Len(h.sym) : j \in 1 .. Len(g.sym) /\ h.sym[j] = g.sym[j]
      BY <1>4, <1>11 DEF Popped
    <3> QED
      BY <1>1, <1>8, <3>1 DEF Holds
  <2>2. ASSUME NEW i \in 1 .. Len(p)
        PROVE  /\ p[i] \in Frames => Framed(h, h.sym[c[i]])
               /\ p[i] = "switch" => Tabled(h, h.sym[c[i] - 1])
    <3>1. i \in 1 .. Len(o) /\ i \in 0 .. (Len(o) - 1)
      BY <1>4, <1>10, <2>2
    <3>2. p[i] = o[i] /\ c[i] = b[i]
      BY <1>7, <1>10, <2>2, <3>1 DEF SameUpTo
    <3>3. /\ p[i] \in Frames => c[i] \in 1 .. Len(h.sym)
          /\ p[i] = "switch" => c[i] - 1 \in 1 .. Len(h.sym)
      BY <1>4, <1>7, <1>9, <1>10, <2>2, Positions
    <3>4. /\ o[i] \in Frames => Framed(g, g.sym[b[i]])
          /\ o[i] = "switch" => Tabled(g, g.sym[b[i] - 1])
      BY <1>1, <3>1, Zenon DEF Holds
    <3>5. \A j \in 1 .. Len(h.sym) : h.sym[j] = g.sym[j]
      BY DEF Popped
    <3>6. /\ p[i] \in Frames => Framed(g, h.sym[c[i]])
          /\ p[i] = "switch" => Tabled(g, h.sym[c[i] - 1])
      BY <3>2, <3>3, <3>4, <3>5
    <3> QED
      BY <1>8, <3>6, Zenon
  <2> QED
    BY <2>1, <2>2 DEF Holds
<1> QED
  BY <1>5, <1>6, <1>7, <1>9, <1>10, <1>12 DEF Nested

(***************************************************************************)
(* Steps that move the stacks.                                             *)
(***************************************************************************)
Move(g, h, X) == Gen(h, X) /\ Grows(g, h)

\* Two moves are a move.
LEMMA MoveTwice ==
  ASSUME NEW g, NEW h, NEW k, NEW X, NEW Y, NEW Z, Gen(g, X), Move(g, h, Y), Move(h, k, Z)
  PROVE  Move(g, k, Z)
  BY GrowsFurther DEF Gen, Move

\* A step is a move that leaves the stacks alone.
LEMMA StepIsMove ==
  ASSUME NEW g, NEW h, NEW X, Step(g, h, X)
  PROVE  /\ Move(g, h, X) /\ Gen(h, X)
         /\ h.sym = g.sym /\ h.saved = g.saved /\ h.tables = g.tables /\ h.tabs = g.tabs
  BY DEF Step, Keeps, Move, Stacks

\* A move may change everything but records and code, as long as the rest is in order.
LEMMA MoveSame ==
  ASSUME NEW g, NEW h, NEW X, Gen(g, X), IsGen(h), Rest(h), h.recs = g.recs, h.code = g.code,
         h.off = g.off
  PROVE  Move(g, h, X)
<1>1. Core(h, X)
  BY DEF Gen, Core
<1>2. Grows(g, h)
  BY SeqIs DEF Gen, Core, RecsOK, CodeOK, Grows, RecsGrow, CodeGrows
<1> QED
  BY <1>1, <1>2 DEF Move, Gen

\* The current function, its slots and the fields nothing depends on.
IdleFields == {"recs", "code", "off", "pool", "lastTab", "sym", "saved", "tables", "tabs"}
\* A step that sets the current function and its counters.
LEMMA IdleStep ==
  ASSUME NEW g, NEW h, NEW X, Gen(g, X), IsGen(h), h.cur \in 0 .. Len(g.recs), h.slots \in Nat,
         h.index \in Nat, \A x \in IdleFields : h[x] = g[x]
  PROVE  Step(g, h, X) /\ h.recs = g.recs /\ h.code = g.code /\ h.off = g.off
<1>1. /\ h.recs = g.recs /\ h.code = g.code /\ h.off = g.off /\ h.pool = g.pool
      /\ h.lastTab = g.lastTab /\ h.sym = g.sym /\ h.saved = g.saved /\ h.tables = g.tables
      /\ h.tabs = g.tabs
  BY DEF IdleFields
<1>2. Rest(h)
  BY <1>1 DEF Gen, Rest
<1>3. Move(g, h, X)
  BY <1>1, <1>2, MoveSame
<1> QED
  BY <1>1, <1>3 DEF Move, Step, Keeps, Stacks

\* Any sequence may become the stack of symbols.
LEMMA SymMove ==
  ASSUME NEW g, NEW h, NEW X, NEW t, Gen(g, X), IsSeq(t), h = [g EXCEPT !.sym = t]
  PROVE  /\ Move(g, h, X) /\ h.sym = t /\ h.recs = g.recs /\ h.saved = g.saved
         /\ h.tables = g.tables /\ h.index = g.index /\ h.cur = g.cur
<1>1. IsGen(h) /\ h.sym = t /\ \A x \in Fields \ {"sym"} : h[x] = g[x]
  BY DEF Gen, IsGen, Fields
<1>2. /\ h.recs = g.recs /\ h.code = g.code /\ h.off = g.off /\ h.pool = g.pool /\ h.cur = g.cur
      /\ h.slots = g.slots /\ h.index = g.index /\ h.lastTab = g.lastTab /\ h.saved = g.saved
      /\ h.tables = g.tables /\ h.tabs = g.tabs
  BY <1>1 DEF Fields
<1>3. Rest(h)
  BY <1>1, <1>2 DEF Gen, Rest
<1> QED
  BY <1>1, <1>2, <1>3, MoveSame

\* sp_pop_symrec is a move.
LEMMA PopSymMove ==
  ASSUME NEW g, NEW X, Gen(g, X)
  PROVE  /\ Move(g, PopSym(g), X) /\ PopSym(g).sym = Front(g.sym) /\ PopSym(g).recs = g.recs
         /\ PopSym(g).saved = g.saved /\ PopSym(g).tables = g.tables
<1>1. IsSeq(Front(g.sym))
  BY FrontIs DEF Gen, Rest
<1> QED
  BY <1>1, SymMove DEF PopSym

\* sp_push_symrec is a move.
LEMMA PushSymMove ==
  ASSUME NEW g, NEW X, NEW r, Gen(g, X)
  PROVE  /\ Move(g, PushSym(g, r), X) /\ PushSym(g, r).sym = Append(g.sym, r)
         /\ PushSym(g, r).recs = g.recs /\ PushSym(g, r).saved = g.saved
         /\ PushSym(g, r).tables = g.tables /\ PushSym(g, r).index = g.index
<1>1. IsSeq(Append(g.sym, r))
  BY AppendIs DEF Gen, Rest
<1>2. PICK t : t = Append(g.sym, r)
  OBVIOUS
<1>3. PICK h : h = PushSym(g, r)
  OBVIOUS
<1>4. h = [g EXCEPT !.sym = t]
  BY <1>2, <1>3 DEF PushSym
<1>5. /\ Move(g, h, X) /\ h.sym = t /\ h.recs = g.recs /\ h.saved = g.saved
      /\ h.tables = g.tables /\ h.index = g.index /\ h.cur = g.cur
  <2>1. IsSeq(t)
    BY <1>1, <1>2
  <2> QED
    BY <1>4, <2>1, SymMove
<1> QED
  BY <1>2, <1>3, <1>5

\* What a production did when it has moved from g to h and has symbols t on the stack.
Moved(g, h, t) ==
  Move(g, h, {}) /\ h.sym = t /\ h.saved = g.saved /\ h.tables = g.tables

\* A production goes on with a step.
LEMMA MovedStep ==
  ASSUME NEW g, NEW h, NEW k, NEW t, Gen(g, {}), Moved(g, h, t), Step(h, k, {})
  PROVE  Moved(g, k, t)
  BY MoveTwice, StepIsMove DEF Moved

\* A production goes on and pops a symbol.
LEMMA MovedPop ==
  ASSUME NEW g, NEW h, NEW t, Gen(g, {}), Moved(g, h, t)
  PROVE  Moved(g, PopSym(h), Front(t))
<1>1. Gen(h, {})
  BY DEF Moved, Move
<1> QED
  BY <1>1, MoveTwice, PopSymMove DEF Moved

\* A production goes on, places the label on top of the stack and pops it.
LEMMA MovedDefine ==
  ASSUME NEW g, NEW h, NEW t, Gen(g, {}), Moved(g, h, t)
  PROVE  Moved(g, DefineTop(h), Front(t))
<1>1. Gen(h, {})
  BY DEF Moved, Move
<1>2. PICK k : k = NewLabel(h, TopName(h))
  OBVIOUS
<1>3. Step(h, k, {})
  BY <1>1, <1>2, NewLabelStep
<1>4. Moved(g, k, t)
  BY <1>3, MovedStep
<1>5. DefineTop(h) = PopSym(k)
  BY <1>2 DEF DefineTop
<1> QED
  BY <1>4, <1>5, MovedPop

\* A production goes on and pushes a new label.
LEMMA MovedPush ==
  ASSUME NEW g, NEW h, NEW t, Gen(g, {}), Moved(g, h, t)
  PROVE  /\ Moved(g, PushLabel(h), Append(t, Len(h.recs) + 1))
         /\ Len(h.recs) + 1 \in DOMAIN PushLabel(h).recs
<1>1. Gen(h, {})
  BY DEF Moved, Move
<1>2. PICK k : k = CreateLabel(h)
  OBVIOUS
<1>3. Step(h, k, {}) /\ Len(h.recs) + 1 \in DOMAIN k.recs
  <2>1. Step(h, k, {}) /\ Adds(h, k, Record("label", <<"gen", h.index>>, Undef, h.cur, Table(h)))
    BY <1>1, <1>2, CreateLabelStep
  <2> QED
    BY <2>1 DEF Adds
<1>4. Moved(g, k, t) /\ Gen(k, {})
  BY <1>3, MovedStep DEF Step
<1>5. PICK d : d = PushSym(k, Len(h.recs) + 1)
  OBVIOUS
<1>6. Move(k, d, {}) /\ d.sym = Append(t, Len(h.recs) + 1) /\ d.recs = k.recs /\ d.saved = k.saved /\ d.tables = k.tables
  BY <1>4, <1>5, PushSymMove DEF Moved
<1>7. Moved(g, d, Append(t, Len(h.recs) + 1))
  BY <1>4, <1>6, MoveTwice DEF Moved
<1>8. PushLabel(h) = d
  BY <1>2, <1>5 DEF PushLabel, Newest
<1> QED
  BY <1>3, <1>6, <1>7, <1>8

\* The state of the compiler inside of the constructs o.
Sound(g, o) == Gen(g, {}) /\ Nested(g, o)

\* A step keeps the invariant.
LEMMA StepSound ==
  ASSUME NEW g, NEW h, NEW o, Sound(g, o), Step(g, h, {})
  PROVE  Sound(h, o)
  BY StepIsMove, NestedStays DEF Sound, Move

\* Doing nothing is a step.
LEMMA StepSelf ==
  ASSUME NEW g, NEW X, Gen(g, X)
  PROVE  Step(g, g, X)
<1>1. Grows(g, g)
  BY SeqIs DEF Gen, Core, RecsOK, CodeOK, Grows, RecsGrow, CodeGrows
<1> QED
  BY <1>1 DEF Step, Keeps

(***************************************************************************)
(* Statements that open and close nothing.                                 *)
(***************************************************************************)
\* A jump to any name keeps the invariant.
LEMMA JumpSound ==
  ASSUME NEW g, NEW o, NEW name, NEW src, Sound(g, o)
  PROVE  Sound(JumpTo(g, "JMP", name, src), o)
<1>1. "JMP" \in Jumps
  BY DEF Jumps, Branches
<1> QED
  BY <1>1, JumpToStep, StepSound DEF Sound

\* Making a variable and storing into it is a step.
LEMMA StoreNewStep ==
  ASSUME NEW g, NEW v, Gen(g, {})
  PROVE  Step(g, StoreNew(g, v), {})
<1>1. PICK h : h = CreateVariable(g, v)
  OBVIOUS
<1>2. Step(g, h, {}) /\ Gen(h, {})
  BY <1>1, CreateVariableStep DEF Step
<1>3. Step(h, EmitVar(h, "OBJPOP", v), {})
  BY <1>2, EmitVarStep
<1> QED
  BY <1>1, <1>2, <1>3, StepTwice DEF StoreNew

\* A call is a step.
LEMMA EmitCallStep ==
  ASSUME NEW g, NEW r, Gen(g, {}), r \in DOMAIN g.recs, g.recs[r].kind = "func"
  PROVE  Step(g, EmitCall(g, r), {})
<1>1. "CALL" \in Jumps /\ "OBJDEL" \notin Jumps /\ g.recs[r].kind # "table"
  BY DEF Jumps, Branches
<1>2. PICK h : h = EmitRef(g, "CALL", r, "call")
  OBVIOUS
<1>3. Step(g, h, {}) /\ Gen(h, {})
  BY <1>1, <1>2, EmitRefStep DEF Step
<1>4. Step(h, Emit(h, "OBJDEL", Nobody, 0, "call"), {})
  BY <1>1, <1>3, EmitStep
<1> QED
  BY <1>2, <1>3, <1>4, StepTwice DEF EmitCall

\* A function that is found is a function.
LEMMA SelectFunc ==
  ASSUME NEW g, NEW X, NEW name, Gen(g, X), Select(g, "func", name) # Nobody
  PROVE  Select(g, "func", name) \in DOMAIN g.recs /\ g.recs[Select(g, "func", name)].kind = "func"
  BY SelectIs DEF Gen, Matches

\* A function is made known without an address.
LEMMA AddedFunc ==
  ASSUME NEW g, NEW X, NEW name, NEW tab, NEW h, Gen(g, X),
         h = Insert(g, Record("func", name, Undef, Nobody, tab))
  PROVE  /\ Step(g, h, X) /\ Len(g.recs) + 1 \in DOMAIN h.recs
         /\ h.recs[Len(g.recs) + 1].kind = "func" /\ h.recs[Len(g.recs) + 1].off = Undef
<1>1. PICK e : e = Record("func", name, Undef, Nobody, tab)
  OBVIOUS
<1>2. Fresh(g, e) /\ e.kind = "func" /\ e.off = Undef
  BY <1>1, FreshIs, RecordIs
<1>3. Step(g, h, X) /\ Adds(g, h, e)
  BY <1>1, <1>2, InsertStep
<1> QED
  BY <1>2, <1>3 DEF Adds

\* A call keeps the invariant, also when it renames a declared function or makes a
\* record that enters no table.
LEMMA CallSound ==
  ASSUME NEW f \in Functions, Sound(gen, open), Call(f)
  PROVE  Sound(gen', open')
<1>1. PICK full, bare : /\ full = Select(gen, "func", Full(f)) /\ bare = Select(gen, "func", Bare(f))
  OBVIOUS
<1>2. /\ open' = open /\ Gen(gen, {})
      /\ gen' = CASE full # Nobody -> EmitCall(gen, full)
                  [] full = Nobody /\ bare # Nobody ->
                       EmitCall(Update(gen, bare, [gen.recs[bare] EXCEPT !.name = Full(f)]), bare)
                  [] OTHER -> EmitCall(Insert(gen, Record("func", Full(f), Undef, Nobody, 0)),
                                       Newest(gen) + 1)
  BY <1>1 DEF Call, Simple, Sound
<1>3. CASE full # Nobody
  <2>1. gen' = EmitCall(gen, full)
    BY <1>2, <1>3
  <2>2. full \in DOMAIN gen.recs /\ gen.recs[full].kind = "func"
    BY <1>1, <1>2, <1>3, SelectFunc
  <2> QED
    BY <1>2, <2>1, <2>2, EmitCallStep, StepSound
<1>4. CASE full = Nobody /\ bare # Nobody
  <2>1. PICK e : e = [gen.recs[bare] EXCEPT !.name = Full(f)]
    OBVIOUS
  <2>2. PICK h : h = Update(gen, bare, e)
    OBVIOUS
  <2>3. bare \in DOMAIN gen.recs /\ gen.recs[bare].kind = "func"
    BY <1>1, <1>2, <1>4, SelectFunc
  <2>4. /\ IsRec(gen.recs[bare]) /\ IsSeq(gen.recs) /\ gen.recs[bare].parent \in 0 .. Len(gen.recs)
        /\ IsGen(gen) /\ Core(gen, {})
    BY <1>2, <2>3 DEF Gen, Core, RecsOK
  <2>5. /\ IsRec(e) /\ e.kind = gen.recs[bare].kind /\ e.off = gen.recs[bare].off
        /\ e.list = gen.recs[bare].list /\ e.tab = gen.recs[bare].tab
        /\ e.parent = gen.recs[bare].parent
    BY <2>1, <2>4 DEF IsRec, RecFields
  <2>6. IsGen(h) /\ h.recs = [gen.recs EXCEPT ![bare] = e] /\ \A x \in Fields \ {"recs"} : h[x] = gen[x]
    BY <2>2, <2>4 DEF Update, IsGen, Fields
  <2>7. h.code = gen.code /\ h.off = gen.off
    BY <2>6 DEF Fields
  <2>8. Core(h, {}) /\ Grows(gen, h)
    BY <2>3, <2>4, <2>5, <2>6, <2>7, RecordChanged
  <2>9. Step(gen, h, {}) /\ Gen(h, {})
    BY <1>2, <2>6, <2>8, CoreStep DEF Step
  <2>10. Changed(gen.recs, h.recs, bare, e)
    BY <2>3, <2>4, <2>6, ExceptIs
  <2>11. bare \in DOMAIN h.recs /\ h.recs[bare].kind = "func"
    BY <2>3, <2>5, <2>10 DEF Changed
  <2>12. gen' = EmitCall(h, bare)
    BY <1>2, <1>4, <2>1, <2>2
  <2>13. Step(h, gen', {})
    BY <2>9, <2>11, <2>12, EmitCallStep
  <2>14. Step(gen, gen', {})
    BY <1>2, <2>9, <2>13, StepTwice
  <2> QED
    BY <1>2, <2>14, StepSound
<1>5. CASE full = Nobody /\ bare = Nobody
  <2>1. PICK h : h = Insert(gen, Record("func", Full(f), Undef, Nobody, 0))
    OBVIOUS
  <2>2. /\ Step(gen, h, {}) /\ Len(gen.recs) + 1 \in DOMAIN h.recs
        /\ h.recs[Len(gen.recs) + 1].kind = "func" /\ Gen(h, {})
    BY <1>2, <2>1, AddedFunc DEF Step
  <2>3. gen' = EmitCall(h, Len(gen.recs) + 1)
    BY <1>2, <1>5, <2>1 DEF Newest
  <2>4. Step(h, gen', {})
    BY <2>2, <2>3, EmitCallStep
  <2>5. Step(gen, gen', {})
    BY <1>2, <2>2, <2>4, StepTwice
  <2> QED
    BY <1>2, <2>5, StepSound
<1> QED
  BY <1>3, <1>4, <1>5

\* The use of a function as a value keeps the invariant.
LEMMA ReferenceSound ==
  ASSUME NEW f \in Functions, NEW v \in Variables, Sound(gen, open), Reference(f, v)
  PROVE  Sound(gen', open')
<1>1. PICK h : h = Ensure(gen, "func", Full(f))
  OBVIOUS
<1>2. Gen(gen, {}) /\ open' = open /\ gen' = StoreNew(LoadMethod(h, f), v)
  BY <1>1 DEF Reference, Simple, Sound
<1>3. Step(gen, h, {}) /\ Gen(h, {}) /\ Matches(h, "func", Full(f)) # {}
  BY <1>1, <1>2, EnsureStep DEF Step
<1>4. PICK r : r = Select(h, "func", Full(f))
  OBVIOUS
<1>5. r \in Matches(h, "func", Full(f))
  BY <1>3, <1>4, SelectIs DEF Gen
<1>6. r \in DOMAIN h.recs /\ h.recs[r].kind # "table" /\ "F2O" \in Jumps
  BY <1>5 DEF Matches, Jumps
<1>7. PICK k : k = EmitRef(h, "F2O", r, "ref")
  OBVIOUS
<1>8. Step(h, k, {}) /\ Gen(k, {})
  BY <1>3, <1>6, <1>7, EmitRefStep DEF Step
<1>9. gen' = StoreNew(k, v)
  BY <1>2, <1>4, <1>7 DEF LoadMethod
<1>10. Step(k, gen', {})
  BY <1>8, <1>9, StoreNewStep
<1>11. Step(gen, k, {})
  BY <1>2, <1>3, <1>8, StepTwice
<1>12. Step(gen, gen', {})
  BY <1>2, <1>10, <1>11, StepTwice
<1> QED
  BY <1>2, <1>12, StepSound

\* The declaration of a variable keeps the invariant.
LEMMA VarSound ==
  ASSUME NEW v \in Variables, Sound(gen, open), Var(v)
  PROVE  Sound(gen', open')
<1>1. PICK h : h = LoadConstant(gen, Value)
  OBVIOUS
<1>2. Gen(gen, {}) /\ open' = open /\ gen' = StoreNew(h, v)
  BY <1>1 DEF Var, Simple, Sound
<1>3. Step(gen, h, {}) /\ Gen(h, {})
  BY <1>1, <1>2, LoadConstantStep DEF Step
<1>4. Step(h, gen', {})
  BY <1>2, <1>3, StoreNewStep
<1>5. Step(gen, gen', {})
  BY <1>2, <1>3, <1>4, StepTwice
<1> QED
  BY <1>2, <1>5, StepSound

\* return with a value keeps the invariant.
LEMMA ReturnValueSound ==
  ASSUME Sound(gen, open), ReturnValue
  PROVE  Sound(gen', open')
<1>1. PICK h : h = LoadConstant(gen, Value)
  OBVIOUS
<1>2. PICK k : k = JumpTo(h, "JMP", gen.recs[gen.exit].name, "return")
  OBVIOUS
<1>3. Gen(gen, {}) /\ open' = open /\ gen' = EmitVar(k, "OBJPOP", gen.recs[gen.cur].name)
  BY <1>1, <1>2 DEF ReturnValue, Simple, Sound
<1>4. Step(gen, h, {})
  BY <1>1, <1>3, LoadConstantStep
<1>5. Sound(h, open)
  BY <1>4, StepSound
<1>6. Sound(k, open)
  BY <1>2, <1>5, JumpSound
<1>7. Step(k, gen', {})
  BY <1>3, <1>6, EmitVarStep DEF Sound
<1> QED
  BY <1>3, <1>6, <1>7, StepSound

\* The statements that are one jump or one label keep the invariant.
LEMMA JumpsSound ==
  ASSUME Sound(gen, open), Return \/ Break \/ Continue \/ \E l \in UserLabels : Goto(l) \/ Label(l)
  PROVE  Sound(gen', open')
<1>1. CASE Return
  BY <1>1, JumpSound DEF Return, Simple
<1>2. CASE Break
  BY <1>2, JumpSound DEF Break, Simple
<1>3. CASE Continue
  BY <1>3, JumpSound DEF Continue, Simple
<1>4. ASSUME NEW l \in UserLabels, Goto(l)
      PROVE  Sound(gen', open')
  BY <1>4, JumpSound DEF Goto, Simple
<1>5. ASSUME NEW l \in UserLabels, Label(l)
      PROVE  Sound(gen', open')
  BY <1>5, NewLabelStep, StepSound DEF Label, Simple, Sound
<1> QED
  BY <1>1, <1>2, <1>3, <1>4, <1>5

\* Records leave the table in a step.
LEMMA ClearStep ==
  ASSUME NEW g, NEW gone, Gen(g, {}), gone \subseteq DOMAIN g.recs
  PROVE  Step(g, Clear(g, gone), {}) /\ Len(Clear(g, gone).recs) = Len(g.recs)
<1>1. PICK h : h = Clear(g, gone)
  OBVIOUS
<1>2. /\ Core(h, {}) /\ Grows(g, h) /\ IsGen(h) /\ Len(h.recs) = Len(g.recs)
      /\ \A x \in Fields \ {"recs", "errors"} : h[x] = g[x]
  BY <1>1, Cleared DEF Gen
<1> QED
  BY <1>1, <1>2, CoreStep

\* The end of the script, and the ways to give up, keep the invariant.
LEMMA FinishSound ==
  ASSUME NEW g, NEW o, Sound(g, o)
  PROVE  Sound([Clear(g, Globals(g)) EXCEPT !.done = TRUE], o)
<1>1. PICK h : h = Clear(g, Globals(g))
  OBVIOUS
<1>2. Globals(g) \subseteq DOMAIN g.recs
  BY DEF Globals
<1>3. Step(g, h, {}) /\ Gen(h, {}) /\ Gen(g, {})
  BY <1>1, <1>2, ClearStep DEF Sound, Step
<1>4. PICK k : k = [h EXCEPT !.done = TRUE]
  OBVIOUS
<1>5. IsGen(k) /\ \A x \in Fields \ {"done"} : k[x] = h[x]
  BY <1>3, <1>4 DEF Gen, IsGen, Fields
<1>6. /\ k.cur = h.cur /\ k.slots = h.slots /\ k.index = h.index /\ \A x \in IdleFields : k[x] = h[x]
  BY <1>5 DEF Fields, IdleFields
<1>7. h.cur \in 0 .. Len(h.recs) /\ h.slots \in Nat /\ h.index \in Nat
  BY <1>3 DEF Gen, Rest
<1>8. Step(h, k, {})
  BY <1>3, <1>5, <1>6, <1>7, IdleStep
<1>9. Step(g, k, {})
  BY <1>3, <1>8, StepTwice
<1> QED
  BY <1>1, <1>4, <1>9, StepSound

\* Giving up after a report keeps the invariant.
LEMMA AbortSound ==
  ASSUME NEW r, Sound(gen, open), Abort(Error(gen, "MULTI_FUNCTION", r))
  PROVE  Sound(gen', open')
<1>1. PICK h : h = Error(gen, "MULTI_FUNCTION", r)
  OBVIOUS
<1>2. Sound(h, open)
  BY <1>1, ErrorStep, StepSound DEF Sound
<1>3. gen' = [Clear(h, Globals(h)) EXCEPT !.done = TRUE] /\ open' = open
  BY <1>1 DEF Abort
<1> QED
  BY <1>2, <1>3, FinishSound

\* A declaration keeps the invariant.
LEMMA DeclareSound ==
  ASSUME NEW f \in Functions, Sound(gen, open), Declare(f)
  PROVE  Sound(gen', open')
<1>1. CASE Abort(Error(gen, "MULTI_FUNCTION", Select(gen, "func", Full(f))))
  BY <1>1, AbortSound
<1>2. CASE /\ gen' = IF Select(gen, "func", Bare(f)) # Nobody THEN gen
                     ELSE Insert(gen, Record("func", Bare(f), Undef, Nobody, Table(gen)))
           /\ Simple
  <2>1. Gen(gen, {}) /\ open' = open
    BY <1>2 DEF Sound, Simple
  <2>2. CASE gen' = gen
    BY <2>1, <2>2
  <2>3. CASE gen' = Insert(gen, Record("func", Bare(f), Undef, Nobody, Table(gen)))
    <3>1. Step(gen, gen', {})
      BY <2>1, <2>3, AddedFunc
    <3> QED
      BY <2>1, <3>1, StepSound
  <2> QED
    BY <1>2, <2>2, <2>3
<1> QED
  BY <1>1, <1>2 DEF Declare

(***************************************************************************)
(* Statements that open and close constructs.                              *)
(***************************************************************************)
\* What was appended is taken off again.
LEMMA FrontAppend ==
  ASSUME NEW s, NEW e, IsSeq(s)
  PROVE  Front(Append(s, e)) = s /\ Append(s, e) # <<>>
<1>1. PICK t : t = Append(s, e)
  OBVIOUS
<1>2. /\ IsSeq(t) /\ Len(s) \in Nat /\ DOMAIN s = 1 .. Len(s) /\ Len(t) = Len(s) + 1
      /\ \A i \in 1 .. Len(s) : t[i] = s[i]
  BY <1>1, AppendIs
<1>3. t # <<>>
  BY <1>2
<1>4. IsSeq(Front(t)) /\ Len(Front(t)) = Len(s) /\ \A i \in DOMAIN Front(t) : Front(t)[i] = t[i]
  BY <1>2, <1>3, FrontIs
<1>5. PICK u : u = Front(t)
  OBVIOUS
<1>6. u \in Seq(Range(u)) /\ s \in Seq(Range(s)) /\ DOMAIN u = 1 .. Len(s) /\ Len(u) = Len(s)
  BY <1>2, <1>4, <1>5, SeqIs DEF IsSeq
<1>7. \A i \in 1 .. Len(s) : u[i] = s[i]
  BY <1>2, <1>4, <1>5, <1>6
<1>8. u = s
  BY <1>2, <1>6, <1>7
<1> QED
  BY <1>1, <1>3, <1>5, <1>8

\* A construct that keeps one label, or the record of a function, on the stack.
LEMMA OpenOne ==
  ASSUME NEW g, NEW h, NEW o, NEW r, NEW k \in {"while", "if", "else", "function"}, Sound(g, o),
         Moved(g, h, Append(g.sym, r)), r \in DOMAIN h.recs, k = "function" => Framed(h, r)
  PROVE  Sound(h, Append(o, k))
<1>1. /\ Gen(g, {}) /\ Nested(g, o) /\ Gen(h, {}) /\ Grows(g, h) /\ h.sym = Append(g.sym, r)
      /\ h.saved = g.saved /\ h.tables = g.tables
  BY DEF Sound, Moved, Move
<1>2. IsSeq(g.sym) /\ Len(g.saved) \in Nat /\ Len(g.tables) \in Nat
  BY <1>1, SeqIs DEF Gen, Rest
<1>3. /\ Len(g.sym) \in Nat /\ Len(h.sym) = Len(g.sym) + 1
      /\ \A j \in 1 .. Len(g.sym) : h.sym[j] = g.sym[j]
      /\ h.sym[Len(g.sym) + 1] = r
  BY <1>1, <1>2, AppendIs
<1>4. /\ k \in Kinds /\ SymWidth[k] = 1 /\ SavedWidth[k] = 0 /\ TableWidth[k] = 0
      /\ k \in Frames => k = "function"
      /\ k # "switch"
  BY DEF Kinds, SymWidth, SavedWidth, TableWidth, Frames
<1>5. Pushed(g, h, k)
  BY <1>1, <1>2, <1>3, <1>4 DEF Pushed
<1> QED
  BY <1>1, <1>4, <1>5, NestedPush DEF Sound

\* Such a construct is closed when its entry is popped.
LEMMA CloseOne ==
  ASSUME NEW g, NEW h, NEW o, Sound(g, o), o # <<>>,
         Last(o) \in {"while", "if", "else", "function"}, Moved(g, h, Front(g.sym))
  PROVE  Sound(h, Front(o))
<1>1. /\ Gen(g, {}) /\ Nested(g, o) /\ Gen(h, {}) /\ Grows(g, h) /\ h.sym = Front(g.sym)
      /\ h.saved = g.saved /\ h.tables = g.tables
  BY DEF Sound, Moved, Move
<1>2. IsSeq(g.sym) /\ Len(g.saved) \in Nat /\ Len(g.tables) \in Nat /\ Len(g.sym) \in Nat
  BY <1>1, SeqIs DEF Gen, Rest
<1>3. Last(o) \in Kinds /\ SymWidth[Last(o)] = 1 /\ SavedWidth[Last(o)] = 0 /\ TableWidth[Last(o)] = 0
  BY DEF Kinds, SymWidth, SavedWidth, TableWidth, Frames
<1>4. 1 <= Len(g.sym)
  <2>1. SymWidth[Last(o)] <= Len(g.sym)
    BY <1>1, NestedTop
  <2> QED
    BY <1>3, <2>1
<1>5. /\ IsSeq(h.sym) /\ Len(h.sym) = Len(g.sym) - 1
      /\ \A i \in DOMAIN h.sym : h.sym[i] = g.sym[i]
  <2>1. g.sym # <<>>
    BY <1>4
  <2> QED
    BY <1>1, <1>2, <2>1, FrontIs
<1>6. DOMAIN h.sym = 1 .. Len(h.sym)
  BY <1>5, SeqIs
<1>7. Popped(g, h, Last(o))
  BY <1>1, <1>2, <1>3, <1>5, <1>6 DEF Popped
<1> QED
  BY <1>1, <1>7, NestedPop DEF Sound

\* A production begins.
LEMMA MovedSelf ==
  ASSUME NEW g, Gen(g, {})
  PROVE  Moved(g, g, g.sym)
  BY StepSelf, StepIsMove DEF Moved

\* A condition places the label on top of the stack and pops it.
LEMMA ConditionMoved ==
  ASSUME NEW g, NEW h, NEW t, NEW src, Gen(g, {}), Moved(g, h, t)
  PROVE  Moved(g, Condition(h, src), Front(t))
<1>1. Gen(h, {}) /\ "JFALSE" \in Jumps
  BY DEF Moved, Move, Jumps, Branches
<1>2. PICK k : k = LoadConstant(h, Value)
  OBVIOUS
<1>3. Step(h, k, {}) /\ Gen(k, {})
  BY <1>1, <1>2, LoadConstantStep DEF Step
<1>4. Moved(g, k, t)
  BY <1>3, MovedStep
<1>5. PICK m : m = JumpTo(k, "JFALSE", UnderName(h), src)
  OBVIOUS
<1>6. Step(k, m, {})
  BY <1>1, <1>3, <1>5, JumpToStep
<1>7. Moved(g, m, t)
  BY <1>4, <1>6, MovedStep
<1>8. Condition(h, src) = DefineTop(m)
  BY <1>2, <1>5 DEF Condition
<1> QED
  BY <1>7, <1>8, MovedDefine

\* Two labels are pushed.
LEMMA TwoLabels ==
  ASSUME NEW g, Gen(g, {})
  PROVE  \E q : /\ Moved(g, PushLabel(PushLabel(g)), Append(Append(g.sym, Len(g.recs) + 1), q))
                /\ Len(g.recs) + 1 \in DOMAIN PushLabel(PushLabel(g)).recs
                /\ q \in DOMAIN PushLabel(PushLabel(g)).recs
<1>1. PICK h : h = PushLabel(g)
  OBVIOUS
<1>2. Moved(g, h, Append(g.sym, Len(g.recs) + 1)) /\ Len(g.recs) + 1 \in DOMAIN h.recs
  BY <1>1, MovedSelf, MovedPush
<1>3. Gen(h, {})
  BY <1>2 DEF Moved, Move
<1>4. PICK k : k = PushLabel(h)
  OBVIOUS
<1>5. /\ Moved(g, k, Append(Append(g.sym, Len(g.recs) + 1), Len(h.recs) + 1))
      /\ Len(h.recs) + 1 \in DOMAIN k.recs
  BY <1>2, <1>4, MovedPush
<1>6. Moved(h, k, Append(h.sym, Len(h.recs) + 1))
  BY <1>3, <1>4, MovedSelf, MovedPush
<1>7. DOMAIN h.recs \subseteq DOMAIN k.recs
  BY <1>3, <1>6, GrowsKeeps DEF Moved, Move, Gen
<1> QED
  BY <1>1, <1>2, <1>4, <1>5, <1>7

\* if keeps the invariant: of its two labels one stays on the stack.
LEMMA IfSound ==
  ASSUME Sound(gen, open), If
  PROVE  Sound(gen', open')
<1>1. PICK h : h = PushLabel(PushLabel(gen))
  OBVIOUS
<1>2. Gen(gen, {}) /\ open' = Append(open, "if") /\ gen' = Condition(h, "if")
  BY <1>1 DEF If, Opens, Sound
<1>3. PICK q : Moved(gen, h, Append(Append(gen.sym, Len(gen.recs) + 1), q)) /\ Len(gen.recs) + 1 \in DOMAIN h.recs
  BY <1>1, <1>2, TwoLabels
<1>4. Moved(gen, gen', Front(Append(Append(gen.sym, Len(gen.recs) + 1), q)))
  BY <1>2, <1>3, ConditionMoved
<1>5. IsSeq(Append(gen.sym, Len(gen.recs) + 1)) /\ IsSeq(gen.sym)
  BY <1>2, AppendIs DEF Gen, Rest
<1>6. Moved(gen, gen', Append(gen.sym, Len(gen.recs) + 1))
  BY <1>4, <1>5, FrontAppend
<1>7. Len(gen.recs) + 1 \in DOMAIN (gen').recs
  <2>1. Gen(h, {})
    BY <1>3 DEF Moved, Move
  <2>2. Moved(h, gen', Front(h.sym))
    BY <1>2, <2>1, MovedSelf, ConditionMoved
  <2> QED
    BY <1>3, <2>1, <2>2, GrowsKeeps DEF Moved, Move, Gen
<1> QED
  BY <1>2, <1>6, <1>7, OpenOne

\* A step that changes no more than what nothing else depends on.
QuietFields == {"exit", "skip", "loops", "tries", "blocks", "errors", "done"}
\* Such a change is a step.
LEMMA QuietStep ==
  ASSUME NEW g, NEW h, NEW X, Gen(g, X), IsGen(h), \A x \in Fields \ QuietFields : h[x] = g[x]
  PROVE  Step(g, h, X) /\ h.recs = g.recs /\ h.code = g.code /\ h.off = g.off
<1>1. /\ h.cur = g.cur /\ h.slots = g.slots /\ h.index = g.index /\ \A x \in IdleFields : h[x] = g[x]
  BY DEF Fields, QuietFields, IdleFields
<1>2. g.cur \in 0 .. Len(g.recs) /\ g.slots \in Nat /\ g.index \in Nat
  BY DEF Gen, Rest
<1> QED
  BY <1>1, <1>2, IdleStep

\* sp_start_loop places the label the loop comes back to.
LEMMA StartLoopStep ==
  ASSUME NEW g, Gen(g, {})
  PROVE  Step(g, StartLoop(g), {})
<1>1. PICK h : h = CreateLabel(g)
  OBVIOUS
<1>2. Step(g, h, {}) /\ Gen(h, {})
  BY <1>1, CreateLabelStep DEF Step
<1>3. PICK k : k = NewLabel(h, <<"gen", g.index>>)
  OBVIOUS
<1>4. Step(h, k, {}) /\ Gen(k, {})
  BY <1>2, <1>3, NewLabelStep DEF Step
<1>5. Step(g, k, {})
  BY <1>2, <1>4, StepTwice
<1>6. PICK m : m = [k EXCEPT !.loops = Append(@, Newest(g) + 1)]
  OBVIOUS
<1>7. IsGen(m) /\ \A x \in Fields \ {"loops"} : m[x] = k[x]
  BY <1>4, <1>6 DEF Gen, IsGen, Fields
<1>8. Step(k, m, {})
  BY <1>4, <1>7, QuietStep DEF QuietFields
<1>9. StartLoop(g) = m
  BY <1>1, <1>3, <1>6 DEF StartLoop
<1> QED
  BY <1>5, <1>8, <1>9, StepTwice

\* while keeps the invariant.
LEMMA WhileSound ==
  ASSUME Sound(gen, open), While
  PROVE  Sound(gen', open')
<1>1. PICK h : h = PushLabel(PushLabel(gen))
  OBVIOUS
<1>2. PICK k : k = StartLoop(h)
  OBVIOUS
<1>3. Gen(gen, {}) /\ open' = Append(open, "while") /\ gen' = Condition(k, "while")
  BY <1>1, <1>2 DEF While, Opens, Sound
<1>4. PICK q : Moved(gen, h, Append(Append(gen.sym, Len(gen.recs) + 1), q)) /\ Len(gen.recs) + 1 \in DOMAIN h.recs
  BY <1>1, <1>3, TwoLabels
<1>5. Gen(h, {})
  BY <1>4 DEF Moved, Move
<1>6. Step(h, k, {})
  BY <1>2, <1>5, StartLoopStep
<1>7. Moved(gen, k, Append(Append(gen.sym, Len(gen.recs) + 1), q)) /\ Gen(k, {})
  BY <1>3, <1>4, <1>6, MovedStep DEF Step
<1>8. Moved(gen, gen', Front(Append(Append(gen.sym, Len(gen.recs) + 1), q)))
  BY <1>3, <1>7, ConditionMoved
<1>9. IsSeq(Append(gen.sym, Len(gen.recs) + 1)) /\ IsSeq(gen.sym)
  BY <1>3, AppendIs DEF Gen, Rest
<1>10. Moved(gen, gen', Append(gen.sym, Len(gen.recs) + 1))
  BY <1>8, <1>9, FrontAppend
<1>11. Len(gen.recs) + 1 \in DOMAIN (gen').recs
  <2>1. Moved(h, h, h.sym)
    BY <1>5, MovedSelf
  <2>2. Moved(h, k, h.sym)
    BY <1>5, <1>6, <2>1, MovedStep
  <2>3. Moved(h, gen', Front(h.sym))
    BY <1>3, <1>5, <2>2, ConditionMoved
  <2> QED
    BY <1>4, <1>5, <2>3, GrowsKeeps DEF Moved, Move, Gen
<1> QED
  BY <1>3, <1>10, <1>11, OpenOne

\* The innermost loop is forgotten.
LEMMA LoopsStep ==
  ASSUME NEW g, NEW h, Gen(g, {}), h = [g EXCEPT !.loops = Front(@)]
  PROVE  Step(g, h, {})
<1>1. IsGen(h) /\ \A x \in Fields \ {"loops"} : h[x] = g[x]
  BY DEF Gen, IsGen, Fields
<1> QED
  BY <1>1, QuietStep DEF QuietFields

\* The end of a loop places the label behind it.
LEMMA WhileEndSound ==
  ASSUME Sound(gen, open), WhileEnd
  PROVE  Sound(gen', open')
<1>1. PICK h : h = JumpTo(gen, "JMP", gen.recs[Last(gen.loops)].name, "while")
  OBVIOUS
<1>2. PICK k : k = [h EXCEPT !.loops = Front(@)]
  OBVIOUS
<1>3. /\ Gen(gen, {}) /\ open # <<>> /\ Last(open) = "while" /\ open' = Front(open)
      /\ gen' = DefineTop(k)
  BY <1>1, <1>2 DEF WhileEnd, Inside, InBody, Closes, EndLoop, Sound
<1>4. Step(gen, h, {}) /\ Gen(h, {})
  <2>1. "JMP" \in Jumps
    BY DEF Jumps, Branches
  <2> QED
    BY <1>1, <1>3, <2>1, JumpToStep DEF Step
<1>5. Step(h, k, {})
  BY <1>2, <1>4, LoopsStep
<1>6. Step(gen, k, {})
  BY <1>3, <1>4, <1>5, StepTwice
<1>7. Moved(gen, k, gen.sym)
  BY <1>3, <1>6, MovedSelf, MovedStep
<1>8. Moved(gen, gen', Front(gen.sym))
  BY <1>3, <1>7, MovedDefine
<1> QED
  BY <1>3, <1>8, CloseOne

\* The end of a condition places the label behind it.
LEMMA IfEndSound ==
  ASSUME Sound(gen, open), IfEnd
  PROVE  Sound(gen', open')
<1>1. /\ Gen(gen, {}) /\ open # <<>> /\ Last(open) \in {"if", "else"} /\ open' = Front(open)
      /\ gen' = DefineTop(gen)
  BY DEF IfEnd, InBody, Closes, Sound
<1>2. Moved(gen, gen', Front(gen.sym))
  BY <1>1, MovedSelf, MovedDefine
<1> QED
  BY <1>1, <1>2, CloseOne

\* else pops the label of the skipped branch and pushes the one behind both.
LEMMA ElseSound ==
  ASSUME Sound(gen, open), Else
  PROVE  Sound(gen', open')
<1>1. PICK p : p = PopSym(gen)
  OBVIOUS
<1>2. PICK h : h = PushLabel(p)
  OBVIOUS
<1>3. PICK k : k = JumpTo(h, "JMP", TopName(h), "if")
  OBVIOUS
<1>4. /\ Gen(gen, {}) /\ open # <<>> /\ Last(open) = "if" /\ open' = Append(Front(open), "else")
      /\ gen' = NewLabel(k, TopName(gen))
  BY <1>1, <1>2, <1>3 DEF Else, Inside, InBody, Sound, ElseJump
<1>5. Moved(gen, p, Front(gen.sym))
  BY <1>1, <1>4, MovedSelf, MovedPop
<1>6. Sound(p, Front(open)) /\ Gen(p, {})
  BY <1>4, <1>5, CloseOne DEF Sound
<1>7. Moved(p, h, Append(p.sym, Len(p.recs) + 1)) /\ Len(p.recs) + 1 \in DOMAIN h.recs
  BY <1>2, <1>6, MovedSelf, MovedPush
<1>8. Sound(h, Append(Front(open), "else")) /\ Gen(h, {})
  BY <1>6, <1>7, OpenOne DEF Sound
<1>9. Sound(k, Append(Front(open), "else")) /\ Gen(k, {})
  BY <1>3, <1>8, JumpSound DEF Sound
<1> QED
  BY <1>4, <1>9, NewLabelStep, StepSound

\* The end of the script keeps the invariant.
LEMMA ParsedSound ==
  ASSUME Sound(gen, open), Parsed
  PROVE  Sound(gen', open')
  BY FinishSound DEF Parsed

\* try keeps the invariant: it pushes no symbol.
LEMMA TrySound ==
  ASSUME Sound(gen, open), Try
  PROVE  Sound(gen', open')
<1>1. /\ Gen(gen, {}) /\ Nested(gen, open) /\ open' = Append(open, "try")
      /\ gen' = [gen EXCEPT !.tries = Append(@, [start |-> gen.off, cblock |-> 0])]
  BY DEF Try, Opens, Sound
<1>2. IsGen(gen') /\ \A x \in Fields \ {"tries"} : (gen')[x] = gen[x]
  BY <1>1 DEF Gen, IsGen, Fields
<1>3. Step(gen, gen', {}) /\ (gen').recs = gen.recs
  BY <1>1, <1>2, QuietStep DEF QuietFields
<1>4. /\ Gen(gen', {}) /\ Grows(gen, gen') /\ (gen').sym = gen.sym /\ (gen').saved = gen.saved
      /\ (gen').tables = gen.tables
  BY <1>3, StepIsMove DEF Move
<1>5. /\ "try" \in Kinds /\ SymWidth["try"] = 0 /\ SavedWidth["try"] = 0 /\ TableWidth["try"] = 0
      /\ "try" \notin Frames
  BY DEF Kinds, SymWidth, SavedWidth, TableWidth, Frames
<1>6. Len(gen.sym) \in Nat /\ Len(gen.saved) \in Nat /\ Len(gen.tables) \in Nat
  BY <1>1, SeqIs DEF Gen, Rest
<1>7. Pushed(gen, gen', "try")
  BY <1>4, <1>5, <1>6 DEF Pushed
<1> QED
  BY <1>1, <1>4, <1>5, <1>7, NestedPush DEF Sound

\* The parser leaves the block of a try: nothing is on the stacks for it.
LEMMA LeaveTry ==
  ASSUME NEW g, NEW o, Sound(g, o), o # <<>>, Last(o) = "try"
  PROVE  Sound(g, Front(o))
<1>1. Gen(g, {}) /\ Nested(g, o) /\ Grows(g, g)
  BY StepSelf DEF Sound, Step, Keeps
<1>2. Len(g.sym) \in Nat /\ Len(g.saved) \in Nat /\ Len(g.tables) \in Nat
  BY <1>1, SeqIs DEF Gen, Rest
<1>3. Popped(g, g, Last(o))
  BY <1>2 DEF Popped, Kinds, SymWidth, SavedWidth, TableWidth
<1> QED
  BY <1>1, <1>3, NestedPop DEF Sound

\* The label of the handler: nothing refers to it, and no later label has its name.
Handler(s, cr) ==
  /\ Gen(s, {cr}) /\ cr \in DOMAIN s.recs
  /\ s.recs[cr].kind = "label" /\ s.recs[cr].off = Undef /\ s.recs[cr].list = {}
  /\ \E i \in Nat : s.recs[cr].name = <<"gen", i>> /\ i < s.index
\* A handler has two labels on the stack: the one behind it and its own.
LEMMA StartCatchIs ==
  ASSUME NEW g, Gen(g, {})
  PROVE  \E p, cr : /\ Moved(g, StartCatch(g), Append(Append(g.sym, p), cr))
                    /\ p \in DOMAIN StartCatch(g).recs
                    /\ Handler(StartCatch(g), cr)
<1>1. PICK h : h = PushLabel(g)
  OBVIOUS
<1>2. PICK p : p = Len(g.recs) + 1
  OBVIOUS
<1>3. Moved(g, h, Append(g.sym, p)) /\ p \in DOMAIN h.recs /\ Gen(h, {})
  BY <1>1, <1>2, MovedSelf, MovedPush DEF Moved, Move
<1>4. PICK j : j = JumpTo(h, "JMP", <<"gen", g.index>>, "try")
  OBVIOUS
<1>5. Step(h, j, {}) /\ Gen(j, {})
  <2>1. "JMP" \in Jumps
    BY DEF Jumps, Branches
  <2> QED
    BY <1>3, <1>4, <2>1, JumpToStep DEF Step
<1>6. Moved(g, j, Append(g.sym, p)) /\ p \in DOMAIN j.recs
  BY <1>3, <1>5, MovedStep, GrowsKeeps DEF Step, Keeps, Gen
<1>7. PICK cr : cr = Len(j.recs) + 1
  OBVIOUS
<1>8. PICK e : e = Record("label", <<"gen", j.index>>, Undef, j.cur, Table(j))
  OBVIOUS
<1>9. PICK c : c = CreateLabel(j)
  OBVIOUS
<1>10. /\ Step(j, c, {}) /\ Step(j, c, {} \cup {cr}) /\ Adds(j, c, e) /\ c.index = j.index + 1
  BY <1>5, <1>7, <1>8, <1>9, CreateLabelStep
<1>11. /\ c.recs[cr] = e /\ cr \in DOMAIN c.recs /\ p \in DOMAIN c.recs /\ Gen(c, {cr}) /\ Gen(c, {})
       /\ j.index \in Nat
  <2>1. {} \cup {cr} = {cr}
    OBVIOUS
  <2>2. Gen(c, {cr}) /\ Gen(c, {})
    BY <1>10, <2>1, Zenon DEF Step
  <2>3. c.recs[cr] = e /\ cr \in DOMAIN c.recs /\ p \in DOMAIN c.recs
    BY <1>6, <1>7, <1>10 DEF Adds
  <2> QED
    BY <1>5, <2>2, <2>3 DEF Gen, Rest
<1>12. Moved(g, c, Append(g.sym, p))
  BY <1>6, <1>10, MovedStep
<1>13. PICK k : k = PushSym(c, cr)
  OBVIOUS
<1>14. /\ Move(c, k, {}) /\ Move(c, k, {cr}) /\ k.sym = Append(c.sym, cr) /\ k.recs = c.recs
       /\ k.saved = c.saved /\ k.tables = c.tables /\ k.index = c.index
  BY <1>11, <1>13, PushSymMove
<1>15. Moved(g, k, Append(Append(g.sym, p), cr))
  BY <1>12, <1>14, MoveTwice DEF Moved
<1>16. k = PushLabel(j)
  BY <1>7, <1>9, <1>13 DEF PushLabel, Newest
<1>17. PICK s : s = [k EXCEPT !.tries[Len(g.tries)].cblock = j.off]
  OBVIOUS
<1>18. IsGen(s) /\ \A x \in Fields \ {"tries"} : s[x] = k[x]
  BY <1>14, <1>17 DEF Move, Gen, IsGen, Fields
<1>19. Step(k, s, {}) /\ Step(k, s, {cr}) /\ s.recs = k.recs
  BY <1>14, <1>18, QuietStep DEF QuietFields, Move
<1>20. s.index = k.index
  BY <1>18 DEF Fields
<1>21. Moved(g, s, Append(Append(g.sym, p), cr))
  BY <1>15, <1>19, MovedStep
<1>22. Handler(s, cr)
  <2>1. /\ e.kind = "label" /\ e.off = Undef /\ e.list = {} /\ e.name = <<"gen", j.index>>
    BY <1>8, RecordIs
  <2>2. s.recs[cr] = e /\ cr \in DOMAIN s.recs /\ s.index = j.index + 1 /\ Gen(s, {cr})
    BY <1>10, <1>11, <1>14, <1>19, <1>20 DEF Step
  <2>3. j.index \in Nat /\ j.index < s.index
    BY <1>11, <2>2
  <2> QED
    BY <2>1, <2>2, <2>3 DEF Handler
<1>23. StartCatch(g) = s
  BY <1>1, <1>4, <1>16, <1>17 DEF StartCatch
<1> QED
  BY <1>11, <1>14, <1>19, <1>21, <1>22, <1>23

\* catch without an argument keeps the invariant.
LEMMA CatchSound ==
  ASSUME Sound(gen, open), Catch
  PROVE  Sound(gen', open')
<1>1. /\ Gen(gen, {}) /\ open # <<>> /\ Last(open) = "try" /\ open' = Append(Front(open), "catch")
      /\ gen' = StartCatch(gen)
  BY DEF Catch, Inside, InBody, Sound
<1>2. Nested(gen, Front(open))
  BY <1>1, LeaveTry DEF Sound
<1>3. PICK p, cr : /\ Moved(gen, gen', Append(Append(gen.sym, p), cr))
                   /\ p \in DOMAIN (gen').recs /\ Handler(gen', cr)
  BY <1>1, StartCatchIs
<1>4. PICK h : h = gen'
  OBVIOUS
<1>5. /\ Gen(h, {}) /\ Grows(gen, h) /\ h.sym = Append(Append(gen.sym, p), cr)
      /\ h.saved = gen.saved /\ h.tables = gen.tables /\ p \in DOMAIN h.recs /\ cr \in DOMAIN h.recs
  BY <1>3, <1>4 DEF Moved, Move, Handler
<1>6. Len(gen.saved) \in Nat /\ Len(gen.tables) \in Nat /\ IsSeq(gen.sym)
  BY <1>1, SeqIs DEF Gen, Rest
<1>7. PICK t : t = Append(gen.sym, p)
  OBVIOUS
<1>8. /\ IsSeq(t) /\ Len(gen.sym) \in Nat /\ Len(t) = Len(gen.sym) + 1 /\ t[Len(gen.sym) + 1] = p
      /\ \A j \in 1 .. Len(gen.sym) : t[j] = gen.sym[j]
  BY <1>6, <1>7, AppendIs
<1>9. /\ Len(h.sym) = Len(t) + 1 /\ h.sym[Len(t) + 1] = cr /\ \A j \in 1 .. Len(t) : h.sym[j] = t[j]
  BY <1>5, <1>7, <1>8, AppendIs
<1>10. /\ "catch" \in Kinds /\ SymWidth["catch"] = 2 /\ SavedWidth["catch"] = 0
       /\ TableWidth["catch"] = 0 /\ "catch" \notin Frames
  BY DEF Kinds, SymWidth, SavedWidth, TableWidth, Frames
<1>11. Pushed(gen, h, "catch")
  BY <1>5, <1>6, <1>8, <1>9, <1>10 DEF Pushed
<1> QED
  BY <1>1, <1>2, <1>4, <1>5, <1>10, <1>11, NestedPush DEF Sound

\* Two entries are taken off.
LEMMA FrontTwice ==
  ASSUME NEW s, IsSeq(s), 2 <= Len(s)
  PROVE  /\ IsSeq(Front(Front(s))) /\ Len(Front(Front(s))) = Len(s) - 2
         /\ \A j \in 1 .. Len(Front(Front(s))) : Front(Front(s))[j] = s[j]
<1>1. PICK t : t = Front(s)
  OBVIOUS
<1>2. PICK u : u = Front(t)
  OBVIOUS
<1>3. Len(s) \in Nat /\ s # <<>>
  BY SeqIs
<1>4. IsSeq(t) /\ Len(t) = Len(s) - 1 /\ \A i \in DOMAIN t : t[i] = s[i]
  BY <1>1, <1>3, FrontIs
<1>5. t # <<>>
  BY <1>3, <1>4
<1>6. IsSeq(u) /\ Len(u) = Len(t) - 1 /\ \A i \in DOMAIN u : i \in DOMAIN t /\ u[i] = t[i]
  BY <1>2, <1>4, <1>5, FrontIs
<1>7. DOMAIN u = 1 .. Len(u)
  BY <1>6, SeqIs
<1>8. Len(u) = Len(s) - 2 /\ \A j \in 1 .. Len(u) : u[j] = s[j]
  BY <1>3, <1>4, <1>6, <1>7
<1> QED
  BY <1>1, <1>2, <1>6, <1>8

\* sp_pop_try_catch is a step.
LEMMA RegisterStep ==
  ASSUME NEW g, NEW args, Gen(g, {})
  PROVE  Step(g, Register(g, args), {})
<1>1. PICK h : h = Register(g, args)
  OBVIOUS
<1>2. IsGen(h) /\ \A x \in Fields \ {"blocks", "tries"} : h[x] = g[x]
  BY <1>1 DEF Register, Gen, IsGen, Fields
<1> QED
  BY <1>1, <1>2, QuietStep DEF QuietFields

\* The end of a handler without an argument pops both labels.
LEMMA CatchEndSound ==
  ASSUME Sound(gen, open), CatchEnd
  PROVE  Sound(gen', open')
<1>1. PICK h : h = PopSym(gen)
  OBVIOUS
<1>2. PICK k : k = DefineTop(h)
  OBVIOUS
<1>3. /\ Gen(gen, {}) /\ Nested(gen, open) /\ open # <<>> /\ Last(open) = "catch"
      /\ open' = Front(open) /\ gen' = Register(k, 0)
  BY <1>1, <1>2 DEF CatchEnd, Inside, InBody, Closes, Sound
<1>4. Moved(gen, h, Front(gen.sym))
  BY <1>1, <1>3, MovedSelf, MovedPop
<1>5. Moved(gen, k, Front(Front(gen.sym))) /\ Gen(k, {})
  BY <1>2, <1>3, <1>4, MovedDefine DEF Moved, Move
<1>6. Moved(gen, gen', Front(Front(gen.sym)))
  BY <1>3, <1>5, RegisterStep, MovedStep
<1>7. PICK m : m = gen'
  OBVIOUS
<1>8. /\ Gen(m, {}) /\ Grows(gen, m) /\ m.sym = Front(Front(gen.sym)) /\ m.saved = gen.saved
      /\ m.tables = gen.tables
  BY <1>6, <1>7 DEF Moved, Move
<1>9. SymWidth["catch"] = 2 /\ SavedWidth["catch"] = 0 /\ TableWidth["catch"] = 0
  BY DEF Kinds, SymWidth, SavedWidth, TableWidth
<1>10. 2 <= Len(gen.sym)
  BY <1>3, <1>9, NestedTop
<1>11. IsSeq(gen.sym) /\ Len(gen.saved) \in Nat /\ Len(gen.tables) \in Nat
  BY <1>3, SeqIs DEF Gen, Rest
<1>12. Len(m.sym) = Len(gen.sym) - 2 /\ \A j \in 1 .. Len(m.sym) : m.sym[j] = gen.sym[j]
  BY <1>8, <1>10, <1>11, FrontTwice
<1>13. Popped(gen, m, Last(open))
  BY <1>3, <1>8, <1>9, <1>11, <1>12 DEF Popped
<1> QED
  BY <1>3, <1>7, <1>8, <1>13, NestedPop DEF Sound

(***************************************************************************)
(* Switches.                                                               *)
(***************************************************************************)
\* The table of the innermost switch is replaced.
LEMMA SetTableSound ==
  ASSUME NEW g, NEW o, NEW t, Sound(g, o), o # <<>>, Last(o) = "switch", IsTable(t)
  PROVE  Sound(SetTable(g, t), o)
<1>1. Gen(g, {}) /\ Nested(g, o)
  BY DEF Sound
<1>2. /\ IsSeq(g.tables) /\ Len(g.tables) \in Nat /\ 1 <= Len(g.tables)
      /\ \A i \in DOMAIN g.tables : IsTable(g.tables[i])
  <2>1. TableWidth["switch"] = 1
    BY DEF Kinds, TableWidth
  <2>2. 1 <= Len(g.tables)
    BY <1>1, <2>1, NestedTop
  <2> QED
    BY <1>1, <2>2, SeqIs DEF Gen, Rest
<1>3. PICK f : f = Front(g.tables)
  OBVIOUS
<1>4. /\ IsSeq(f) /\ Len(f) = Len(g.tables) - 1
      /\ \A i \in DOMAIN f : i \in DOMAIN g.tables /\ f[i] = g.tables[i]
  BY <1>2, <1>3, FrontIs
<1>5. PICK u : u = Append(f, t)
  OBVIOUS
<1>6. /\ IsSeq(u) /\ Len(u) = Len(f) + 1 /\ DOMAIN u = 1 .. (Len(f) + 1) /\ DOMAIN f = 1 .. Len(f)
      /\ \A i \in 1 .. Len(f) : u[i] = f[i]
      /\ u[Len(f) + 1] = t /\ Len(f) \in Nat
  BY <1>4, <1>5, AppendIs
<1>7. \A i \in DOMAIN u : IsTable(u[i])
  <2> SUFFICES ASSUME NEW i \in DOMAIN u
               PROVE  IsTable(u[i])
    OBVIOUS
  <2>1. CASE i = Len(f) + 1
    BY <1>6, <2>1
  <2>2. CASE i \in 1 .. Len(f)
    BY <1>2, <1>4, <1>6, <2>2
  <2> QED
    BY <1>6, <2>1, <2>2
<1>8. PICK h : h = [g EXCEPT !.tables = u]
  OBVIOUS
<1>9. IsGen(h) /\ h.tables = u /\ \A x \in Fields \ {"tables"} : h[x] = g[x]
  BY <1>1, <1>8 DEF Gen, IsGen, Fields
<1>10. /\ h.recs = g.recs /\ h.code = g.code /\ h.off = g.off /\ h.pool = g.pool /\ h.cur = g.cur
       /\ h.slots = g.slots /\ h.index = g.index /\ h.lastTab = g.lastTab /\ h.saved = g.saved
       /\ h.sym = g.sym /\ h.tabs = g.tabs
  BY <1>9 DEF Fields
<1>11. Rest(h)
  BY <1>1, <1>6, <1>7, <1>9, <1>10 DEF Gen, Rest
<1>12. Move(g, h, {})
  BY <1>1, <1>9, <1>10, <1>11, MoveSame
<1>13. Len(h.tables) = Len(g.tables)
  BY <1>2, <1>4, <1>6, <1>9
<1>14. Nested(h, o)
  BY <1>1, <1>10, <1>12, <1>13, NestedStays DEF Move
<1>15. SetTable(g, t) = h
  BY <1>3, <1>5, <1>8 DEF SetTable
<1> QED
  BY <1>12, <1>14, <1>15 DEF Sound, Move

\* A switch that is open has a table.
LEMMA TopTableIs ==
  ASSUME NEW g, NEW o, Sound(g, o), o # <<>>, Last(o) = "switch"
  PROVE  IsTable(TopTable(g))
<1>1. Gen(g, {}) /\ Nested(g, o)
  BY DEF Sound
<1>2. TableWidth["switch"] = 1
  BY DEF Kinds, TableWidth
<1>3. 1 <= Len(g.tables) /\ IsSeq(g.tables)
  BY <1>1, <1>2, NestedTop DEF Gen, Rest
<1>4. Len(g.tables) \in DOMAIN g.tables
  BY <1>3, SeqIs
<1> QED
  BY <1>1, <1>4 DEF TopTable, Last, Gen, Rest

\* case keeps the invariant.
LEMMA CaseSound ==
  ASSUME NEW c, Sound(gen, open), Case(c)
  PROVE  Sound(gen', open')
<1>1. PICK h : h = PushConstant(gen, c)
  OBVIOUS
<1>2. PICK e : e = [const |-> ConstantAt(h, c), value |-> c, target |-> h.off]
  OBVIOUS
<1>3. PICK t : t = [TopTable(h) EXCEPT !.cases = Append(@, e)]
  OBVIOUS
<1>4. open # <<>> /\ Last(open) = "switch" /\ open' = open /\ gen' = SetTable(h, t)
  BY <1>1, <1>2, <1>3 DEF Case, AddCase, Inside, InBody
<1>5. Sound(h, open)
  BY <1>1, LoadConstantStep, StepSound DEF Sound
<1>6. IsTable(TopTable(h))
  BY <1>4, <1>5, TopTableIs
<1>7. IsSeq(Append(TopTable(h).cases, e))
  BY <1>6, AppendIs DEF IsTable
<1>8. IsTable(t)
  BY <1>3, <1>6, <1>7 DEF IsTable
<1> QED
  BY <1>4, <1>5, <1>8, SetTableSound

\* default keeps the invariant.
LEMMA DefaultSound ==
  ASSUME Sound(gen, open), Default
  PROVE  Sound(gen', open')
<1>1. PICK t : t = [TopTable(gen) EXCEPT !.default = gen.off]
  OBVIOUS
<1>2. open # <<>> /\ Last(open) = "switch" /\ open' = open /\ gen' = SetTable(gen, t)
  BY <1>1 DEF Default, Inside, InBody
<1>3. IsTable(TopTable(gen))
  BY <1>2, TopTableIs
<1>4. IsTable(t)
  BY <1>1, <1>3 DEF IsTable
<1> QED
  BY <1>2, <1>4, SetTableSound

\* sp_start_case pushes the record of the table and an empty table.
LEMMA StartCaseMove ==
  ASSUME NEW g, NEW s, Gen(g, {}), s = StartCase(g)
  PROVE  /\ Move(g, s, {}) /\ s.sym = Append(g.sym, Len(g.recs) + 1) /\ s.saved = g.saved
         /\ s.tables = Append(g.tables, NoTable) /\ Tabled(s, Len(g.recs) + 1)
<1>1. PICK n : n = [Record("table", <<"table", g.off>>, 0, g.cur, Table(g)) EXCEPT !.list = {g.off}]
  OBVIOUS
<1>2. PICK m : m = Len(g.recs) + 1
  OBVIOUS
<1>3. PICK e : e = [at |-> g.off, ins |-> "SWITCH", ref |-> m, arg |-> 0 % Modulus("SWITCH"), src |-> "switch", fn |-> g.cur]
  OBVIOUS
<1>4. /\ IsGen(s) /\ s.recs = Append(g.recs, n) /\ s.code = Append(g.code, e)
      /\ s.off = g.off + Size("SWITCH") /\ s.sym = Append(g.sym, m)
      /\ s.tables = Append(g.tables, NoTable)
      /\ \A x \in Fields \ {"recs", "code", "off", "sym", "tables"} : s[x] = g[x]
  <2>1. PICK a : a = Insert(g, n)
    OBVIOUS
  <2>2. IsGen(a) /\ a.recs = Append(g.recs, n) /\ \A x \in Fields \ {"recs"} : a[x] = g[x]
    BY <2>1 DEF Gen, Insert, IsGen, Fields
  <2>3. PICK b : b = Emit(a, "SWITCH", m, 0, "switch")
    OBVIOUS
  <2>4. /\ a.off = g.off /\ a.code = g.code /\ a.cur = g.cur /\ a.sym = g.sym /\ a.tables = g.tables
    BY <2>2 DEF Fields
  <2>5. /\ IsGen(b) /\ b.code = Append(a.code, [at |-> a.off, ins |-> "SWITCH", ref |-> m,
                                               arg |-> 0 % Modulus("SWITCH"), src |-> "switch", fn |-> a.cur])
        /\ b.off = a.off + Size("SWITCH")
        /\ \A x \in Fields \ {"code", "off"} : b[x] = a[x]
    BY <2>2, <2>3, EmitIs
  <2>6. b.recs = a.recs /\ b.sym = a.sym /\ b.tables = a.tables
    BY <2>5 DEF Fields
  <2>7. s = [b EXCEPT !.sym = Append(@, m), !.tables = Append(@, NoTable)]
    BY <1>1, <1>2, <2>1, <2>3 DEF StartCase, Newest
  <2>8. /\ IsGen(s) /\ s.sym = Append(b.sym, m) /\ s.tables = Append(b.tables, NoTable)
        /\ \A x \in Fields \ {"sym", "tables"} : s[x] = b[x]
    BY <2>5, <2>7 DEF IsGen, Fields
  <2>9. s.recs = b.recs /\ s.code = b.code /\ s.off = b.off
    BY <2>8 DEF Fields
  <2>10. \A x \in Fields \ {"recs", "code", "off", "sym", "tables"} : s[x] = g[x]
    BY <2>2, <2>5, <2>8
  <2> QED
    BY <1>3, <2>2, <2>4, <2>5, <2>6, <2>8, <2>9, <2>10
<1>5. /\ IsRec(n) /\ n.kind = "table" /\ n.off = 0 /\ n.parent = g.cur /\ n.list = {g.off}
  BY <1>1 DEF Record, IsRec, RecFields
<1>6. /\ IsIns(e) /\ e.at = g.off /\ e.ins = "SWITCH" /\ e.ref = m
  BY <1>3 DEF IsIns, InsFields
<1>7. Core(g, {}) /\ g.cur \in 0 .. Len(g.recs) /\ Rest(g)
  BY DEF Gen, Rest
<1>8. /\ Core(s, {}) /\ Grows(g, s) /\ Len(s.recs) = Len(g.recs) + 1 /\ s.recs[m] = n
  <2>1. n.parent \in 0 .. Len(g.recs) /\ e.ref = Len(g.recs) + 1 /\ s.off = g.off + Size(e.ins)
    BY <1>2, <1>4, <1>5, <1>6, <1>7
  <2>2. IsRec(n) /\ n.kind = "table" /\ n.off = 0 /\ n.list = {g.off} /\ s.recs = Append(g.recs, n)
    BY <1>4, <1>5
  <2>3. IsIns(e) /\ e.at = g.off /\ e.ins = "SWITCH" /\ s.code = Append(g.code, e) /\ Core(g, {})
    BY <1>4, <1>6, <1>7
  <2>5. NewTable(g, s, n, e)
    BY <2>1, <2>2, <2>3 DEF NewTable
  <2>6. Appends(g, s, e)
    BY <2>1, <2>2, <2>3 DEF Appends
  <2>4. /\ Core(s, {}) /\ Grows(g, s) /\ Len(s.recs) = Len(g.recs) + 1 /\ s.recs[Len(g.recs) + 1] = n
    BY <2>5, <2>6, <1>7, TableAdded
  <2> QED
    BY <1>2, <2>4
<1>9. Tabled(s, m)
  <2>1. m \in DOMAIN s.recs
    BY <1>2, <1>8, SeqIs, <1>7 DEF Core, RecsOK
  <2> QED
    BY <1>5, <1>8, <2>1 DEF Tabled
<1>10. /\ s.cur = g.cur /\ s.slots = g.slots /\ s.index = g.index /\ s.lastTab = g.lastTab
       /\ s.saved = g.saved /\ s.pool = g.pool /\ s.tabs = g.tabs
  BY <1>4 DEF Fields
<1>11. IsSeq(s.tables) /\ \A i \in DOMAIN s.tables : IsTable(s.tables[i])
  <2>1. /\ IsSeq(g.tables) /\ Len(g.tables) \in Nat /\ DOMAIN g.tables = 1 .. Len(g.tables)
        /\ \A i \in DOMAIN g.tables : IsTable(g.tables[i])
    BY <1>7, SeqIs DEF Rest
  <2>2. IsTable(NoTable)
    BY DEF NoTable, IsTable, IsSeq, Range
  <2>3. PICK u : u = Append(g.tables, NoTable)
    OBVIOUS
  <2>4. /\ IsSeq(u) /\ DOMAIN u = 1 .. (Len(g.tables) + 1)
        /\ \A i \in 1 .. Len(g.tables) : u[i] = g.tables[i]
        /\ u[Len(g.tables) + 1] = NoTable
    BY <2>1, <2>3, AppendIs
  <2>5. \A i \in DOMAIN u : i \in 1 .. Len(g.tables) \/ i = Len(g.tables) + 1
    BY <2>1, <2>4
  <2> QED
    BY <1>4, <2>1, <2>2, <2>3, <2>4, <2>5
<1>12. IsSeq(s.sym)
  BY <1>4, <1>7, AppendIs DEF Rest
<1>13. Len(g.recs) \in Nat /\ Len(s.recs) \in Nat
  BY <1>7, <1>8, SeqIs DEF Core, RecsOK
<1>14. \A i \in DOMAIN s.saved : IsFrame(s.saved[i], Len(s.recs))
  BY <1>7, <1>8, <1>10, <1>13 DEF Rest, IsFrame
<1>15. Rest(s)
  BY <1>7, <1>8, <1>10, <1>11, <1>12, <1>13, <1>14 DEF Rest
<1> QED
  BY <1>2, <1>4, <1>8, <1>9, <1>10, <1>15 DEF Move, Gen

\* switch keeps the invariant: under its label lies the record of its table.
LEMMA SwitchSound ==
  ASSUME Sound(gen, open), Switch
  PROVE  Sound(gen', open')
<1>1. PICK h : h = LoadConstant(gen, Value)
  OBVIOUS
<1>2. PICK s : s = StartCase(h)
  OBVIOUS
<1>3. PICK k : k = PushLabel(s)
  OBVIOUS
<1>4. Gen(gen, {}) /\ Nested(gen, open) /\ open' = Append(open, "switch") /\ gen' = k
  BY <1>1, <1>2, <1>3 DEF Switch, Opens, Sound
<1>5. Step(gen, h, {}) /\ Sound(h, open) /\ Gen(h, {}) /\ Nested(h, open)
  BY <1>1, <1>4, LoadConstantStep, StepSound DEF Sound
<1>6. PICK m : m = Len(h.recs) + 1
  OBVIOUS
<1>7. /\ Move(h, s, {}) /\ s.sym = Append(h.sym, m) /\ s.saved = h.saved
      /\ s.tables = Append(h.tables, NoTable) /\ Tabled(s, m)
  BY <1>2, <1>5, <1>6, StartCaseMove
<1>8. PICK q : q = Len(s.recs) + 1
  OBVIOUS
<1>9. Gen(s, {})
  BY <1>7 DEF Move
<1>10. Moved(s, k, Append(s.sym, q)) /\ q \in DOMAIN k.recs
  BY <1>3, <1>8, <1>9, MovedSelf, MovedPush
<1>11. /\ Move(h, k, {}) /\ Gen(k, {}) /\ Grows(h, k) /\ k.sym = Append(Append(h.sym, m), q)
       /\ k.saved = h.saved /\ k.tables = Append(h.tables, NoTable)
  BY <1>5, <1>7, <1>10, MoveTwice DEF Moved, Move
<1>12. Tabled(k, m)
  BY <1>7, <1>9, <1>10, GrowsKeeps DEF Moved, Move, Gen
<1>13. /\ "switch" \in Kinds /\ SymWidth["switch"] = 2 /\ SavedWidth["switch"] = 0
       /\ TableWidth["switch"] = 1 /\ "switch" \notin Frames
  BY DEF Kinds, SymWidth, SavedWidth, TableWidth, Frames
<1>14. IsSeq(h.sym) /\ IsSeq(h.tables) /\ Len(h.saved) \in Nat /\ Len(h.tables) \in Nat
  BY <1>5, SeqIs DEF Gen, Rest
<1>15. Len(k.tables) = Len(h.tables) + 1
  BY <1>11, <1>14, AppendIs
<1>16. PICK t : t = Append(h.sym, m)
  OBVIOUS
<1>17. /\ IsSeq(t) /\ Len(h.sym) \in Nat /\ Len(t) = Len(h.sym) + 1 /\ t[Len(h.sym) + 1] = m
       /\ \A j \in 1 .. Len(h.sym) : t[j] = h.sym[j]
  BY <1>14, <1>16, AppendIs
<1>18. /\ Len(k.sym) = Len(t) + 1 /\ k.sym[Len(t) + 1] = q /\ \A j \in 1 .. Len(t) : k.sym[j] = t[j]
  BY <1>11, <1>16, <1>17, AppendIs
<1>19. m \in DOMAIN k.recs
  BY <1>12 DEF Tabled
<1>20. k.sym[Len(k.sym) - 1] = m
  BY <1>17, <1>18
<1>21. Pushed(h, k, "switch")
  BY <1>10, <1>11, <1>12, <1>13, <1>14, <1>15, <1>17, <1>18, <1>19, <1>20 DEF Pushed
<1> QED
  BY <1>4, <1>5, <1>11, <1>13, <1>21, NestedPush DEF Sound

\* The table is complete: it enters the pool, the record has its place there and the SWITCH
\* instructions that wait for it are patched.
LEMMA EndCaseMove ==
  ASSUME NEW g, NEW h, NEW r, Gen(g, {}), Tabled(g, r), IsTable(TopTable(g)), 2 <= Len(g.sym),
         h = EndCase(g, r)
  PROVE  /\ Move(g, h, {}) /\ h.sym = Front(Front(g.sym)) /\ h.saved = g.saved
         /\ h.tables = Front(g.tables)
<1>1. PICK n : n = [g.recs[r] EXCEPT !.off = PoolEnd(g), !.list = {}]
  OBVIOUS
<1>2. PICK e : e = [at |-> PoolEnd(g), bytes |-> 3 + 4 * Len(TopTable(g).cases),
                    value |-> TableValue, tab |-> Table(g), table |-> FinalTable(g)]
  OBVIOUS
<1>3. PICK C : C = Patch(g.code, g.recs[r].list, PoolEnd(g))
  OBVIOUS
<1>4. /\ IsGen(h) /\ h.recs = [g.recs EXCEPT ![r] = n] /\ h.code = C /\ h.pool = Append(g.pool, e)
      /\ h.tables = Front(g.tables) /\ h.sym = Front(Front(g.sym))
      /\ \A x \in Fields \ {"recs", "code", "pool", "tables", "sym"} : h[x] = g[x]
  BY <1>1, <1>2, <1>3 DEF EndCase, Update, Gen, IsGen, Fields
<1>5. /\ h.off = g.off /\ h.cur = g.cur /\ h.slots = g.slots /\ h.index = g.index
      /\ h.lastTab = g.lastTab /\ h.saved = g.saved /\ h.tabs = g.tabs
  BY <1>4 DEF Fields
<1>6. PICK a : a = [g EXCEPT !.code = C]
  OBVIOUS
<1>7. a.code = C /\ a.recs = g.recs /\ a.off = g.off
  BY <1>6 DEF Gen, IsGen, Fields
<1>8. Core(g, {}) /\ Rest(g) /\ PoolEnd(g) \in Nat /\ r \in DOMAIN g.recs /\ g.recs[r].kind = "table"
  BY PoolEndIs DEF Gen, Tabled
<1>9. \A i \in DOMAIN g.code : g.code[i].at \in g.recs[r].list => g.code[i].ins \notin Jumps
  <2>1. "SWITCH" \notin Jumps
    BY DEF Jumps, Branches
  <2> QED
    BY <1>8, <2>1 DEF Core, ListsOK, SiteIns
<1>10. Core(a, {}) /\ Grows(g, a)
  BY <1>3, <1>7, <1>8, <1>9, Overwritten
<1>11. Becomes(a.recs[r], n, PoolEnd(g), {})
  <2>1. IsRec(g.recs[r])
    BY <1>8 DEF Core, RecsOK
  <2> QED
    BY <1>1, <1>7, <2>1 DEF Becomes, IsRec, RecFields
<1>12. Core(h, {}) /\ Grows(a, h)
  <2>1. /\ h.recs = [a.recs EXCEPT ![r] = n] /\ h.code = a.code /\ h.off = a.off
        /\ r \in DOMAIN a.recs /\ a.recs[r].kind = "table"
    BY <1>4, <1>5, <1>7, <1>8
  <2> QED
    BY <1>8, <1>10, <1>11, <2>1, Relocated
<1>13. Grows(g, h)
  BY <1>8, <1>10, <1>12, GrowsFurther
<1>14. IsSeq(h.pool) /\ \A i \in DOMAIN h.pool : h.pool[i].at \in Nat /\ h.pool[i].bytes \in Nat
  <2>1. e.at \in Nat /\ e.bytes \in Nat
    <3>1. Len(TopTable(g).cases) \in Nat
      BY SeqIs DEF IsTable
    <3> QED
      BY <1>2, <1>8, <3>1
  <2>2. /\ IsSeq(h.pool) /\ DOMAIN h.pool = 1 .. (Len(g.pool) + 1) /\ Len(g.pool) \in Nat
        /\ DOMAIN g.pool = 1 .. Len(g.pool)
        /\ \A i \in 1 .. Len(g.pool) : h.pool[i] = g.pool[i]
        /\ h.pool[Len(g.pool) + 1] = e
    BY <1>4, <1>8, AppendIs DEF Rest
  <2>3. \A i \in DOMAIN h.pool : i \in DOMAIN g.pool \/ i = Len(g.pool) + 1
    BY <2>2
  <2>4. \A i \in DOMAIN g.pool : g.pool[i].at \in Nat /\ g.pool[i].bytes \in Nat
    BY <1>8 DEF Rest
  <2> QED
    BY <2>1, <2>2, <2>3, <2>4
<1>15. IsSeq(h.tables) /\ \A i \in DOMAIN h.tables : IsTable(h.tables[i])
  <2>1. IsSeq(g.tables) /\ \A i \in DOMAIN g.tables : IsTable(g.tables[i])
    BY <1>8 DEF Rest
  <2>2. IsSeq(h.tables) /\ \A i \in DOMAIN h.tables : i \in DOMAIN g.tables /\ h.tables[i] = g.tables[i]
    BY <1>4, <2>1, FrontIs
  <2> QED
    BY <2>1, <2>2
<1>16. IsSeq(h.sym)
  BY <1>4, <1>8, FrontTwice DEF Rest
<1>17. Len(h.recs) = Len(g.recs)
  <2>1. Changed(g.recs, h.recs, r, n)
    BY <1>4, <1>8, ExceptIs DEF Core, RecsOK
  <2> QED
    BY <2>1 DEF Changed
<1>18. Rest(h)
  BY <1>5, <1>8, <1>14, <1>15, <1>16, <1>17 DEF Rest
<1> QED
  BY <1>4, <1>5, <1>12, <1>13, <1>18 DEF Move, Gen

\* The end of a switch patches nothing but the SWITCH of its own table.
LEMMA SwitchEndSound ==
  ASSUME Sound(gen, open), SwitchEnd
  PROVE  Sound(gen', open')
<1>1. PICK r : r = gen.sym[Len(gen.sym) - 1]
  OBVIOUS
<1>2. PICK h : h = EndCase(gen, r)
  OBVIOUS
<1>3. /\ Gen(gen, {}) /\ Nested(gen, open) /\ open # <<>> /\ Last(open) = "switch"
      /\ open' = Front(open) /\ gen' = NewLabel(h, TopName(gen))
  BY <1>1, <1>2 DEF SwitchEnd, Inside, InBody, Closes, Sound
<1>4. SymWidth["switch"] = 2 /\ SavedWidth["switch"] = 0 /\ TableWidth["switch"] = 1
  BY DEF Kinds, SymWidth, SavedWidth, TableWidth
<1>5. Tabled(gen, r) /\ 2 <= Len(gen.sym) /\ 1 <= Len(gen.tables)
  BY <1>1, <1>3, <1>4, NestedTop
<1>6. IsTable(TopTable(gen))
  BY <1>3, TopTableIs
<1>7. /\ Move(gen, h, {}) /\ h.sym = Front(Front(gen.sym)) /\ h.saved = gen.saved
      /\ h.tables = Front(gen.tables)
  BY <1>2, <1>3, <1>5, <1>6, EndCaseMove
<1>8. /\ IsSeq(gen.sym) /\ IsSeq(gen.tables) /\ Len(gen.saved) \in Nat /\ Len(gen.tables) \in Nat
  BY <1>3, SeqIs DEF Gen, Rest
<1>9. Len(h.sym) = Len(gen.sym) - 2 /\ \A j \in 1 .. Len(h.sym) : h.sym[j] = gen.sym[j]
  BY <1>5, <1>7, <1>8, FrontTwice
<1>10. Len(h.tables) = Len(gen.tables) - 1
  <2>1. gen.tables # <<>>
    BY <1>5
  <2> QED
    BY <1>7, <1>8, <2>1, FrontIs
<1>11. Popped(gen, h, Last(open))
  BY <1>3, <1>4, <1>7, <1>8, <1>9, <1>10 DEF Popped
<1>12. Nested(h, Front(open)) /\ Gen(h, {})
  BY <1>3, <1>7, <1>11, NestedPop DEF Move
<1> QED
  BY <1>3, <1>12, NewLabelStep, StepSound DEF Sound

(***************************************************************************)
(* Functions.                                                              *)
(***************************************************************************)
\* After SCTX the record that has the address of it is the record of a frame.
LEMMA OpenFrameStep ==
  ASSUME NEW g, NEW h, NEW X, Gen(g, X), h = OpenFrame(g)
  PROVE  /\ Step(g, h, X)
         /\ \A r \in DOMAIN g.recs :
              g.recs[r].kind \in {"label", "func"} /\ g.recs[r].off = g.off => Framed(h, r)
<1>1. PICK c : c = CreateLabel(g)
  OBVIOUS
<1>2. PICK n : n = Record("label", <<"gen", g.index>>, Undef, g.cur, Table(g))
  OBVIOUS
<1>3. Step(g, c, X) /\ Adds(g, c, n) /\ Gen(c, X)
  BY <1>1, <1>2, CreateLabelStep DEF Step
<1>4. h = Emit(c, "SCTX", g.cur, 0, "frame")
  BY <1>1 DEF OpenFrame
<1>5. "SCTX" \notin Jumps
  BY DEF Jumps, Branches
<1>6. Step(c, h, X) /\ h.recs = c.recs
  BY <1>3, <1>4, <1>5, EmitStep
<1>7. Step(g, h, X)
  BY <1>3, <1>6, StepTwice
<1>8. c.code = g.code /\ c.off = g.off
  BY <1>1 DEF CreateLabel, Insert, Gen, IsGen, Fields
<1>9. PICK e : e = [at |-> c.off, ins |-> "SCTX", ref |-> g.cur, arg |-> 0 % Modulus("SCTX"), src |-> "frame", fn |-> c.cur]
  OBVIOUS
<1>10. h.code = Append(c.code, e) /\ h.off = c.off + Size("SCTX")
  BY <1>3, <1>4, <1>9, EmitIs DEF Gen
<1>11. g.off \in Nat /\ IsSeq(g.code) /\ \A i \in DOMAIN g.code : g.code[i].at < g.off /\ g.code[i].at \in Nat
  BY DEF Gen, Core, CodeOK
<1>12. /\ DOMAIN h.code = 1 .. (Len(g.code) + 1) /\ Len(g.code) \in Nat
       /\ DOMAIN g.code = 1 .. Len(g.code)
       /\ \A i \in 1 .. Len(g.code) : h.code[i] = g.code[i]
       /\ h.code[Len(g.code) + 1] = e
  BY <1>8, <1>10, <1>11, AppendIs
<1>13. \A i \in DOMAIN h.code : h.code[i].at = g.off => h.code[i].ins = "SCTX"
  <2>1. \A i \in DOMAIN h.code : i \in DOMAIN g.code \/ i = Len(g.code) + 1
    BY <1>12
  <2>2. e.ins = "SCTX"
    BY <1>9
  <2>3. \A i \in DOMAIN g.code : g.code[i].at # g.off
    BY <1>11
  <2> QED
    BY <1>12, <2>1, <2>2, <2>3
<1>14. g.off < h.off
  BY <1>8, <1>10, <1>11 DEF Size
<1>15. \A r \in DOMAIN g.recs : r \in DOMAIN h.recs /\ h.recs[r] = g.recs[r]
  BY <1>3, <1>6 DEF Adds
<1>16. \A r \in DOMAIN g.recs :
         g.recs[r].kind \in {"label", "func"} /\ g.recs[r].off = g.off => Framed(h, r)
  BY <1>11, <1>13, <1>14, <1>15 DEF Framed
<1> QED
  BY <1>7, <1>16

\* The start of a function patches the calls that wait for it and opens its frame.
LEMMA EnterFunctionSound ==
  ASSUME NEW g, NEW r, NEW o, Sound(g, o), r \in DOMAIN g.recs, g.recs[r].kind = "func",
         g.recs[r].off = Undef
  PROVE  Sound(EnterFunction(g, r), Append(o, "function"))
<1>1. PICK a : a = Resolve(g, r)
  OBVIOUS
<1>2. Gen(g, {})
  BY DEF Sound
<1>3. /\ Step(g, a, {}) /\ Only(g, a, r) /\ a.recs[r].kind = "func" /\ a.recs[r].off = g.off
      /\ \A x \in Fields \ {"recs", "code"} : a[x] = g[x]
  BY <1>1, <1>2, ResolveStep
<1>4. Gen(a, {}) /\ a.off = g.off /\ r \in DOMAIN a.recs
  BY <1>3 DEF Step, Only, Fields
<1>5. PICK b : b = [a EXCEPT !.cur = r, !.slots = 0]
  OBVIOUS
<1>6. IsGen(b) /\ b.cur = r /\ b.slots = 0 /\ \A x \in Fields \ {"cur", "slots"} : b[x] = a[x]
  BY <1>4, <1>5 DEF Gen, IsGen, Fields
<1>7. b.index = a.index /\ \A x \in IdleFields : b[x] = a[x]
  BY <1>6 DEF Fields, IdleFields
<1>8. r \in 0 .. Len(a.recs) /\ a.index \in Nat
  BY <1>4, SeqIs DEF Gen, Rest, Core, RecsOK
<1>9. Step(a, b, {}) /\ b.recs = a.recs /\ b.off = a.off /\ Gen(b, {})
  <2>1. b.cur \in 0 .. Len(a.recs) /\ b.slots \in Nat /\ b.index \in Nat
    BY <1>6, <1>7, <1>8
  <2>2. Step(a, b, {}) /\ b.recs = a.recs /\ b.off = a.off
    BY <1>4, <1>6, <1>7, <2>1, IdleStep
  <2> QED
    BY <2>2 DEF Step
<1>10. PICK c : c = OpenFrame(b)
  OBVIOUS
<1>11. Step(b, c, {}) /\ Framed(c, r) /\ Gen(c, {})
  BY <1>3, <1>4, <1>9, <1>10, OpenFrameStep DEF Step
<1>12. PICK d : d = [c EXCEPT !.exit = Newest(a) + 1]
  OBVIOUS
<1>13. IsGen(d) /\ \A x \in Fields \ {"exit"} : d[x] = c[x]
  BY <1>11, <1>12 DEF Gen, IsGen, Fields
<1>14. Step(c, d, {}) /\ Gen(d, {})
  BY <1>11, <1>13, QuietStep DEF QuietFields, Step
<1>15. PICK e : e = CreateVariable(d, a.recs[r].name)
  OBVIOUS
<1>16. Step(d, e, {}) /\ Gen(e, {})
  BY <1>14, <1>15, CreateVariableStep DEF Step
<1>17. Step(c, e, {})
  BY <1>11, <1>14, <1>16, StepTwice
<1>18. Framed(e, r)
  BY <1>11, <1>17, GrowsKeeps DEF Step, Keeps, Gen
<1>19. Step(a, c, {})
  BY <1>4, <1>9, <1>11, StepTwice
<1>20. Step(g, c, {})
  BY <1>2, <1>3, <1>19, StepTwice
<1>21. Step(g, e, {})
  BY <1>2, <1>17, <1>20, StepTwice
<1>22. PICK f : f = PushSym(e, r)
  OBVIOUS
<1>23. /\ Move(e, f, {}) /\ f.sym = Append(e.sym, r) /\ f.recs = e.recs /\ f.saved = e.saved
       /\ f.tables = e.tables
  BY <1>16, <1>22, PushSymMove
<1>24. Moved(g, e, g.sym)
  BY <1>2, <1>21, MovedSelf, MovedStep
<1>25. Moved(g, f, Append(g.sym, r))
  BY <1>2, <1>23, <1>24, MoveTwice DEF Moved
<1>26. Framed(f, r)
  BY <1>16, <1>18, <1>23, GrowsKeeps DEF Move, Gen
<1>27. EnterFunction(g, r) = f
  BY <1>1, <1>5, <1>10, <1>12, <1>15, <1>22 DEF EnterFunction, StartFrame
<1>28. r \in DOMAIN f.recs
  BY <1>26 DEF Framed
<1> QED
  BY <1>25, <1>26, <1>27, <1>28, OpenOne

\* A definition keeps the invariant, or gives up.
LEMMA FunctionStartSound ==
  ASSUME NEW f \in Functions, Sound(gen, open), FunctionStart(f)
  PROVE  Sound(gen', open')
<1>1. PICK full : full = Select(gen, "func", Full(f))
  OBVIOUS
<1>2. Gen(gen, {})
  BY DEF Sound
<1>3. CASE full # Nobody /\ gen.recs[full].off = Undef /\ gen' = EnterFunction(gen, full) /\ Opens("function")
  <2>1. full \in DOMAIN gen.recs /\ gen.recs[full].kind = "func"
    BY <1>1, <1>2, <1>3, SelectFunc
  <2> QED
    BY <1>3, <2>1, EnterFunctionSound DEF Opens
<1>4. CASE \E q : Abort(Error(gen, "MULTI_FUNCTION", q))
  BY <1>4, AbortSound
<1>5. CASE gen' = EnterFunction(AddFunction(gen, f), Newest(gen) + 1) /\ Opens("function")
  <2>1. PICK h : h = AddFunction(gen, f)
    OBVIOUS
  <2>2. PICK m : m = Len(gen.recs) + 1
    OBVIOUS
  <2>3. Step(gen, h, {}) /\ m \in DOMAIN h.recs /\ h.recs[m].kind = "func" /\ h.recs[m].off = Undef
    BY <1>2, <2>1, <2>2, AddedFunc DEF AddFunction
  <2>4. Sound(h, open)
    BY <2>3, StepSound
  <2> QED
    BY <1>5, <2>1, <2>2, <2>3, <2>4, EnterFunctionSound DEF Opens, Newest
<1> QED
  BY <1>1, <1>3, <1>4, <1>5 DEF FunctionStart

\* The end of a body patches SCTX, and that is no jump.
LEMMA EndBodyStep ==
  ASSUME NEW g, NEW r, Gen(g, {}), Framed(g, r)
  PROVE  Step(g, EndBody(g, r), {})
<1>1. PICK a : a = [g EXCEPT !.code = Patch(g.code, FrameSite(g, r), g.slots)]
  OBVIOUS
<1>2. PICK b : b = NewLabel(a, g.recs[g.exit].name)
  OBVIOUS
<1>3. "SCTX" \notin Jumps
  BY DEF Jumps, Branches
<1>4. /\ IsGen(a) /\ a.code = Patch(g.code, FrameSite(g, r), g.slots)
      /\ \A x \in Fields \ {"code"} : a[x] = g[x]
  BY <1>1 DEF Gen, IsGen, Fields
<1>5. a.recs = g.recs /\ a.off = g.off
  BY <1>4 DEF Fields
<1>6. \A i \in DOMAIN g.code : g.code[i].at \in FrameSite(g, r) => g.code[i].ins \notin Jumps
  BY <1>3 DEF Framed, FrameSite
<1>7. Core(a, {}) /\ Grows(g, a)
  BY <1>4, <1>5, <1>6, Overwritten DEF Gen
<1>8. Step(g, a, {}) /\ Gen(a, {})
  BY <1>4, <1>7, CoreStep DEF Step
<1>9. Step(a, b, {}) /\ Gen(b, {})
  BY <1>2, <1>8, NewLabelStep DEF Step
<1>10. Step(g, b, {})
  BY <1>8, <1>9, StepTwice
<1> QED
  BY <1>1, <1>2, <1>10 DEF EndBody

\* RCTX and RET are no jumps.
LEMMA ReleaseStep ==
  ASSUME NEW g, NEW r, NEW n, Gen(g, {})
  PROVE  Step(g, Release(g, r, n), {})
<1>1. PICK d : d = Emit(g, "RCTX", r, n, "frame")
  OBVIOUS
<1>2. PICK e : e = Emit(d, "RET", r, 0, "frame")
  OBVIOUS
<1>3. "RCTX" \notin Jumps /\ "RET" \notin Jumps
  BY DEF Jumps, Branches
<1>4. Step(g, d, {}) /\ Gen(d, {})
  BY <1>1, <1>3, EmitStep DEF Step
<1>5. Step(d, e, {})
  BY <1>2, <1>3, <1>4, EmitStep
<1>6. Step(g, e, {})
  BY <1>4, <1>5, StepTwice
<1> QED
  BY <1>1, <1>2, <1>6 DEF Release

\* The end of a function is a step.
LEMMA CloseFrameStep ==
  ASSUME NEW g, NEW r, Gen(g, {}), Framed(g, r)
  PROVE  Step(g, CloseFrame(g, r), {})
<1>1. PICK b : b = EndBody(g, r)
  OBVIOUS
<1>2. PICK e : e = Release(b, r, g.slots)
  OBVIOUS
<1>3. Step(g, b, {}) /\ Gen(b, {})
  BY <1>1, EndBodyStep DEF Step
<1>4. Step(b, e, {})
  BY <1>2, <1>3, ReleaseStep
<1>5. Step(g, e, {})
  BY <1>3, <1>4, StepTwice
<1> QED
  BY <1>1, <1>2, <1>5 DEF CloseFrame

\* So is the end of a lambda, which loads its result first.
LEMMA CloseLambdaStep ==
  ASSUME NEW g, NEW r, Gen(g, {}), Framed(g, r)
  PROVE  Step(g, CloseLambda(g, r), {})
<1>1. PICK b : b = EndBody(g, r)
  OBVIOUS
<1>2. PICK c : c = EmitVar(b, "OBJPUSH", g.recs[r].name)
  OBVIOUS
<1>3. PICK e : e = Release(c, r, g.slots)
  OBVIOUS
<1>4. Step(g, b, {}) /\ Gen(b, {})
  BY <1>1, EndBodyStep DEF Step
<1>5. Step(b, c, {}) /\ Gen(c, {})
  BY <1>2, <1>4, EmitVarStep DEF Step
<1>6. Step(c, e, {})
  BY <1>3, <1>5, ReleaseStep
<1>7. Step(g, c, {})
  BY <1>4, <1>5, StepTwice
<1>8. Step(g, e, {})
  BY <1>6, <1>7, StepTwice
<1> QED
  BY <1>1, <1>2, <1>3, <1>8 DEF CloseLambda

\* The end of a function takes its labels and variables out of the table.
LEMMA FunctionEndSound ==
  ASSUME Sound(gen, open), FunctionEnd
  PROVE  Sound(gen', open')
<1>1. PICK r : r = Last(gen.sym)
  OBVIOUS
<1>2. PICK a : a = CloseFrame(gen, r)
  OBVIOUS
<1>3. PICK b : b = Clear(a, Locals(a, r))
  OBVIOUS
<1>4. PICK c : c = [b EXCEPT !.slots = 0, !.cur = Nobody, !.exit = Nobody]
  OBVIOUS
<1>5. /\ Gen(gen, {}) /\ Nested(gen, open) /\ open # <<>> /\ Last(open) = "function" /\ open' = Front(open)
      /\ gen' = [b EXCEPT !.slots = 0, !.cur = Nobody, !.exit = Nobody, !.sym = Front(@)]
  BY <1>1, <1>2, <1>3 DEF FunctionEnd, LeaveFunction, Inside, InBody, Closes, Sound
<1>6. Framed(gen, r)
  <2>1. "function" \in Frames
    BY DEF Frames
  <2> QED
    BY <1>1, <1>5, <2>1, NestedTop DEF Last
<1>7. Step(gen, a, {}) /\ Gen(a, {})
  BY <1>2, <1>5, <1>6, CloseFrameStep DEF Step
<1>8. Step(a, b, {}) /\ Gen(b, {})
  BY <1>3, <1>7, ClearStep DEF Locals, Step
<1>9. /\ IsGen(c) /\ c.cur = Nobody /\ c.slots = 0
      /\ \A x \in Fields \ {"cur", "slots", "exit"} : c[x] = b[x]
  BY <1>4, <1>8 DEF Gen, IsGen, Fields
<1>10. c.index = b.index /\ \A x \in IdleFields : c[x] = b[x]
  BY <1>9 DEF Fields, IdleFields
<1>11. Nobody \in 0 .. Len(b.recs) /\ b.index \in Nat
  BY <1>8, SeqIs DEF Gen, Rest, Core, RecsOK, Nobody
<1>12. Step(b, c, {})
  BY <1>8, <1>9, <1>10, <1>11, IdleStep
<1>13. Step(gen, b, {})
  BY <1>5, <1>7, <1>8, StepTwice
<1>14. Step(gen, c, {})
  BY <1>5, <1>12, <1>13, StepTwice
<1>15. Moved(gen, c, gen.sym)
  BY <1>5, <1>14, MovedSelf, MovedStep
<1>16. gen' = PopSym(c)
  BY <1>4, <1>5, <1>8 DEF PopSym, Gen, IsGen, Fields
<1>17. Moved(gen, gen', Front(gen.sym))
  BY <1>5, <1>15, <1>16, MovedPop
<1> QED
  BY <1>5, <1>17, CloseOne

(***************************************************************************)
(* Lambdas and handlers.                                                   *)
(***************************************************************************)
\* Fewer records may be used by the code than are in order.
LEMMA GenLess ==
  ASSUME NEW g, NEW X, Gen(g, X)
  PROVE  Gen(g, {})
  BY DEF Gen, Core, Exact

\* The records a new lambda cannot touch: functions, and labels made before it.
Earlier(g, r) ==
  /\ r \in DOMAIN g.recs
  /\ \/ g.recs[r].kind = "func"
     \/ g.recs[r].kind = "label" /\ \E i \in Nat : g.recs[r].name = <<"gen", i>> /\ i < g.index
\* The jump over a lambda touches none of them.
LEMMA JumpOverStep ==
  ASSUME NEW g, NEW h, NEW X, Gen(g, X), h = JumpOver(g)
  PROVE  /\ Step(g, h, X)
         /\ \A r : Earlier(g, r) => r \in DOMAIN h.recs /\ h.recs[r] = g.recs[r]
<1>1. PICK c : c = CreateLabel(g)
  OBVIOUS
<1>2. PICK n : n = Record("label", <<"gen", g.index>>, Undef, g.cur, Table(g))
  OBVIOUS
<1>3. Step(g, c, X) /\ Adds(g, c, n) /\ Gen(c, X)
  BY <1>1, <1>2, CreateLabelStep DEF Step
<1>4. PICK j : j = JumpTo(c, "JMP", <<"gen", g.index>>, "skip")
  OBVIOUS
<1>5. Step(c, j, X) /\ Others(c, j, "label", <<"gen", g.index>>) /\ Gen(j, X)
  <2>1. "JMP" \in Jumps
    BY DEF Jumps, Branches
  <2> QED
    BY <1>3, <1>4, <2>1, JumpToStep DEF Step
<1>6. h = [j EXCEPT !.skip = Newest(g) + 1]
  BY <1>1, <1>4 DEF JumpOver
<1>7. IsGen(h) /\ \A x \in Fields \ {"skip"} : h[x] = j[x]
  BY <1>5, <1>6 DEF Gen, IsGen, Fields
<1>8. Step(j, h, X) /\ h.recs = j.recs
  BY <1>5, <1>7, QuietStep DEF QuietFields
<1>9. Step(g, j, X)
  BY <1>3, <1>5, StepTwice
<1>10. Step(g, h, X)
  BY <1>8, <1>9, StepTwice
<1>11. ASSUME NEW r, Earlier(g, r)
       PROVE  r \in DOMAIN h.recs /\ h.recs[r] = g.recs[r]
  <2>1. r \in DOMAIN g.recs /\ r \in DOMAIN c.recs /\ c.recs[r] = g.recs[r]
    BY <1>3, <1>11 DEF Adds, Earlier
  <2>2. ~(g.recs[r].kind = "label" /\ g.recs[r].name = <<"gen", g.index>>)
    <3>1. CASE g.recs[r].kind = "func"
      BY <3>1
    <3>2. ASSUME NEW i \in Nat, g.recs[r].name = <<"gen", i>>, i < g.index
          PROVE  g.recs[r].name # <<"gen", g.index>>
      <4>1. i # g.index
        BY <3>2 DEF Gen, Rest
      <4> QED
        BY <3>2, <4>1
    <3> QED
      BY <1>11, <3>1, <3>2 DEF Earlier
  <2> QED
    BY <1>5, <1>8, <2>1, <2>2 DEF Others
<1> QED
  BY <1>10, <1>11

\* The record of the lambda has no address and nothing refers to it.
Unused(g, m) ==
  /\ m \in DOMAIN g.recs /\ g.recs[m].kind \in {"label", "func"}
  /\ g.recs[m].off = Undef /\ g.recs[m].list = {}
Entered(g, s) ==
  /\ s.sym = g.sym /\ s.tables = g.tables
  /\ \E f : s.saved = Append(g.saved, f)

\* sp_push_lambda saves the frame and starts a table.
LEMMA PushLambdaMove ==
  ASSUME NEW g, NEW h, NEW X, NEW r, Gen(g, X), r \in DOMAIN g.recs, h = PushLambda(g, r)
  PROVE  Move(g, h, X) /\ Entered(g, h) /\ h.recs = g.recs /\ Table(h) # 0
<1>1. PICK f : f = [slots |-> g.slots, cur |-> g.cur, exit |-> g.exit]
  OBVIOUS
<1>2. PICK n : n = g.lastTab + 1
  OBVIOUS
<1>3. /\ IsGen(h) /\ h.saved = Append(g.saved, f) /\ h.tabs = Append(g.tabs, n) /\ h.lastTab = n
      /\ h.slots = 0 /\ h.cur = r
      /\ \A x \in Fields \ {"saved", "tabs", "lastTab", "slots", "cur"} : h[x] = g[x]
  BY <1>1, <1>2 DEF PushLambda, Gen, IsGen, Fields
<1>4. /\ h.recs = g.recs /\ h.code = g.code /\ h.off = g.off /\ h.pool = g.pool /\ h.index = g.index
      /\ h.sym = g.sym /\ h.tables = g.tables
  BY <1>3 DEF Fields
<1>5. /\ IsSeq(g.tabs) /\ IsSeq(g.saved) /\ g.lastTab \in Nat /\ g.cur \in 0 .. Len(g.recs)
      /\ g.slots \in Nat
      /\ \A i \in DOMAIN g.tabs : g.tabs[i] # 0
      /\ \A i \in DOMAIN g.saved : IsFrame(g.saved[i], Len(g.recs))
  BY DEF Gen, Rest
<1>6. n \in Nat /\ n # 0
  BY <1>2, <1>5
<1>7. /\ IsSeq(h.tabs) /\ Len(h.tabs) = Len(g.tabs) + 1 /\ h.tabs[Len(g.tabs) + 1] = n
      /\ \A i \in DOMAIN h.tabs : h.tabs[i] # 0
  <2>1. /\ IsSeq(h.tabs) /\ DOMAIN h.tabs = 1 .. (Len(g.tabs) + 1) /\ DOMAIN g.tabs = 1 .. Len(g.tabs)
        /\ Len(g.tabs) \in Nat /\ Len(h.tabs) = Len(g.tabs) + 1
        /\ \A i \in 1 .. Len(g.tabs) : h.tabs[i] = g.tabs[i]
        /\ h.tabs[Len(g.tabs) + 1] = n
    BY <1>3, <1>5, AppendIs
  <2>2. \A i \in DOMAIN h.tabs : i \in DOMAIN g.tabs \/ i = Len(g.tabs) + 1
    BY <2>1
  <2> QED
    BY <1>5, <1>6, <2>1, <2>2
<1>8. IsSeq(h.saved) /\ \A i \in DOMAIN h.saved : IsFrame(h.saved[i], Len(g.recs))
  <2>1. /\ IsSeq(h.saved) /\ DOMAIN h.saved = 1 .. (Len(g.saved) + 1)
        /\ DOMAIN g.saved = 1 .. Len(g.saved) /\ Len(g.saved) \in Nat
        /\ \A i \in 1 .. Len(g.saved) : h.saved[i] = g.saved[i]
        /\ h.saved[Len(g.saved) + 1] = f
    BY <1>3, <1>5, AppendIs
  <2>2. \A i \in DOMAIN h.saved : i \in DOMAIN g.saved \/ i = Len(g.saved) + 1
    BY <2>1
  <2>3. IsFrame(f, Len(g.recs))
    BY <1>1, <1>5 DEF IsFrame
  <2> QED
    BY <1>5, <2>1, <2>2, <2>3
<1>9. r \in 0 .. Len(g.recs)
  BY SeqIs DEF Gen, Core, RecsOK
<1>10. Rest(h)
  <2>1. /\ IsSeq(g.sym) /\ g.index \in Nat
        /\ IsSeq(g.tables) /\ \A i \in DOMAIN g.tables : IsTable(g.tables[i])
        /\ IsSeq(g.pool) /\ \A i \in DOMAIN g.pool : g.pool[i].at \in Nat /\ g.pool[i].bytes \in Nat
    BY DEF Gen, Rest
  <2>2. h.lastTab \in Nat /\ h.slots \in Nat /\ h.cur \in 0 .. Len(h.recs)
    BY <1>3, <1>4, <1>6, <1>9
  <2> QED
    BY <1>4, <1>7, <1>8, <2>1, <2>2 DEF Rest
<1>11. Move(g, h, X)
  BY <1>3, <1>4, <1>10, MoveSame
<1>12. Table(h) # 0
  BY <1>6, <1>7 DEF Table, Last
<1> QED
  BY <1>3, <1>4, <1>11, <1>12 DEF Entered

\* The start of a lambda: its record is unused, and earlier ones are what they were.
LEMMA StartLambdaMove ==
  ASSUME NEW g, NEW s, NEW X, NEW m, Gen(g, X), s = StartLambda(g), m = Len(g.recs) + 1
  PROVE  /\ Move(g, s, X \cup {m}) /\ Entered(g, s) /\ Unused(s, m)
         /\ \A r : Earlier(g, r) => r \in DOMAIN s.recs /\ s.recs[r] = g.recs[r]
<1>1. PICK n : n = Record("func", <<"lambda", g.index>>, Undef, g.cur, 0)
  OBVIOUS
<1>2. PICK a : a = Insert(g, n)
  OBVIOUS
<1>3. PICK b : b = [a EXCEPT !.index = @ + 1]
  OBVIOUS
<1>4. PICK c : c = JumpOver(b)
  OBVIOUS
<1>5. PICK d : d = PushLambda(c, m)
  OBVIOUS
<1>6. PICK e : e = [d.recs[m] EXCEPT !.tab = Table(d)]
  OBVIOUS
<1>7. s = Update(d, m, e)
  BY <1>1, <1>2, <1>3, <1>4, <1>5, <1>6 DEF StartLambda, Newest
<1>8. PICK Y : Y = X \cup {m}
  OBVIOUS
<1>9. /\ Step(g, a, Y) /\ Adds(g, a, n) /\ Gen(a, Y)
  <2>1. Fresh(g, n)
    BY <1>1, FreshIs
  <2> QED
    BY <1>2, <1>8, <2>1, InsertStep DEF Step
<1>10. IsGen(b) /\ b.index = a.index + 1 /\ \A x \in Fields \ {"index"} : b[x] = a[x]
  BY <1>3, <1>9 DEF Gen, IsGen, Fields
<1>11. a.index = g.index /\ g.index \in Nat /\ g.slots \in Nat /\ a.slots \in Nat
  BY <1>2, <1>9 DEF Insert, Gen, Rest, IsGen, Fields
<1>12. Counts(a, b) /\ b.recs = a.recs
  BY <1>10, <1>11 DEF Counts, Fields
<1>13. Step(g, b, Y) /\ Gen(b, Y)
  BY <1>9, <1>12, CountStep DEF Step
<1>14. Step(b, c, Y) /\ Gen(c, Y) /\ \A r : Earlier(b, r) => r \in DOMAIN c.recs /\ c.recs[r] = b.recs[r]
  BY <1>4, <1>13, JumpOverStep DEF Step
<1>15. n.kind = "func" /\ n.off = Undef /\ n.list = {} /\ n.tab = 0 /\ n.parent = g.cur /\ IsRec(n)
  BY <1>1, RecordIs
<1>16. b.recs[m] = n /\ m \in DOMAIN b.recs /\ \A r \in DOMAIN g.recs : r \in DOMAIN b.recs /\ b.recs[r] = g.recs[r]
  BY <1>9, <1>12 DEF Adds
<1>17. \A r : Earlier(g, r) => Earlier(b, r) /\ b.recs[r] = g.recs[r]
  BY <1>10, <1>11, <1>16 DEF Earlier
<1>18. Earlier(b, m)
  BY <1>15, <1>16 DEF Earlier
<1>19. c.recs[m] = n /\ m \in DOMAIN c.recs /\ \A r : Earlier(g, r) => r \in DOMAIN c.recs /\ c.recs[r] = g.recs[r]
  BY <1>14, <1>16, <1>17, <1>18
<1>20. Move(c, d, Y) /\ Entered(c, d) /\ d.recs = c.recs /\ Table(d) # 0
  BY <1>5, <1>14, <1>19, PushLambdaMove
<1>21. /\ IsRec(e) /\ e.kind = "func" /\ e.off = Undef /\ e.list = {} /\ e.parent = n.parent
  BY <1>6, <1>15, <1>19, <1>20 DEF IsRec, RecFields
<1>22. Gen(d, Y) /\ d.recs[m] = n /\ m \in DOMAIN d.recs
  BY <1>19, <1>20 DEF Move
<1>23. /\ IsGen(s) /\ s.recs = [d.recs EXCEPT ![m] = e] /\ \A x \in Fields \ {"recs"} : s[x] = d[x]
  BY <1>7, <1>22 DEF Update, Gen, IsGen, Fields
<1>24. Core(s, Y) /\ Grows(d, s)
  <2>1. s.code = d.code /\ s.off = d.off
    BY <1>23 DEF Fields
  <2>2. m \in Y
    BY <1>8
  <2>3. d.recs[m].parent \in 0 .. Len(d.recs)
    BY <1>22 DEF Gen, Core, RecsOK
  <2>4. /\ Core(d, Y) /\ e.kind = d.recs[m].kind /\ e.off = d.recs[m].off /\ e.list = d.recs[m].list
        /\ e.parent \in 0 .. Len(d.recs)
    BY <1>15, <1>21, <1>22, <2>3 DEF Gen
  <2>5. e.tab # 0 => d.recs[m].tab # 0 \/ m \in Y
    BY <2>2
  <2>6. IsRec(e) /\ m \in DOMAIN d.recs /\ s.recs = [d.recs EXCEPT ![m] = e]
    BY <1>21, <1>22, <1>23
  <2> QED
    BY <2>1, <2>4, <2>5, <2>6, RecordChanged
<1>25. Step(d, s, Y)
  BY <1>22, <1>23, <1>24, CoreStep
<1>26. Changed(d.recs, s.recs, m, e)
  BY <1>22, <1>23, ExceptIs DEF Gen, Core, RecsOK
<1>27. Unused(s, m)
  BY <1>21, <1>22, <1>26 DEF Unused, Changed
<1>28. ASSUME NEW r, Earlier(g, r)
       PROVE  r \in DOMAIN s.recs /\ s.recs[r] = g.recs[r]
  <2>1. r # m
    BY <1>28, SeqIs DEF Earlier, Gen, Core, RecsOK
  <2> QED
    BY <1>19, <1>20, <1>26, <1>28, <2>1 DEF Changed
<1>29. Step(g, c, Y)
  BY <1>13, <1>14, StepTwice
<1>30. Move(g, c, Y) /\ c.sym = g.sym /\ c.saved = g.saved /\ c.tables = g.tables
  BY <1>29, StepIsMove
<1>31. Move(d, s, Y) /\ s.sym = d.sym /\ s.saved = d.saved /\ s.tables = d.tables
  BY <1>25, StepIsMove
<1>32. Move(g, d, Y)
  BY <1>20, <1>30, MoveTwice
<1>33. Move(g, s, Y)
  BY <1>31, <1>32, MoveTwice
<1>34. Entered(g, s)
  BY <1>20, <1>30, <1>31 DEF Entered
<1> QED
  BY <1>8, <1>27, <1>28, <1>33, <1>34

\* sp_start_lambda_body gives an unused record the address of SCTX.
LEMMA LambdaBodyStep ==
  ASSUME NEW g, NEW h, NEW X, NEW r, Gen(g, X), r \in X, Unused(g, r), h = LambdaBody(g, r)
  PROVE  Step(g, h, X) /\ Framed(h, r)
<1>1. PICK n : n = [g.recs[r] EXCEPT !.off = g.off]
  OBVIOUS
<1>2. PICK a : a = Update(g, r, n)
  OBVIOUS
<1>3. PICK b : b = [a EXCEPT !.cur = r]
  OBVIOUS
<1>4. PICK c : c = CreateVariable(b, g.recs[r].name)
  OBVIOUS
<1>5. PICK d : d = OpenFrame(c)
  OBVIOUS
<1>6. h = [d EXCEPT !.exit = Newest(c) + 1]
  BY <1>1, <1>2, <1>3, <1>4, <1>5 DEF LambdaBody
<1>7. /\ IsGen(g) /\ Core(g, X) /\ r \in DOMAIN g.recs /\ g.recs[r].kind \in {"label", "func"}
      /\ g.recs[r].off = Undef /\ g.recs[r].list = {} /\ IsRec(g.recs[r]) /\ g.off \in Nat
  BY DEF Gen, Unused, Core, RecsOK, CodeOK
<1>8. /\ IsGen(a) /\ a.recs = [g.recs EXCEPT ![r] = n] /\ \A x \in Fields \ {"recs"} : a[x] = g[x]
  BY <1>2, <1>7 DEF Update, IsGen, Fields
<1>9. Becomes(g.recs[r], n, g.off, {})
  BY <1>1, <1>7 DEF Becomes, IsRec, RecFields
<1>10. a.code = g.code /\ a.off = g.off
  BY <1>8 DEF Fields
<1>11. Core(a, X) /\ Grows(g, a)
  <2>1. g.recs[r].off = Undef /\ g.recs[r].list = {} /\ (g.recs[r].tab # 0 \/ r \in X)
    BY <1>7
  <2> QED
    BY <1>7, <1>8, <1>9, <1>10, <2>1, Relocated
<1>12. Step(g, a, X) /\ Gen(a, X)
  BY <1>8, <1>11, CoreStep DEF Step
<1>13. Changed(g.recs, a.recs, r, n)
  BY <1>7, <1>8, ExceptIs DEF Core, RecsOK
<1>14. /\ r \in DOMAIN a.recs /\ a.recs[r].kind \in {"label", "func"} /\ a.recs[r].off = a.off
  BY <1>7, <1>9, <1>10, <1>13 DEF Becomes, Changed
<1>15. IsGen(b) /\ b.cur = r /\ \A x \in Fields \ {"cur"} : b[x] = a[x]
  BY <1>3, <1>12 DEF Gen, IsGen, Fields
<1>16. b.index = a.index /\ b.slots = a.slots /\ \A x \in IdleFields : b[x] = a[x]
  BY <1>15 DEF Fields, IdleFields
<1>17. r \in 0 .. Len(a.recs) /\ a.index \in Nat /\ a.slots \in Nat
  <2>1. IsSeq(a.recs) /\ a.index \in Nat /\ a.slots \in Nat
    BY <1>12 DEF Gen, Rest, Core, RecsOK
  <2> QED
    BY <1>14, <2>1, SeqIs
<1>18. Step(a, b, X) /\ b.recs = a.recs /\ b.off = a.off
  <2>1. b.cur \in 0 .. Len(a.recs) /\ b.slots \in Nat /\ b.index \in Nat
    BY <1>15, <1>16, <1>17
  <2> QED
    BY <1>12, <1>15, <1>16, <2>1, IdleStep
<1>19. Gen(b, X)
  BY <1>18 DEF Step
<1>20. /\ Step(b, c, X) /\ c.off = b.off /\ r \in DOMAIN c.recs /\ c.recs[r] = b.recs[r]
  <2>1. b.recs[r].kind # "var" /\ r \in DOMAIN b.recs
    BY <1>14, <1>18
  <2> QED
    BY <1>4, <1>19, <2>1, CreateVariableStep
<1>21. Gen(c, X) /\ c.recs[r].kind \in {"label", "func"} /\ c.recs[r].off = c.off
  BY <1>14, <1>18, <1>20 DEF Step
<1>22. Step(c, d, X) /\ Framed(d, r)
  BY <1>5, <1>20, <1>21, OpenFrameStep
<1>23. Gen(d, X)
  BY <1>22 DEF Step
<1>24. IsGen(h) /\ \A x \in Fields \ {"exit"} : h[x] = d[x]
  BY <1>6, <1>23 DEF Gen, IsGen, Fields
<1>25. Step(d, h, X)
  BY <1>23, <1>24, QuietStep DEF QuietFields
<1>26. Framed(h, r)
  BY <1>22, <1>23, <1>25, GrowsKeeps DEF Step, Keeps, Gen
<1>27. Step(g, b, X)
  BY <1>12, <1>18, StepTwice
<1>28. Step(g, c, X)
  BY <1>20, <1>27, StepTwice
<1>29. Step(g, d, X)
  BY <1>22, <1>28, StepTwice
<1>30. Step(g, h, X)
  BY <1>25, <1>29, StepTwice
<1> QED
  BY <1>26, <1>30

\* A lambda keeps the invariant.
LEMMA LambdaSound ==
  ASSUME Sound(gen, open), Lambda
  PROVE  Sound(gen', open')
<1>1. PICK m : m = Len(gen.recs) + 1
  OBVIOUS
<1>2. PICK s : s = StartLambda(gen)
  OBVIOUS
<1>3. PICK b : b = LambdaBody(s, m)
  OBVIOUS
<1>4. PICK h : h = PushSym(b, m)
  OBVIOUS
<1>5. Gen(gen, {}) /\ Nested(gen, open) /\ open' = Append(open, "lambda") /\ gen' = h
  BY <1>1, <1>2, <1>3, <1>4 DEF Lambda, Opens, Sound, Newest
<1>6. PICK X : X = {} \cup {m}
  OBVIOUS
<1>7. Move(gen, s, X) /\ Entered(gen, s) /\ Unused(s, m)
  BY <1>1, <1>2, <1>5, <1>6, StartLambdaMove
<1>8. Gen(s, X) /\ m \in X
  BY <1>6, <1>7 DEF Move
<1>9. Step(s, b, X) /\ Framed(b, m)
  BY <1>3, <1>7, <1>8, LambdaBodyStep
<1>10. Move(s, b, X) /\ b.sym = s.sym /\ b.saved = s.saved /\ b.tables = s.tables /\ Gen(b, X)
  BY <1>9, StepIsMove
<1>11. Move(gen, b, X)
  BY <1>5, <1>7, <1>10, MoveTwice
<1>12. Move(gen, b, {}) /\ Gen(b, {})
  BY <1>11, GenLess DEF Move
<1>13. /\ Move(b, h, {}) /\ h.sym = Append(b.sym, m) /\ h.saved = b.saved /\ h.tables = b.tables
  BY <1>4, <1>12, PushSymMove
<1>14. Move(gen, h, {})
  BY <1>5, <1>12, <1>13, MoveTwice
<1>15. Framed(h, m)
  BY <1>9, <1>12, <1>13, GrowsKeeps DEF Move, Gen
<1>16. PICK f : h.saved = Append(gen.saved, f)
  BY <1>7, <1>10, <1>13 DEF Entered
<1>17. h.sym = Append(gen.sym, m) /\ h.tables = gen.tables
  BY <1>7, <1>10, <1>13 DEF Entered
<1>18. IsSeq(gen.sym) /\ IsSeq(gen.saved) /\ Len(gen.tables) \in Nat
  BY <1>5, SeqIs DEF Gen, Rest
<1>19. Len(h.saved) = Len(gen.saved) + 1
  BY <1>16, <1>18, AppendIs
<1>20. /\ Len(gen.sym) \in Nat /\ Len(h.sym) = Len(gen.sym) + 1 /\ h.sym[Len(gen.sym) + 1] = m
       /\ \A j \in 1 .. Len(gen.sym) : h.sym[j] = gen.sym[j]
  BY <1>17, <1>18, AppendIs
<1>21. /\ "lambda" \in Kinds /\ SymWidth["lambda"] = 1 /\ SavedWidth["lambda"] = 1
       /\ TableWidth["lambda"] = 0
  BY DEF Kinds, SymWidth, SavedWidth, TableWidth
<1>22. m \in DOMAIN h.recs
  BY <1>15 DEF Framed
<1>23. Pushed(gen, h, "lambda")
  BY <1>15, <1>17, <1>18, <1>19, <1>20, <1>21, <1>22 DEF Pushed
<1> QED
  BY <1>5, <1>14, <1>21, <1>23, NestedPush DEF Sound, Move

\* sp_pop_lambda restores a frame that was saved.
LEMMA PopLambdaMove ==
  ASSUME NEW g, NEW h, Gen(g, {}), 1 <= Len(g.saved), h = PopLambda(g)
  PROVE  /\ Move(g, h, {}) /\ h.sym = g.sym /\ h.tables = g.tables /\ h.saved = Front(g.saved)
<1>1. PICK f : f = Last(g.saved)
  OBVIOUS
<1>2. /\ IsGen(h) /\ h.tabs = Front(g.tabs) /\ h.saved = Front(g.saved) /\ h.slots = f.slots
      /\ h.cur = f.cur
      /\ \A x \in Fields \ {"tabs", "saved", "slots", "cur", "exit"} : h[x] = g[x]
  BY <1>1 DEF PopLambda, Gen, IsGen, Fields
<1>3. /\ h.recs = g.recs /\ h.code = g.code /\ h.off = g.off /\ h.pool = g.pool /\ h.index = g.index
      /\ h.sym = g.sym /\ h.tables = g.tables /\ h.lastTab = g.lastTab
  BY <1>2 DEF Fields
<1>4. /\ IsSeq(g.tabs) /\ IsSeq(g.saved)
      /\ \A i \in DOMAIN g.tabs : g.tabs[i] # 0
      /\ \A i \in DOMAIN g.saved : IsFrame(g.saved[i], Len(g.recs))
  BY DEF Gen, Rest
<1>5. f.slots \in Nat /\ f.cur \in 0 .. Len(g.recs)
  <2>1. Len(g.saved) \in DOMAIN g.saved
    BY <1>4, SeqIs
  <2> QED
    BY <1>1, <1>4, <2>1 DEF Last, IsFrame
<1>6. IsSeq(h.tabs) /\ \A i \in DOMAIN h.tabs : h.tabs[i] # 0
  BY <1>2, <1>4, FrontIs
<1>7. IsSeq(h.saved) /\ \A i \in DOMAIN h.saved : IsFrame(h.saved[i], Len(h.recs))
  <2>1. IsSeq(h.saved) /\ \A i \in DOMAIN h.saved : i \in DOMAIN g.saved /\ h.saved[i] = g.saved[i]
    BY <1>2, <1>4, FrontIs
  <2> QED
    BY <1>3, <1>4, <2>1
<1>8. Rest(h)
  <2>1. /\ IsSeq(g.sym) /\ g.index \in Nat /\ g.lastTab \in Nat
        /\ IsSeq(g.tables) /\ \A i \in DOMAIN g.tables : IsTable(g.tables[i])
        /\ IsSeq(g.pool) /\ \A i \in DOMAIN g.pool : g.pool[i].at \in Nat /\ g.pool[i].bytes \in Nat
    BY DEF Gen, Rest
  <2>2. h.slots \in Nat /\ h.cur \in 0 .. Len(h.recs)
    BY <1>2, <1>3, <1>5
  <2> QED
    BY <1>3, <1>6, <1>7, <2>1, <2>2 DEF Rest
<1> QED
  BY <1>2, <1>3, <1>8, MoveSame

\* The end of a lambda: its frame is closed, the one around it is restored.
LEMMA EndLambdaMove ==
  ASSUME NEW g, NEW h, NEW r, Gen(g, {}), Framed(g, r), 1 <= Len(g.saved), h = EndLambda(g, r)
  PROVE  /\ Move(g, h, {}) /\ h.sym = g.sym /\ h.tables = g.tables /\ h.saved = Front(g.saved)
         /\ Framed(h, r)
<1>1. PICK a : a = CloseLambda(g, r)
  OBVIOUS
<1>2. PICK b : b = Clear(a, Locals(a, r))
  OBVIOUS
<1>3. PICK c : c = PopLambda(b)
  OBVIOUS
<1>4. h = PlaceSkip(c)
  BY <1>1, <1>2, <1>3 DEF EndLambda, ClearLambda
<1>5. Step(g, a, {}) /\ Gen(a, {})
  BY <1>1, CloseLambdaStep DEF Step
<1>6. Step(a, b, {})
  BY <1>2, <1>5, ClearStep DEF Locals
<1>7. Step(g, b, {})
  BY <1>5, <1>6, StepTwice
<1>8. Move(g, b, {}) /\ Gen(b, {}) /\ b.sym = g.sym /\ b.saved = g.saved /\ b.tables = g.tables
  BY <1>7, StepIsMove
<1>9. /\ Move(b, c, {}) /\ c.sym = b.sym /\ c.tables = b.tables /\ c.saved = Front(b.saved)
  <2>1. 1 <= Len(b.saved)
    BY <1>8
  <2> QED
    BY <1>3, <1>8, <2>1, PopLambdaMove
<1>10. Move(g, c, {}) /\ Gen(c, {})
  BY <1>8, <1>9, MoveTwice DEF Move
<1>11. Step(c, h, {})
  <2>1. CASE c.skip = Nobody
    BY <1>4, <1>10, <2>1, StepSelf DEF PlaceSkip
  <2>2. CASE c.skip # Nobody
    <3>1. PICK d : d = NewLabel(c, c.recs[c.skip].name)
      OBVIOUS
    <3>2. Step(c, d, {}) /\ Gen(d, {})
      BY <1>10, <3>1, NewLabelStep DEF Step
    <3>3. h = [d EXCEPT !.skip = Nobody]
      BY <1>4, <2>2, <3>1 DEF PlaceSkip
    <3>4. IsGen(h) /\ \A x \in Fields \ {"skip"} : h[x] = d[x]
      BY <3>2, <3>3 DEF Gen, IsGen, Fields
    <3>5. Step(d, h, {})
      BY <3>2, <3>4, QuietStep DEF QuietFields
    <3> QED
      BY <1>10, <3>2, <3>5, StepTwice
  <2> QED
    BY <2>1, <2>2
<1>12. Move(c, h, {}) /\ h.sym = c.sym /\ h.saved = c.saved /\ h.tables = c.tables
  BY <1>11, StepIsMove
<1>13. Move(g, h, {})
  BY <1>10, <1>12, MoveTwice
<1>14. Framed(h, r)
  BY <1>13, GrowsKeeps DEF Move, Gen
<1> QED
  BY <1>8, <1>9, <1>12, <1>13, <1>14

\* The end of a lambda and the assignment of its value keep the invariant.
LEMMA LambdaEndSound ==
  ASSUME NEW v \in Variables, Sound(gen, open), LambdaEnd(v)
  PROVE  Sound(gen', open')
<1>1. PICK r : r = Last(gen.sym)
  OBVIOUS
<1>2. PICK a : a = EndLambda(gen, r)
  OBVIOUS
<1>3. PICK b : b = EmitRef(a, "F2O", r, "ref")
  OBVIOUS
<1>4. PICK c : c = StoreNew(b, v)
  OBVIOUS
<1>5. PICK h : h = PopSym(c)
  OBVIOUS
<1>6. /\ Gen(gen, {}) /\ Nested(gen, open) /\ open # <<>> /\ Last(open) = "lambda" /\ open' = Front(open)
      /\ gen' = h
  BY <1>1, <1>2, <1>3, <1>4, <1>5 DEF LambdaEnd, Inside, InBody, Closes, Sound
<1>7. SymWidth["lambda"] = 1 /\ SavedWidth["lambda"] = 1 /\ TableWidth["lambda"] = 0 /\ "lambda" \in Frames
  BY DEF Kinds, SymWidth, SavedWidth, TableWidth, Frames
<1>8. Framed(gen, r) /\ 1 <= Len(gen.saved) /\ 1 <= Len(gen.sym)
  BY <1>1, <1>6, <1>7, NestedTop DEF Last
<1>9. /\ Move(gen, a, {}) /\ a.sym = gen.sym /\ a.tables = gen.tables /\ a.saved = Front(gen.saved)
      /\ Framed(a, r)
  BY <1>2, <1>6, <1>8, EndLambdaMove
<1>10. Gen(a, {}) /\ r \in DOMAIN a.recs /\ a.recs[r].kind # "table" /\ "F2O" \in Jumps
  BY <1>9 DEF Move, Framed, Jumps
<1>11. Step(a, b, {}) /\ Gen(b, {})
  BY <1>3, <1>10, EmitRefStep DEF Step
<1>12. Step(b, c, {})
  BY <1>4, <1>11, StoreNewStep
<1>13. Step(a, c, {})
  BY <1>10, <1>11, <1>12, StepTwice
<1>14. Move(a, c, {}) /\ Gen(c, {}) /\ c.sym = a.sym /\ c.saved = a.saved /\ c.tables = a.tables
  BY <1>13, StepIsMove
<1>15. /\ Move(c, h, {}) /\ h.sym = Front(c.sym) /\ h.saved = c.saved /\ h.tables = c.tables
  BY <1>5, <1>14, PopSymMove
<1>16. Move(gen, c, {})
  BY <1>6, <1>9, <1>14, MoveTwice
<1>17. Move(gen, h, {})
  BY <1>6, <1>15, <1>16, MoveTwice
<1>18. h.sym = Front(gen.sym) /\ h.saved = Front(gen.saved) /\ h.tables = gen.tables
  BY <1>9, <1>14, <1>15
<1>19. IsSeq(gen.sym) /\ IsSeq(gen.saved) /\ Len(gen.tables) \in Nat
  BY <1>6, SeqIs DEF Gen, Rest
<1>20. gen.sym # <<>> /\ gen.saved # <<>>
  BY <1>8
<1>21. Len(h.saved) = Len(gen.saved) - 1
  BY <1>18, <1>19, <1>20, FrontIs
<1>22. IsSeq(h.sym) /\ Len(h.sym) = Len(gen.sym) - 1 /\ \A i \in DOMAIN h.sym : h.sym[i] = gen.sym[i]
  BY <1>18, <1>19, <1>20, FrontIs
<1>23. DOMAIN h.sym = 1 .. Len(h.sym)
  BY <1>22, SeqIs
<1>24. Popped(gen, h, Last(open))
  BY <1>6, <1>7, <1>18, <1>19, <1>21, <1>22, <1>23 DEF Popped
<1> QED
  BY <1>6, <1>17, <1>24, NestedPop DEF Sound, Move

\* Two entries are appended at once.
LEMMA ConcatTwo ==
  ASSUME NEW t, NEW a, NEW b, IsSeq(t)
  PROVE  t \o <<a, b>> = Append(Append(t, a), b)
<1>1. PICK S : S = Range(t) \cup {a, b}
  OBVIOUS
<1>2. t \in Seq(S) /\ a \in S /\ b \in S
  BY <1>1 DEF IsSeq
<1> HIDE <1>1
<1>3. <<a, b>> \in Seq(S) /\ Len(<<a, b>>) = 2
  BY <1>2
<1>4. PICK u : u = t \o <<a, b>>
  OBVIOUS
<1>5. /\ u \in Seq(S) /\ Len(u) = Len(t) + 2 /\ Len(t) \in Nat
      /\ \A i \in 1 .. Len(t) : u[i] = t[i]
      /\ u[Len(t) + 1] = a /\ u[Len(t) + 2] = b
  BY <1>2, <1>3, <1>4
<1>6. PICK w : w = Append(Append(t, a), b)
  OBVIOUS
<1>7. /\ w \in Seq(S) /\ Len(w) = Len(t) + 2
      /\ \A i \in 1 .. Len(t) : w[i] = t[i]
      /\ w[Len(t) + 1] = a /\ w[Len(t) + 2] = b
  BY <1>2, <1>6
<1>8. \A i \in 1 .. (Len(t) + 2) : i \in 1 .. Len(t) \/ i = Len(t) + 1 \/ i = Len(t) + 2
  BY <1>5
<1>9. \A i \in 1 .. Len(u) : u[i] = w[i]
  BY <1>5, <1>7, <1>8
<1>10. u = w
  BY <1>5, <1>7, <1>9
<1> QED
  BY <1>4, <1>6, <1>10

\* catch(v): the label of the handler becomes the record of a frame.
LEMMA HandlerMove ==
  ASSUME NEW g, NEW cr, NEW m, NEW v, NEW b, Handler(g, cr), m = Len(g.recs) + 1,
         b = LambdaBody(HandlerParam(StartLambda(g), v), cr)
  PROVE  Move(g, b, {}) /\ Entered(g, b) /\ Framed(b, cr) /\ m \in DOMAIN b.recs
<1>1. PICK X : X = {cr} \cup {m}
  OBVIOUS
<1>2. PICK s : s = StartLambda(g)
  OBVIOUS
<1>3. PICK h : h = CreateVariable(s, v)
  OBVIOUS
<1>4. Gen(g, {cr}) /\ Earlier(g, cr) /\ Unused(g, cr)
  BY DEF Handler, Earlier, Unused
<1>5. /\ Move(g, s, X) /\ Entered(g, s) /\ Unused(s, m) /\ cr \in DOMAIN s.recs
      /\ s.recs[cr] = g.recs[cr]
  BY <1>1, <1>2, <1>4, StartLambdaMove
<1>6. Gen(s, X) /\ cr \in X /\ m \in DOMAIN s.recs
  BY <1>1, <1>5 DEF Move, Unused
<1>7. Step(s, h, X) /\ cr \in DOMAIN h.recs /\ h.recs[cr] = s.recs[cr]
  <2>1. s.recs[cr].kind # "var"
    BY <1>4, <1>5 DEF Unused
  <2> QED
    BY <1>3, <1>5, <1>6, <2>1, CreateVariableStep
<1>8. Gen(h, X) /\ Unused(h, cr)
  BY <1>4, <1>5, <1>7 DEF Unused, Step
<1>9. b = LambdaBody(h, cr)
  BY <1>2, <1>3 DEF HandlerParam
<1>10. Step(h, b, X) /\ Framed(b, cr)
  BY <1>6, <1>8, <1>9, LambdaBodyStep
<1>11. Step(s, b, X)
  BY <1>6, <1>7, <1>10, StepTwice
<1>12. Move(s, b, X) /\ b.sym = s.sym /\ b.saved = s.saved /\ b.tables = s.tables
  BY <1>11, StepIsMove
<1>13. Move(g, b, X)
  BY <1>4, <1>5, <1>12, MoveTwice
<1>14. Move(g, b, {})
  BY <1>13, GenLess DEF Move
<1>15. m \in DOMAIN b.recs
  BY <1>6, <1>12, GrowsKeeps DEF Move, Gen
<1> QED
  BY <1>5, <1>10, <1>12, <1>14, <1>15 DEF Entered

\* catch(v) keeps the invariant: three symbols are on the stack.
LEMMA CatchArgSound ==
  ASSUME NEW v \in Variables, Sound(gen, open), CatchArg(v)
  PROVE  Sound(gen', open')
<1>1. PICK g : g = StartCatch(gen)
  OBVIOUS
<1>2. PICK m : m = Len(g.recs) + 1
  OBVIOUS
<1>3. PICK b : b = LambdaBody(HandlerParam(StartLambda(g), v), Last(g.sym))
  OBVIOUS
<1>4. PICK t : t = Front(b.sym) \o <<m, Last(g.sym)>>
  OBVIOUS
<1>5. PICK c : c = [b EXCEPT !.sym = t]
  OBVIOUS
<1>6. /\ Gen(gen, {}) /\ open # <<>> /\ Last(open) = "try" /\ open' = Append(Front(open), "handler")
      /\ gen' = EmitVar(c, "OBJPOP", v)
  <2>1. gen' = EmitVar([LambdaBody(HandlerParam(StartLambda(g), v), Last(g.sym)) EXCEPT
                          !.sym = Front(@) \o <<Newest(g) + 1, Last(g.sym)>>], "OBJPOP", v)
    BY <1>1 DEF CatchArg
  <2>2. [b EXCEPT !.sym = Front(@) \o <<Newest(g) + 1, Last(g.sym)>>] = c
    BY <1>2, <1>4, <1>5 DEF Newest
  <2> QED
    BY <1>3, <2>1, <2>2 DEF CatchArg, Inside, InBody, Sound
<1>7. Nested(gen, Front(open))
  BY <1>6, LeaveTry DEF Sound
<1>8. PICK p, cr : /\ Moved(gen, g, Append(Append(gen.sym, p), cr))
                   /\ p \in DOMAIN g.recs /\ Handler(g, cr)
  BY <1>1, <1>6, StartCatchIs
<1>9. IsSeq(gen.sym) /\ IsSeq(gen.saved) /\ Len(gen.tables) \in Nat
  BY <1>6, SeqIs DEF Gen, Rest
<1>10. PICK u : u = Append(gen.sym, p)
  OBVIOUS
<1>11. /\ IsSeq(u) /\ Len(gen.sym) \in Nat /\ Len(u) = Len(gen.sym) + 1 /\ u[Len(gen.sym) + 1] = p
       /\ \A j \in 1 .. Len(gen.sym) : u[j] = gen.sym[j]
  BY <1>9, <1>10, AppendIs
<1>12. g.sym = Append(u, cr) /\ Last(g.sym) = cr
  <2>1. g.sym = Append(u, cr)
    BY <1>8, <1>10 DEF Moved
  <2>2. Len(g.sym) = Len(u) + 1 /\ g.sym[Len(u) + 1] = cr
    BY <1>11, <2>1, AppendIs
  <2> QED
    BY <2>1, <2>2 DEF Last
<1>13. Move(g, b, {}) /\ Entered(g, b) /\ Framed(b, cr) /\ m \in DOMAIN b.recs
  BY <1>2, <1>3, <1>8, <1>12, HandlerMove
<1>14. t = Append(Append(u, m), cr)
  <2>1. Front(b.sym) = u
    BY <1>11, <1>12, <1>13, FrontAppend DEF Entered
  <2> QED
    BY <1>4, <1>11, <1>12, <2>1, ConcatTwo
<1>15. PICK w : w = Append(u, m)
  OBVIOUS
<1>16. /\ IsSeq(w) /\ Len(w) = Len(u) + 1 /\ w[Len(u) + 1] = m
       /\ \A j \in 1 .. Len(u) : w[j] = u[j]
  BY <1>11, <1>15, AppendIs
<1>17. /\ IsSeq(t) /\ Len(t) = Len(w) + 1 /\ t[Len(w) + 1] = cr
       /\ \A j \in 1 .. Len(w) : t[j] = w[j]
  BY <1>14, <1>15, <1>16, AppendIs
<1>18. Gen(b, {}) /\ Gen(g, {})
  BY <1>8, <1>13 DEF Move, Moved
<1>19. /\ Move(b, c, {}) /\ c.sym = t /\ c.recs = b.recs /\ c.saved = b.saved /\ c.tables = b.tables
  BY <1>5, <1>17, <1>18, SymMove
<1>20. PICK h : h = gen'
  OBVIOUS
<1>21. Step(c, h, {}) /\ h.recs = c.recs
  BY <1>6, <1>19, <1>20, EmitVarStep DEF Move
<1>22. Move(c, h, {}) /\ h.sym = c.sym /\ h.saved = c.saved /\ h.tables = c.tables
  BY <1>21, StepIsMove
<1>23. Move(b, h, {})
  BY <1>18, <1>19, <1>22, MoveTwice
<1>24. Move(g, h, {})
  BY <1>13, <1>18, <1>23, MoveTwice
<1>25. Move(gen, h, {})
  BY <1>6, <1>8, <1>24, MoveTwice DEF Moved
<1>26. Framed(h, cr)
  BY <1>13, <1>18, <1>23, GrowsKeeps DEF Move, Gen
<1>27. p \in DOMAIN h.recs /\ m \in DOMAIN h.recs /\ cr \in DOMAIN h.recs
  <2>1. p \in DOMAIN h.recs
    BY <1>8, <1>18, <1>24, GrowsKeeps DEF Move, Gen
  <2> QED
    BY <1>13, <1>19, <1>21, <1>26, <2>1 DEF Framed
<1>28. PICK f : h.saved = Append(gen.saved, f)
  BY <1>8, <1>13, <1>19, <1>22 DEF Moved, Entered
<1>29. h.tables = gen.tables /\ h.sym = t
  BY <1>8, <1>13, <1>19, <1>22 DEF Moved, Entered
<1>30. Len(h.saved) = Len(gen.saved) + 1
  BY <1>9, <1>28, AppendIs
<1>31. /\ Len(h.sym) = Len(gen.sym) + 3 /\ h.sym[Len(gen.sym) + 1] = p
       /\ h.sym[Len(gen.sym) + 2] = m /\ h.sym[Len(gen.sym) + 3] = cr
       /\ \A j \in 1 .. Len(gen.sym) : h.sym[j] = gen.sym[j]
  <2>1. Len(u) = Len(gen.sym) + 1 /\ Len(w) = Len(gen.sym) + 2 /\ Len(t) = Len(gen.sym) + 3
    BY <1>11, <1>16, <1>17
  <2>2. t[Len(gen.sym) + 3] = cr
    BY <1>17, <2>1
  <2>3. t[Len(gen.sym) + 2] = m
    <3>1. Len(gen.sym) + 2 \in 1 .. Len(w)
      BY <1>11, <2>1
    <3>2. w[Len(gen.sym) + 2] = m
      BY <1>11, <1>16, <2>1
    <3> QED
      BY <1>17, <3>1, <3>2
  <2>4. t[Len(gen.sym) + 1] = p
    <3>1. Len(gen.sym) + 1 \in 1 .. Len(w) /\ Len(gen.sym) + 1 \in 1 .. Len(u)
      BY <1>11, <2>1
    <3> QED
      BY <1>11, <1>16, <1>17, <3>1
  <2>5. \A j \in 1 .. Len(gen.sym) : t[j] = gen.sym[j]
    <3>1. \A j \in 1 .. Len(gen.sym) : j \in 1 .. Len(w) /\ j \in 1 .. Len(u)
      BY <1>11, <2>1
    <3> QED
      BY <1>11, <1>16, <1>17, <3>1
  <2> QED
    BY <1>29, <2>1, <2>2, <2>3, <2>4, <2>5
<1>32. \A j \in 1 .. Len(h.sym) : j > Len(gen.sym) => h.sym[j] \in DOMAIN h.recs
  <2>1. \A j \in 1 .. Len(h.sym) : j > Len(gen.sym) =>
          j = Len(gen.sym) + 1 \/ j = Len(gen.sym) + 2 \/ j = Len(gen.sym) + 3
    BY <1>11, <1>31
  <2> QED
    BY <1>27, <1>31, <2>1
<1>33. /\ "handler" \in Kinds /\ SymWidth["handler"] = 3 /\ SavedWidth["handler"] = 1
       /\ TableWidth["handler"] = 0
  BY DEF Kinds, SymWidth, SavedWidth, TableWidth
<1>34. Pushed(gen, h, "handler")
  <2>1. Framed(h, h.sym[Len(h.sym)])
    BY <1>26, <1>31
  <2> QED
    BY <1>9, <1>29, <1>30, <1>31, <1>32, <1>33, <2>1 DEF Pushed
<1> QED
  BY <1>6, <1>7, <1>20, <1>25, <1>33, <1>34, NestedPush DEF Sound, Move

\* The end of such a handler closes its frame, calls it and pops the three symbols.
LEMMA HandlerEndSound ==
  ASSUME Sound(gen, open), HandlerEnd
  PROVE  Sound(gen', open')
<1>1. PICK r : r = Last(gen.sym)
  OBVIOUS
<1>2. PICK a : a = EndLambda(gen, r)
  OBVIOUS
<1>3. PICK b : b = EmitRef(a, "CALL", Last(a.sym), "try")
  OBVIOUS
<1>4. PICK c : c = PopSym(b)
  OBVIOUS
<1>5. PICK d : d = PopSym(c)
  OBVIOUS
<1>6. PICK e : e = DefineTop(d)
  OBVIOUS
<1>7. PICK h : h = Register(e, 1)
  OBVIOUS
<1>8. /\ Gen(gen, {}) /\ Nested(gen, open) /\ open # <<>> /\ Last(open) = "handler"
      /\ open' = Front(open) /\ gen' = h
  BY <1>1, <1>2, <1>3, <1>4, <1>5, <1>6, <1>7 DEF HandlerEnd, Inside, InBody, Closes, Sound
<1>9. SymWidth["handler"] = 3 /\ SavedWidth["handler"] = 1 /\ TableWidth["handler"] = 0 /\ "handler" \in Frames
  BY DEF Kinds, SymWidth, SavedWidth, TableWidth, Frames
<1>10. Framed(gen, r) /\ 1 <= Len(gen.saved) /\ 3 <= Len(gen.sym)
  BY <1>1, <1>8, <1>9, NestedTop DEF Last
<1>11. /\ Move(gen, a, {}) /\ a.sym = gen.sym /\ a.tables = gen.tables /\ a.saved = Front(gen.saved)
       /\ Framed(a, r)
  BY <1>2, <1>8, <1>10, EndLambdaMove
<1>12. Gen(a, {}) /\ Last(a.sym) = r /\ r \in DOMAIN a.recs /\ a.recs[r].kind # "table" /\ "CALL" \in Jumps
  BY <1>1, <1>11 DEF Move, Framed, Jumps, Branches
<1>13. Step(a, b, {})
  BY <1>3, <1>12, EmitRefStep
<1>14. Moved(a, b, a.sym)
  BY <1>12, <1>13, MovedSelf, MovedStep
<1>15. Moved(a, c, Front(a.sym))
  BY <1>4, <1>12, <1>14, MovedPop
<1>16. Moved(a, d, Front(Front(a.sym)))
  BY <1>5, <1>12, <1>15, MovedPop
<1>17. Moved(a, e, Front(Front(Front(a.sym)))) /\ Gen(e, {})
  BY <1>6, <1>12, <1>16, MovedDefine DEF Moved, Move
<1>18. Moved(a, h, Front(Front(Front(a.sym))))
  BY <1>7, <1>12, <1>17, RegisterStep, MovedStep
<1>19. Move(gen, h, {})
  BY <1>8, <1>11, <1>18, MoveTwice DEF Moved
<1>20. h.sym = Front(Front(Front(gen.sym))) /\ h.saved = Front(gen.saved) /\ h.tables = gen.tables
  BY <1>11, <1>18 DEF Moved
<1>21. IsSeq(gen.sym) /\ IsSeq(gen.saved) /\ Len(gen.tables) \in Nat
  BY <1>8, SeqIs DEF Gen, Rest
<1>22. Len(h.saved) = Len(gen.saved) - 1
  <2>1. gen.saved # <<>>
    BY <1>10
  <2> QED
    BY <1>20, <1>21, <2>1, FrontIs
<1>23. Len(h.sym) = Len(gen.sym) - 3 /\ \A j \in 1 .. Len(h.sym) : h.sym[j] = gen.sym[j]
  <2>1. PICK t : t = Front(Front(gen.sym))
    OBVIOUS
  <2>2. Len(gen.sym) \in Nat /\ 2 <= Len(gen.sym)
    BY <1>10, <1>21, SeqIs
  <2>3. IsSeq(t) /\ Len(t) = Len(gen.sym) - 2 /\ \A j \in 1 .. Len(t) : t[j] = gen.sym[j]
    BY <1>21, <2>1, <2>2, FrontTwice
  <2>4. t # <<>> /\ h.sym = Front(t)
    BY <1>10, <1>20, <2>1, <2>2, <2>3
  <2>5. IsSeq(h.sym) /\ Len(h.sym) = Len(t) - 1 /\ \A i \in DOMAIN h.sym : i \in DOMAIN t /\ h.sym[i] = t[i]
    BY <2>3, <2>4, FrontIs
  <2>6. DOMAIN h.sym = 1 .. Len(h.sym) /\ DOMAIN t = 1 .. Len(t)
    BY <2>3, <2>5, SeqIs
  <2>7. \A j \in 1 .. Len(h.sym) : h.sym[j] = gen.sym[j]
    BY <2>3, <2>5, <2>6
  <2> QED
    BY <2>2, <2>3, <2>5, <2>7
<1>24. Popped(gen, h, Last(open))
  BY <1>8, <1>9, <1>20, <1>21, <1>22, <1>23 DEF Popped
<1> QED
  BY <1>8, <1>19, <1>24, NestedPop DEF Sound, Move

(***************************************************************************)
(* The invariant and the theorems.                                         *)
(***************************************************************************)
Bounded == count \in 0 .. MaxStatements /\ Len(open) <= MaxNesting
\* The inductive invariant.
Inv == Sound(gen, open) /\ Bounded

\* The compiler starts with the invariant (sp_clr_init).
LEMMA InitSound == ASSUME Init PROVE Sound(gen, open)
<1>1. /\ IsGen(gen) /\ gen.recs = <<>> /\ gen.code = <<>> /\ gen.off = 0 /\ gen.pool = <<>>
      /\ gen.index = 0 /\ gen.slots = 0 /\ gen.cur = 0 /\ gen.tabs = <<1>> /\ gen.lastTab = 1
      /\ gen.saved = <<>> /\ gen.sym = <<>> /\ gen.tables = <<>> /\ open = <<>>
  BY DEF Init, IsGen, Fields, Nobody
<1>2. IsSeq(<<>>) /\ Len(<<>>) = 0 /\ DOMAIN <<>> = {}
  BY DEF IsSeq
<1>3. Core(gen, {})
  BY <1>1, <1>2 DEF Core, RecsOK, CodeOK, JumpsOK, ListsOK, Exact
<1>4. IsSeq(<<1>>) /\ \A i \in DOMAIN <<1>> : <<1>>[i] # 0
  <2>1. IsSeq(<<1>>)
    <3>1. 1 \in Range(<<1>>)
      BY DEF Range
    <3> QED
      BY <3>1 DEF IsSeq
  <2>2. DOMAIN <<1>> = 1 .. 1 /\ <<1>>[1] = 1
    OBVIOUS
  <2> QED
    BY <2>1, <2>2
<1>5. Rest(gen)
  BY <1>1, <1>2, <1>4 DEF Rest
<1>6. \A w : Heights(<<>>, w, [i \in 0 .. 0 |-> 0], 0)
  BY <1>2 DEF Heights
<1>7. \E b : Heights(<<>>, SymWidth, b, 0) /\ Holds(gen, <<>>, b)
  <2>1. PICK b : b = [i \in 0 .. 0 |-> 0]
    OBVIOUS
  <2>2. Holds(gen, <<>>, b)
    BY <1>1, <1>2 DEF Holds
  <2> QED
    BY <1>6, <2>1, <2>2
<1>8. <<>> \in Seq(Kinds)
  OBVIOUS
<1>9. Nested(gen, open)
  BY <1>1, <1>2, <1>6, <1>7, <1>8 DEF Nested, Deep
<1> QED
  BY <1>1, <1>3, <1>5, <1>9 DEF Sound, Gen

\* Every production keeps the invariant.
LEMMA NextSound ==
  ASSUME Sound(gen, open), Next
  PROVE  Sound(gen', open')
<1>1. ASSUME NEW f \in Functions, FunctionStart(f) \/ Declare(f) \/ Call(f)
      PROVE  Sound(gen', open')
  BY <1>1, FunctionStartSound, DeclareSound, CallSound
<1>2. ASSUME NEW f \in Functions, NEW v \in Variables, Reference(f, v)
      PROVE  Sound(gen', open')
  BY <1>2, ReferenceSound
<1>3. ASSUME NEW v \in Variables, Var(v) \/ LambdaEnd(v) \/ CatchArg(v)
      PROVE  Sound(gen', open')
  BY <1>3, VarSound, LambdaEndSound, CatchArgSound
<1>4. CASE Return \/ Break \/ Continue \/ \E l \in UserLabels : Goto(l) \/ Label(l)
  BY <1>4, JumpsSound
<1>5. ASSUME NEW c \in 1 .. MaxCases, Case(c)
      PROVE  Sound(gen', open')
  BY <1>5, CaseSound
<1>6. CASE FunctionEnd \/ ReturnValue \/ Parsed
  BY <1>6, FunctionEndSound, ReturnValueSound, ParsedSound
<1>7. CASE While \/ WhileEnd \/ If \/ Else \/ IfEnd
  BY <1>7, WhileSound, WhileEndSound, IfSound, ElseSound, IfEndSound
<1>8. CASE Switch \/ Default \/ SwitchEnd
  BY <1>8, SwitchSound, DefaultSound, SwitchEndSound
<1>9. CASE Lambda \/ Try \/ Catch \/ CatchEnd \/ HandlerEnd
  BY <1>9, LambdaSound, TrySound, CatchSound, CatchEndSound, HandlerEndSound
<1>10. CASE Link \/ Done
  BY <1>10 DEF Link, Done, vars
<1> QED
  BY <1>1, <1>2, <1>3, <1>4, <1>5, <1>6, <1>7, <1>8, <1>9, <1>10 DEF Next

\* What a production does to the constructs and to the number of statements.
Reshapes ==
  /\ count' = count \/ (count < MaxStatements /\ count' = count + 1)
  /\ \/ open' = open
     \/ Len(open) < MaxNesting /\ \E k : open' = Append(open, k)
     \/ open # <<>> /\ open' = Front(open)
     \/ open # <<>> /\ \E k : open' = Append(Front(open), k)
\* No production does more.
LEMMA NextReshapes ==
  ASSUME Next
  PROVE  Reshapes
<1>1. ASSUME NEW f \in Functions, FunctionStart(f) \/ Declare(f) \/ Call(f)
      PROVE  Reshapes
  BY <1>1 DEF Reshapes, FunctionStart, Declare, Call, Statement, Opens, Simple, Abort
<1>2. ASSUME NEW f \in Functions, NEW v \in Variables, Reference(f, v)
      PROVE  Reshapes
  BY <1>2 DEF Reshapes, Reference, Statement, Simple
<1>3. ASSUME NEW v \in Variables, Var(v) \/ LambdaEnd(v) \/ CatchArg(v)
      PROVE  Reshapes
  BY <1>3 DEF Reshapes, Var, LambdaEnd, CatchArg, Statement, Simple, Inside, InBody, Closes
<1>4. CASE Return \/ ReturnValue \/ Break \/ Continue \/ \E l \in UserLabels : Goto(l) \/ Label(l)
  BY <1>4 DEF Reshapes, Return, ReturnValue, Break, Continue, Goto, Label, Statement, Simple
<1>5. ASSUME NEW c \in 1 .. MaxCases, Case(c)
      PROVE  Reshapes
  BY <1>5 DEF Reshapes, Case
<1>6. CASE FunctionEnd \/ Parsed \/ Default \/ SwitchEnd
  BY <1>6 DEF Reshapes, FunctionEnd, Parsed, Default, SwitchEnd, Inside, InBody, Closes
<1>7. CASE While \/ WhileEnd \/ If \/ Else \/ IfEnd
  BY <1>7 DEF Reshapes, While, WhileEnd, If, Else, IfEnd, Statement, Opens, Inside, InBody, Closes
<1>8. CASE Switch \/ Lambda \/ Try \/ Catch
  BY <1>8 DEF Reshapes, Switch, Lambda, Try, Catch, Statement, Opens, Inside, InBody
<1>9. CASE CatchEnd \/ HandlerEnd
  BY <1>9 DEF Reshapes, CatchEnd, HandlerEnd, Inside, InBody, Closes
<1>10. CASE Link \/ Done
  BY <1>10 DEF Reshapes, Link, Done, vars
<1> QED
  BY <1>1, <1>2, <1>3, <1>4, <1>5, <1>6, <1>7, <1>8, <1>9, <1>10 DEF Next

\* The bounds of the model are kept.
LEMMA BoundedStays ==
  ASSUME Sound(gen, open), Bounded, Reshapes
  PROVE  Bounded'
<1>1. MaxStatements \in Nat /\ MaxNesting \in Nat
  BY BoundsAssumption
<1>2. IsSeq(open) /\ Len(open) \in Nat
  <2>1. open \in Seq(Kinds)
    BY DEF Sound, Nested
  <2> QED
    BY <2>1 DEF IsSeq, Range
<1>3. count' \in 0 .. MaxStatements
  BY <1>1 DEF Bounded, Reshapes
<1>4. CASE open' = open
  BY <1>3, <1>4 DEF Bounded
<1>5. ASSUME Len(open) < MaxNesting, NEW k, open' = Append(open, k)
      PROVE  Len(open') <= MaxNesting
  BY <1>1, <1>2, <1>5, AppendIs
<1>6. ASSUME open # <<>>
      PROVE  IsSeq(Front(open)) /\ Len(Front(open)) = Len(open) - 1
  BY <1>2, <1>6, FrontIs
<1>7. CASE open # <<>> /\ open' = Front(open)
  BY <1>1, <1>2, <1>3, <1>6, <1>7 DEF Bounded
<1>8. ASSUME open # <<>>, NEW k, open' = Append(Front(open), k)
      PROVE  Len(open') <= MaxNesting
  <2>1. Len(open') = Len(Front(open)) + 1
    BY <1>6, <1>8, AppendIs
  <2> QED
    BY <1>1, <1>2, <1>6, <1>8, <2>1 DEF Bounded
<1> QED
  BY <1>3, <1>4, <1>5, <1>7, <1>8 DEF Bounded, Reshapes

\* Every script keeps the compiler's state in order: what the routines have written so far and
\* what the open constructs keep on the stacks.
THEOREM CompilerSound == Spec => []Inv
<1>1. Init => Inv
  <2>1. ASSUME Init
        PROVE  Bounded
    BY <2>1, BoundsAssumption DEF Init, Bounded
  <2> QED
    BY <2>1, InitSound DEF Inv
<1>2. Inv /\ [Next]_vars => Inv'
  <2>1. CASE Next
    BY <2>1, NextSound, NextReshapes, BoundedStays DEF Inv
  <2>2. CASE UNCHANGED vars
    BY <2>2 DEF Inv, Bounded, vars
  <2> QED
    BY <2>1, <2>2
<1> QED
  BY <1>1, <1>2, PTL DEF Spec

\* TypeOK for every script: every symbol has an address or waits for one, its list names places
\* in the code, and the code has no holes.
THEOREM TypeCorrect == Spec => []TypeOK
<1>1. Inv => TypeOK
  <2> SUFFICES ASSUME Inv PROVE TypeOK
    OBVIOUS
  <2>1. /\ RecsOK(gen.recs) /\ CodeOK(gen.code, gen.off) /\ ListsOK(gen.recs, gen.code)
        /\ gen.cur \in 0 .. Len(gen.recs) /\ IsSeq(gen.recs)
    BY DEF Inv, Sound, Gen, Core, Rest, RecsOK
  <2>2. Len(gen.recs) \in Nat /\ DOMAIN gen.recs = 1 .. Len(gen.recs)
    BY <2>1, SeqIs
  <2>3. \A r \in DOMAIN gen.recs : /\ gen.recs[r].kind \in {"label", "func", "var", "table"}
                                   /\ gen.recs[r].off \in {Undef} \cup Nat
                                   /\ gen.recs[r].parent \in {Nobody} \cup DOMAIN gen.recs
    BY <2>1, <2>2 DEF RecsOK, Nobody
  <2>4. \A r \in DOMAIN gen.recs : gen.recs[r].list \subseteq 0 .. gen.off
    BY <2>1 DEF ListsOK, CodeOK
  <2>5. gen.cur \in {Nobody} \cup DOMAIN gen.recs
    BY <2>1, <2>2 DEF Nobody
  <2> QED
    BY <2>1, <2>3, <2>4, <2>5 DEF TypeOK, CodeOK, Inv, Bounded
<1> QED
  BY <1>1, CompilerSound, PTL

\* PendingExact for every script: the list of a symbol that has no address holds exactly the
\* jumps, calls and function values that wait for it, and those of a symbol with an address
\* all hold it.
THEOREM NoJumpForgotten == Spec => []PendingExact
<1>1. Inv => PendingExact
  <2> SUFFICES ASSUME Inv, NEW r \in DOMAIN gen.recs, gen.recs[r].kind \in {"label", "func"},
                      gen.recs[r].tab \in Range(gen.tabs)
               PROVE  IF gen.recs[r].off = Undef
                      THEN gen.recs[r].list = {c.at : c \in Sites(r)}
                      ELSE gen.recs[r].list = {} /\ \A c \in Sites(r) : c.arg = gen.recs[r].off % Word
    BY DEF PendingExact
  <2>1. /\ ListsOK(gen.recs, gen.code) /\ Exact(gen.recs, gen.code, {}) /\ Rest(gen)
    BY DEF Inv, Sound, Gen, Core
  <2>2. gen.recs[r].tab # 0
    BY <2>1 DEF Rest, Range
  <2>3. Settled(gen.recs[r], r, gen.code)
    BY <2>1, <2>2 DEF Exact
  <2>4. \A c \in Sites(r) : \E i \in DOMAIN gen.code : c = gen.code[i] /\ c.ref = r /\ c.ins \in Jumps
    BY DEF Sites, Range, Jumps
  <2>5. \A i \in DOMAIN gen.code : gen.code[i].ref = r /\ gen.code[i].ins \in Jumps => gen.code[i] \in Sites(r)
    BY DEF Sites, Range, Jumps
  <2>6. CASE gen.recs[r].off = Undef
    <3>1. \A c \in Sites(r) : c.at \in gen.recs[r].list
      BY <2>3, <2>4, <2>6 DEF Settled
    <3>2. ASSUME NEW a \in gen.recs[r].list
          PROVE  \E c \in Sites(r) : a = c.at
      <4>1. PICK i \in DOMAIN gen.code : gen.code[i].at = a
        BY <2>1 DEF ListsOK
      <4>2. gen.code[i].ref = r /\ gen.code[i].ins \in Jumps
        BY <2>1, <4>1 DEF ListsOK, SiteIns
      <4> QED
        BY <2>5, <4>1, <4>2
    <3>3. gen.recs[r].list = {c.at : c \in Sites(r)}
      BY <3>1, <3>2
    <3> QED
      BY <2>6, <3>3
  <2>7. CASE gen.recs[r].off # Undef
    BY <2>3, <2>4, <2>7 DEF Settled
  <2> QED
    BY <2>6, <2>7
<1> QED
  BY <1>1, CompilerSound, PTL

=============================================================================
