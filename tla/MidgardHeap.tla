---------------------------- MODULE MidgardHeap ----------------------------
(***************************************************************************)
(* The midgard heap of src/StackLib/StackVM: one memory area of HeapSize   *)
(* bytes that starts at heap->root, cut into chunks.  A chunk is a header  *)
(* of Hdr = sizeof(alloc_chain) bytes followed by its body; the headers    *)
(* form a singly linked list.  The list is a sequence c of chunks: its     *)
(* first element is the chunk root, its last one the terminal header whose *)
(* next field is NULL.  Addresses are offsets from heap->root, so that no  *)
(* body has address 0 and NULL can be 0.                                   *)
(*                                                                         *)
(* m_alloc, m_free and m_shift_next_chunk are functions of the chain.      *)
(* Module Midgard is the heap with arbitrary users, module VmStack the     *)
(* virtual machine on top of it.                                           *)
(***************************************************************************)
EXTENDS Integers, SequencesExt

CONSTANTS
  HeapSize,    \* heap->size
  Hdr          \* sizeof(alloc_chain)

ASSUME HeapAssumption ==
  /\ Hdr \in Nat \ {0}
  /\ HeapSize \in Nat
  /\ 2 * Hdr <= HeapSize       \* m_init_alloc writes two headers unchecked

NULL == 0

Chunk == [at : Nat, size : Nat]

\* First byte after chunk ch, and the pointer m_alloc hands out for it.
EndOf(ch) == ch.at + Hdr + ch.size
Body(ch)  == ch.at + Hdr

\* What the owner of chunk ch knows of it.
BlockOf(ch) == [ptr |-> Body(ch), size |-> ch.size]

-----------------------------------------------------------------------------
(***************************************************************************)
(* m_init_alloc: the root is an empty chunk, the terminal follows it.  The *)
(* size of that terminal is never written.                                 *)
(***************************************************************************)
m_init_alloc(junk) == <<[at |-> 0, size |-> 0], [at |-> Hdr, size |-> junk]>>

\* Variants of Gap: no room for the new header; one byte too many asked for.
Gap_no_header(c, s, i) == i < Len(c) /\ c[i + 1].at >= EndOf(c[i]) + s
Gap_strict(c, s, i) == i < Len(c) /\ c[i + 1].at > EndOf(c[i]) + Hdr + s

\* Between chunk i and its successor there is room for a header and s bytes.
Gap(c, s, i) ==
  /\ i < Len(c)
  /\ c[i + 1].at >= EndOf(c[i]) + Hdr + s

\* The walk of m_alloc stops at chunk i: at the first gap, or at the terminal.
StopsAt(c, s, i) ==
  /\ i = Len(c) \/ Gap(c, s, i)
  /\ \A j \in 1 .. i - 1 : ~Gap(c, s, j)

WalkStop(c, s) == CHOOSE i \in 1 .. Len(c) : StopsAt(c, s, i)

\* Variant of RoomAtEnd: the new terminal is forgotten.
RoomAtEnd_one_header(c, s) == c[Len(c)].at + s + Hdr < HeapSize

\* There is room for s bytes and a new terminal behind the terminal's header.
RoomAtEnd(c, s) == c[Len(c)].at + s + 2 * Hdr < HeapSize

\* A chunk of s bytes put right behind chunk i, before its old successor.
PlaceInGap(c, s, i) == InsertAt(c, i + 1, [at |-> EndOf(c[i]), size |-> s])

\* The terminal becomes a chunk of s bytes; a new terminal follows it.
Extend(c, s) ==
  Append([c EXCEPT ![Len(c)] = [at |-> c[Len(c)].at, size |-> s]],
         [at |-> c[Len(c)].at + Hdr + s, size |-> 0])

m_alloc(c, s) ==
  LET i == WalkStop(c, s)
  IN  IF i < Len(c)
      THEN [chain |-> PlaceInGap(c, s, i), ptr |-> EndOf(c[i]) + Hdr]
      ELSE IF RoomAtEnd(c, s)
           THEN [chain |-> Extend(c, s), ptr |-> Body(c[i])]
           ELSE [chain |-> c, ptr |-> NULL]

-----------------------------------------------------------------------------
(***************************************************************************)
(* m_free walks the list from the root.  An empty chunk followed by an     *)
(* empty one absorbs it ("compacting"): requests are never empty, so this  *)
(* is the untouched root meeting the terminal, and the root itself becomes *)
(* the terminal.  Then the chunk in front of ptr is looked for: it is      *)
(* unlinked, or, when ptr is the body of the terminal, the terminal moves  *)
(* to the end of its predecessor.  The root is nobody's successor, so it   *)
(* is never freed.                                                         *)
(***************************************************************************)
Compact(c) ==
  IF Len(c) > 1 /\ c[1].size = 0 /\ c[2].size = 0 THEN RemoveAt(c, 2) ELSE c

\* Variant of Unlink: the terminal is unlinked like any other chunk.
Unlink_any(c, i) == RemoveAt(c, i)

Unlink(c, i) ==
  IF i = Len(c)
  THEN [c EXCEPT ![i] = [at |-> EndOf(c[i - 1]), size |-> 0]]
  ELSE RemoveAt(c, i)

\* Variant of Found: the search starts one chunk late.
Found_late(c, ptr, i) == i \in 3 .. Len(c) /\ Body(c[i]) = ptr

\* Position of the chunk that m_free(ptr) finds.
Found(c, ptr, i) == i \in 2 .. Len(c) /\ Body(c[i]) = ptr

m_free(c, ptr) ==
  LET d == Compact(c)
  IN  IF \E i \in 1 .. Len(d) : Found(d, ptr, i)
      THEN Unlink(d, CHOOSE i \in 1 .. Len(d) : Found(d, ptr, i))
      ELSE d

-----------------------------------------------------------------------------
(***************************************************************************)
(* m_shift_next_chunk slides the successor of chunk i down until it        *)
(* touches chunk i.  The collector calls it after m_next_chunk found a     *)
(* successor that is not the (empty) terminal.                             *)
(***************************************************************************)
m_next_chunk(c, i) == IF c[i + 1].size = 0 THEN NULL ELSE i + 1

\* Variant of m_shift_next_chunk: the body of chunk i is not skipped.
m_shift_next_chunk_short(c, i) ==
  IF c[i + 1].at > EndOf(c[i])
  THEN [c EXCEPT ![i + 1] = [at |-> Body(c[i]), size |-> c[i + 1].size]]
  ELSE c

m_shift_next_chunk(c, i) ==
  IF c[i + 1].at > EndOf(c[i])
  THEN [c EXCEPT ![i + 1] = [at |-> EndOf(c[i]), size |-> c[i + 1].size]]
  ELSE c
-----------------------------------------------------------------------------
(***************************************************************************)
(* What makes a chain well formed.                                         *)
(***************************************************************************)

\* The root starts the heap, and in list order each chunk ends (body
\* included) before the header of every later chunk begins.
Ordered(c) ==
  /\ c[1].at = 0
  /\ \A i, j \in 1 .. Len(c) : i < j => EndOf(c[i]) <= c[j].at

\* Only the root may be an empty chunk: the collector takes an empty
\* successor for the end of the list (m_next_chunk).
NonEmpty(c) == \A i \in 2 .. Len(c) - 1 : c[i].size > 0
=============================================================================
