---------------------------- MODULE HeapContract ----------------------------
(***************************************************************************)
(* What the users of a midgard heap rely on, with no chunk, header or list *)
(* in sight: a set of blocks, each a pointer and a length.  A new block    *)
(* never touches a block that is still in use, a release returns one block *)
(* and nothing else, and a block that the collector moves keeps its length *)
(* and lands clear of all the other ones.                                  *)
(***************************************************************************)
EXTENDS Integers

CONSTANTS
  HeapSize,    \* bytes given to m_heap_create
  Sizes        \* lengths the users ask for

VARIABLE blocks   \* the blocks in use, a set of [ptr, size] records

Block == [ptr : 0..HeapSize, size : Sizes]

\* The byte ranges of two blocks do not meet.
Apart(a, b) == a.ptr + a.size <= b.ptr \/ b.ptr + b.size <= a.ptr

\* Block b lies inside the heap and clear of every block of B.
MayPlace(b, B) ==
  /\ b.ptr + b.size <= HeapSize
  /\ \A other \in B : Apart(b, other)

Init == blocks = {}

Allocate(b) ==
  /\ MayPlace(b, blocks)
  /\ blocks' = blocks \cup {b}

Release(b) == blocks' = blocks \ {b}

Move(b, p) ==
  /\ MayPlace([b EXCEPT !.ptr = p], blocks \ {b})
  /\ blocks' = (blocks \ {b}) \cup {[b EXCEPT !.ptr = p]}

Next ==
  \/ \E b \in Block : Allocate(b)
  \/ \E b \in blocks : Release(b)
  \/ \E b \in blocks, p \in 0 .. HeapSize : Move(b, p)

Spec == Init /\ [][Next]_blocks
=============================================================================
