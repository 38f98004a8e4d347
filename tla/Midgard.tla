------------------------------ MODULE Midgard ------------------------------
(***************************************************************************)
(* A midgard heap and its users: the blocks they own, and every sequence   *)
(* of allocations, releases and moves.  The operations themselves are      *)
(* defined in module MidgardHeap.                                          *)
(***************************************************************************)
EXTENDS MidgardHeap

CONSTANTS
  Sizes,       \* the lengths passed to m_alloc
  Uninit       \* what the unwritten size field of the first terminal may hold

ASSUME UsersAssumption ==
  /\ Sizes \subseteq Nat \ {0} \* every caller asks for at least one byte
  /\ Uninit \subseteq Nat

VARIABLES
  chain,   \* the chunk list, from the root to the terminal
  held     \* the blocks the users own: set of [ptr, size]

vars == <<chain, held>>

-----------------------------------------------------------------------------
(***************************************************************************)
(* The heap and its users.                                                 *)
(***************************************************************************)
Init ==
  /\ \E junk \in Uninit : chain = m_init_alloc(junk)
  /\ held = {}

Alloc(s) ==
  LET r == m_alloc(chain, s)
  IN  /\ chain' = r.chain
      /\ held' = IF r.ptr = NULL THEN held
                 ELSE held \cup {[ptr |-> r.ptr, size |-> s]}

\* A release of any pointer: a block in use, one that was already released
\* (a second release, a stale pointer) or one that was never on this heap
\* (vm_init_exec releases a package entry).
Free(ptr) ==
  /\ chain' = m_free(chain, ptr)
  /\ held' = {b \in held : b.ptr # ptr}

\* The collector closes the gap behind chunk i and redirects the pointers.
Shift(i) ==
  /\ i + 1 < Len(chain)
  /\ m_next_chunk(chain, i) # NULL
  /\ chain' = m_shift_next_chunk(chain, i)
  /\ held' = { IF b.ptr = Body(chain[i + 1])
               THEN [ptr |-> Body(chain'[i + 1]), size |-> b.size]
               ELSE b : b \in held }

Next ==
  \/ \E s \in Sizes : Alloc(s)
  \/ \E ptr \in 1 .. HeapSize : Free(ptr)
  \/ \E i \in 1 .. Len(chain) : Shift(i)

Spec == Init /\ [][Next]_vars

-----------------------------------------------------------------------------
(***************************************************************************)
(* Properties                                                              *)
(***************************************************************************)

\* Every header lies in the heap, every block of the users too: neither the
\* end-of-heap branch of m_alloc nor its first-fit branch writes past
\* heap->root + heap->size.
TypeOK ==
  /\ chain \in Seq(Chunk)
  /\ Len(chain) >= 1
  /\ \A i \in 1 .. Len(chain) : chain[i].at + Hdr <= HeapSize
  /\ \A b \in held : /\ b.ptr \in 1 .. HeapSize
                     /\ b.size \in Sizes
                     /\ b.ptr + b.size <= HeapSize

\* The list stays sorted by address and free of overlaps, whatever is
\* released, double releases and foreign pointers included: the first-fit
\* test of m_alloc compares the addresses of neighbours only.
ChainOrdered == Ordered(chain) /\ NonEmpty(chain)

\* No operation on one block changes the length of another one, unlinks it
\* or moves it without its owner being told: each block in use is the body
\* of a chunk of exactly its length that is not the terminal.
HeldOnChain ==
  \A b \in held : \E i \in 1 .. Len(chain) - 1 :
    b = BlockOf(chain[i])

\* Nothing is lost: a chunk between the root and the terminal belongs to a
\* user.  The root is the exception, it cannot be freed.
NothingLost ==
  \A i \in 2 .. Len(chain) - 1 :
    BlockOf(chain[i]) \in held

\* First fit is complete below the high-water mark: when m_alloc fails there
\* is no place before the terminal where a header and the body would fit
\* between the chunks.
FailsOnlyWhenFull ==
  \A s \in Sizes : m_alloc(chain, s).ptr = NULL =>
    \A a \in 0 .. chain[Len(chain)].at - Hdr - s :
      \E i \in 1 .. Len(chain) :
        a < EndOf(chain[i]) /\ chain[i].at < a + Hdr + s

\* The linked list implements the contract of the users.
Contract == INSTANCE HeapContract WITH blocks <- held
ImplementsContract == Contract!Spec
=============================================================================
