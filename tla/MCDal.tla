------------------------------- MODULE MCDal -------------------------------
(* Two contexts and cursors, and as many places for their structures, so   *)
(* that the memory of a closed connection and of its results is used again.*)
EXTENDS Dal

MCReplies ==
  {[tuples |-> 0, rows |-> 0], [tuples |-> 1, rows |-> 1], [tuples |-> 3, rows |-> 3], [tuples |-> 2, rows |-> 0]}

MCSymmetry == Permutations(Contexts) \cup Permutations(Cursors)
                \cup Permutations(ConnAddrs) \cup Permutations(ResultAddrs)
=============================================================================
