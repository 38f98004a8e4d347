----------------------------- MODULE MCCodeGen -----------------------------
(* Scripts with up to four statements over two functions and one label. *)
EXTENDS CodeGen

\* The names of functions are interchangeable.
Symmetry == Permutations(Functions)
=============================================================================
