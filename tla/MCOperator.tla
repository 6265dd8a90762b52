----------------------------- MODULE MCOperator -----------------------------
(***************************************************************************)
(* The operator, checked with TLC: the cfg files choose the runs, what may *)
(* happen to them and which caches trail.                                  *)
(***************************************************************************)
EXTENDS Operator

\* Runs of one kind are interchangeable.
Symmetry == Permutations(Runs)
=============================================================================
