-------------------------- MODULE MCVSFServerLife --------------------------
(* Bounded instances of VSFServerLife.                                      *)
EXTENDS VSFServerLife

\* Handles are numbers nobody compares but for equality.
Symmetry == Permutations(Handles)
=============================================================================
