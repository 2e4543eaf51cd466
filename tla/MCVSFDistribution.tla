------------------------- MODULE MCVSFDistribution -------------------------
(* Bounded instance of VSFDistribution: units of 2 bytes, frames of 0 to 5  *)
(* bytes and 5 sequence numbers, so that frames of one to three units occur *)
(* with short and full last units, the numbers wrap inside a frame, whole   *)
(* rounds of numbers are lost, and up to two marked units in a row.         *)
EXTENDS VSFDistribution

MCLens == 0 .. 5
=============================================================================
