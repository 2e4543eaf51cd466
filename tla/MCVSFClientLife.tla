------------------------- MODULE MCVSFClientLife -------------------------
(* Bounded instance of VSFClientLife: two presses of Connect, two handles, *)
(* a select of one tick, waits of three (10 s against 3 s) and one timeout *)
(* before the receiver gives up.                                           *)
EXTENDS VSFClientLife
=============================================================================
