---------------------------- MODULE MCVSFStream ----------------------------
(* Bounded instance of VSFStream: four packets, one with data, and chunks   *)
(* long enough to hold one packet and parts of two others.                  *)
EXTENDS VSFStream

MCLengths == <<4, 6, 4, 5>>
=============================================================================
