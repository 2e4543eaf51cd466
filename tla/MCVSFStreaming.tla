---------------------------- MODULE MCVSFStreaming ----------------------------
(* Bounded instance of VSFStreaming: a clock of eight ticks, rates 0 to 3, two*)
(* sizes that differ in both directions, room for two frames.                *)
EXTENDS VSFStreaming

MCRates == 0..3
MCSizes == {<<1, 1>>, <<2, 2>>}
=============================================================================
