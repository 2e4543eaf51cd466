------------------------------ MODULE MCVSFQos ------------------------------
(* Bounded instances of VSFQos: a window of two or four samples.            *)
EXTENDS VSFQos

MCOffered == 1..MaxFPS

\* No sample, one, and a full window, with slow ones.
MCOthers == {<<>>, <<MaxSpend>>, [i \in 1..Window |-> IF i = 1 THEN MaxSpend ELSE 1]}
=============================================================================
