--------------------------- MODULE MCVSFPipeline ---------------------------
(* Bounded instance of VSFPipeline: two clients, queues of one frame and two *)
(* packets, so that each of them overflows within three frames.             *)
EXTENDS VSFPipeline, TLC

CONSTANTS c1, c2

MCClients == {c1, c2}
Symmetry == Permutations(MCClients)
=============================================================================
