----------------------------- MODULE MCSQQueue -----------------------------
(* Bounded instance of SQQueue: a ring of 3, three packets, one too large.  *)
EXTENDS SQQueue

CONSTANTS p1, p2, big

MCPackets == {p1, p2, big}
MCFitting == {p1, p2}
=============================================================================
