--------------------------- MODULE MCVSFSession ----------------------------
(* Bounded instance of VSFSession, with queues that all overflow.           *)
EXTENDS VSFSession

AnyLogin  == {TRUE, FALSE}
=============================================================================
