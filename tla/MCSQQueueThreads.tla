-------------------------- MODULE MCSQQueueThreads --------------------------
(* Bounded instance of SQQueueThreads: two producers, one consumer and a    *)
(* ring of two, so that it wraps and fills within four packets.             *)
EXTENDS SQQueueThreads

CONSTANTS tcThread, recvThread

MCProducers == {tcThread, recvThread}
=============================================================================
