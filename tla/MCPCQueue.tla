------------------------------ MODULE MCPCQueue ------------------------------
(* PCQueue with three threads, so that a producer, a consumer that sleeps and *)
(* one that comes in between, or a canceller, can meet.                       *)
EXTENDS PCQueue

CONSTANTS t1, t2, t3, i1, i2

MCThreads == {t1, t2, t3}
MCItems == {i1, i2}
=============================================================================
