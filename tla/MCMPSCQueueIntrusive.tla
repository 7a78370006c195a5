------------------------- MODULE MCMPSCQueueIntrusive -------------------------
(* MPSCQueueIntrusive with few objects, so that objects are enqueued again.   *)
EXTENDS MPSCQueueIntrusive

CONSTANTS p1, p2, o1, o2, o3

MCProducers == {p1, p2}
MCObjects == {o1, o2, o3}
=============================================================================
