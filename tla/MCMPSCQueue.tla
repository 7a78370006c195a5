----------------------------- MODULE MCMPSCQueue -----------------------------
(* MPSCQueue with fewer nodes than the stub and the enqueues need: addresses  *)
(* are reused.                                                                *)
EXTENDS MPSCQueue

CONSTANTS p1, p2, n1, n2, n3, i1, i2

MCProducers == {p1, p2}
MCNodes == {n1, n2, n3}
MCItems == {i1, i2}
=============================================================================
