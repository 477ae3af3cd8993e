--------------------------- MODULE MCProducerPool ---------------------------
(* ProducerPool on a small instance: see the cfgs for the bounds.          *)
EXTENDS ProducerPool, TLC

CONSTANTS p1, p2, w1, w2

OneProducer == {p1}
TwoProducers == {p1, p2}
OneWorker == {w1}
TwoWorkers == {w1, w2}
Symmetry == Permutations(TwoProducers) \cup Permutations(TwoWorkers)
=============================================================================
