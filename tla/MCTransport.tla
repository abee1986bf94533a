---------------------------- MODULE MCTransport ----------------------------
(* HttpTransport with a few batches and a short clock, for TLC.            *)
EXTENDS TransportProperties

CONSTANTS t1, t2, b1, b2, b3

OneEventEach == [b \in Batch |-> 1]
OneThread == {t1}
TwoThreads == {t1, t2}
TwoBatches == {b1, b2}
ThreeBatches == {b1, b2, b3}
UpTo20 == 0 .. 20
Symmetry == Permutations(Threads) \cup Permutations(Batch)
=============================================================================
