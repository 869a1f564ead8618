---------------------------- MODULE MCWorkerPool -----------------------------
(***************************************************************************)
(* WorkerPool on small instances: batch calls b1, b2, b3 and a stream s1.  *)
(***************************************************************************)
EXTENDS WorkerPool, TLC

CONSTANTS b1, b2, b3, s1

BatchesAndStream == {b1, b2, b3, s1}
OneStream == {s1}
ThreeBatches == {b1, b2, b3}
TwoBatches == {b1, b2}
BatchSymmetry == Permutations(BatchCalls)

=============================================================================
