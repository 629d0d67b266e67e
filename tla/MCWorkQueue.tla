------------------------------ MODULE MCWorkQueue -----------------------------
(* Small instances of WorkQueue for TLC. *)
EXTENDS WorkQueue, TLC

CONSTANTS i1, i2, w1, w2, p1

TwoItems == {i1, i2}
TwoWorkers == {w1, w2}
OneProducer == {p1}

(* The token bucket is never empty. *)
NoBucketDelay == {0}

Symmetry == Permutations(TwoItems) \cup Permutations(TwoWorkers)
===============================================================================
