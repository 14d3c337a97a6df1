------------------------------ MODULE MCBalancer ------------------------------
(* Small instances of Balancer for TLC. *)
EXTENDS Balancer, TLC

CONSTANTS t1, t2, b1, b2, b3

MCTask == {t1, t2}

\* Callers are interchangeable; no property of the safety runs names one.
TaskSymmetry == Permutations(MCTask)

MCBackend == {b1, b2, b3}

\* b1 and b3 are registered under the same id.
MCIdOf == [b \in MCBackend |-> IF b = b2 THEN "id2" ELSE "id1"]

PairBackend == {b1, b2}
PairIdOf == [b \in PairBackend |-> MCIdOf[b]]

NoRtts == {NoRtt}
ThreeRtts == {NoRtt, 400, 250}

OnePool == <<b1>>
TwoPool == <<b1, b2>>
ThreePool == <<b1, b2, b3>>
===============================================================================
