------------------------------ MODULE MCDurable ------------------------------
(* A small instance of the durable records.                                  *)
EXTENDS DurableRecords

CONSTANTS p1, p2, w1, w2, d1, d2, k1, k2, q1, q2, n1, n2

\* Pods and callbacks are interchangeable.
DurableSym == Permutations({p1, p2}) \cup Permutations({k1, k2})
=============================================================================
