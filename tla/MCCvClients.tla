----------------------------- MODULE MCCvClients -----------------------------
(* CvClients for TLC: two tasks, each on a thread of its own.              *)
EXTENDS CvClients

CONSTANTS t1, t2, c1, c2

Two == {t1, t2}
MCContexts == {c1, c2}
MCHome == [t \in Tasks |-> IF t = t2 THEN c2 ELSE c1]

(* Masks that all share the bit 1.                                         *)
Overlapping == {{1}, {1, 2}}
=============================================================================
