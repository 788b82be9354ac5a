---------------------------- MODULE MCBasicMutex ----------------------------
(* BasicMutex for TLC: t1 and t2 share the thread of c1, t3 has c2.        *)
EXTENDS BasicMutex

CONSTANTS t1, t2, t3, c1, c2

MCTasks == {t1, t2, t3}
MCContexts == {c1, c2}
MCHome == [t \in MCTasks |-> IF t = t3 THEN c2 ELSE c1]
=============================================================================
