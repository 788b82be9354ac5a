----------------------------- MODULE MCCallOnce -----------------------------
(* CallOnce for TLC: t1 and t2 share a thread, t3 has its own.             *)
EXTENDS CallOnce

CONSTANTS t1, t2, t3, c1, c2

MCTasks == {t1, t2, t3}
MCContexts == {c1, c2}
MCHome == [t \in MCTasks |-> IF t = t3 THEN c2 ELSE c1]
=============================================================================
