------------------------- MODULE MCConcurrentQueue -------------------------
(* ConcurrentQueue and Queue for TLC.                                      *)
EXTENDS ConcurrentQueue

CONSTANTS t1, t2, t3, c1

Three == {t1, t2, t3}
OneContext == {c1}

(* Everybody on one thread.                                                *)
HomeOne == [t \in Tasks |-> c1]
=============================================================================
