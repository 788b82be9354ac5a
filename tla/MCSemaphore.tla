----------------------------- MODULE MCSemaphore -----------------------------
(* Semaphore for TLC.                                                      *)
EXTENDS Semaphore

CONSTANTS t1, t2, t3, c1

Three == {t1, t2, t3}
OneContext == {c1}
HomeOne == [t \in Tasks |-> c1]
=============================================================================
