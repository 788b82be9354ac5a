--------------------------- MODULE AbstractMutex ---------------------------
(***************************************************************************)
(* What Mutex promises its users (generic/mutex.hpp): lock() either hands  *)
(* the mutex to the caller, while nobody else has it, or fails because the *)
(* call was cancelled; try_lock() never waits.                             *)
(***************************************************************************)
CONSTANT Tasks

VARIABLE phase     \* per task: "out", "trying" or "in"

Init == phase = [t \in Tasks |-> "out"]

Free == \A u \in Tasks : phase[u] # "in"

Request(t) == phase[t] = "out" /\ phase' = [phase EXCEPT ![t] = "trying"]
Grant(t)   == phase[t] = "trying" /\ Free /\ phase' = [phase EXCEPT ![t] = "in"]
TryGrant(t) == phase[t] = "out" /\ Free /\ phase' = [phase EXCEPT ![t] = "in"]
Abandon(t) == phase[t] = "trying" /\ phase' = [phase EXCEPT ![t] = "out"]
Release(t) == phase[t] = "in" /\ phase' = [phase EXCEPT ![t] = "out"]

Next == \E t \in Tasks :
  Request(t) \/ Grant(t) \/ TryGrant(t) \/ Abandon(t) \/ Release(t)

Spec == Init /\ [][Next]_phase
=============================================================================
