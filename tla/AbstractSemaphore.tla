-------------------------- MODULE AbstractSemaphore --------------------------
(***************************************************************************)
(* What Semaphore promises (generic/semaphore.hpp): a counter between 0    *)
(* and MaxCount; an acquire() that succeeds took exactly one, a release()  *)
(* that succeeds gave exactly one, and a call that fails did neither.      *)
(***************************************************************************)
EXTENDS Naturals

CONSTANTS Tasks, MaxCount, InitialCount

VARIABLES count, phase

Init ==
  /\ count = InitialCount
  /\ phase = [t \in Tasks |-> "out"]

Move(t, from, to) == phase[t] = from /\ phase' = [phase EXCEPT ![t] = to]

Begin(t) ==
  /\ Move(t, "out", "acquiring") \/ Move(t, "out", "releasing")
  /\ UNCHANGED count

Take(t) == Move(t, "acquiring", "done") /\ count > 0 /\ count' = count - 1
Give(t) == Move(t, "releasing", "done") /\ count < MaxCount /\ count' = count + 1

End(t) ==
  /\ Move(t, "done", "out") \/ Move(t, "acquiring", "out") \/ Move(t, "releasing", "out")
  /\ UNCHANGED count

Next == \E t \in Tasks : Begin(t) \/ Take(t) \/ Give(t) \/ End(t)

Spec == Init /\ [][Next]_<<count, phase>>
=============================================================================
